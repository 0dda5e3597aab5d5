------------------------------- MODULE MCPager -------------------------------
(* Three updates, at most two to an answer: the first is a command, the      *)
(* second a page, the third a page without a handle to report to.  With a   *)
(* queue of one page the second push finds it full, with a receipt queue of *)
(* one the second press may find that full, and one reset may fall anywhere.*)
(* The first two do not fit into one answer together.                       *)
EXTENDS PagerProps
=============================================================================
