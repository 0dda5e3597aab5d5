------------------------------- MODULE MCFront -------------------------------
(* A debounce of three samples and a hold of seven: a release of two samples  *)
(* is a bounce, one of three ends the stroke, and both fit into a hold.       *)
EXTENDS FrontProps
=============================================================================
