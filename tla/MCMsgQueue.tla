----------------------------- MODULE MCMsgQueue -----------------------------
(* A ring of two or three slots, three pages: enough to wrap, to fill, to   *)
(* evict twice, and to tell the page evicted from the one that replaced it. *)
EXTENDS MsgQueueProps, TLC

Pages == Permutations(Page)
=============================================================================
