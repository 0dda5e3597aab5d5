------------------------------- MODULE MCScreen -------------------------------
(* A queue of two, so that a press may leave a page or none, and a fade of   *)
(* two steps that end exactly at 0.                                          *)
EXTENDS ScreenProps
=============================================================================
