------------------------------- MODULE MCHttps -------------------------------
(* Two addresses, a poll of two slices and a call of one, answers that fit,   *)
(* that end in their header and that pass the limit, one change of the key;   *)
(* a bound name that is empty, and one a byte too long for discard.           *)
EXTENDS HttpsProps
=============================================================================
