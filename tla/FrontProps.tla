----------------------------- MODULE FrontProps -----------------------------
(***************************************************************************)
(* What is claimed of the key and the LED.                                 *)
(***************************************************************************)
EXTENDS Front

(* One stroke of the key is one press, however it bounces: a press is taken  *)
(* exactly when the key reads down for the debounce time at last, having     *)
(* read up for as long since the press before.  A page is never acknowledged *)
(* by the bounce of another's stroke, and no stroke is lost.                 *)
OnePressPerStroke ==
  [][mode = "run" /\ mode' = "run" =>
       (presses' # presses <=> ready /\ LastAre(TRUE)')]_vars

(* The device only reboots into the portal from the key when no release      *)
(* stood for the debounce time during the whole hold.                        *)
LongHoldOnly ==
  [][mode = "run" /\ force' # force =>
       \A s \in 2 .. LongHold - Debounce + 1 :
         \E k \in s .. s + Debounce - 1 : samples[k]]_vars

(* Holding the key reaches the portal, in whatever state the debouncing was  *)
(* and whatever the pager does, power cuts aside.                            *)
HoldReachesPortal == <>[]key /\ <>[][~ Cut]_vars => []<>(mode = "portal")

(* The LED tells whether pages wait: with the queue empty for good it goes   *)
(* dark and stays so, with pages in it it blinks, in the portal too.         *)
LedTellsUnread ==
  <>[](mode # "off") =>
    /\ <>[](count = 0) => <>[](~ pixel)
    /\ <>[](count > 0) => []<>pixel /\ []<>(~ pixel)
-----------------------------------------------------------------------------
(* The inductive invariant behind the first two.                             *)

(* Every variable of the key has its type. *)
TypeOK ==
  /\ key \in BOOLEAN /\ force \in BOOLEAN
  /\ wasDown \in BOOLEAN /\ stable \in 0 .. Debounce - 1
  /\ downSince \in BOOLEAN /\ hold \in 0 .. LongHold - 1
  /\ samples \in [1 .. LongHold -> BOOLEAN] /\ ready \in BOOLEAN /\ presses \in {0, 1}

(* The last `stable` samples, and no more, disagree with the level taken.    *)
Agreed ==
  /\ samples[LongHold - stable] = wasDown
  /\ \A s \in LongHold - stable + 1 .. LongHold : samples[s] # wasDown

(* Since the press no release stood for the debounce time. *)
NoRelease ==
  downSince =>
    \A s \in LongHold - hold + 1 .. LongHold - Debounce + 1 :
      \E k \in s .. s + Debounce - 1 : samples[k]

FrontInv ==
  /\ TypeOK /\ Agreed /\ NoRelease
  /\ ready <=> ~ wasDown
  /\ downSince <=> wasDown
=============================================================================
