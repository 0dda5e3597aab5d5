-------------------------------- MODULE BusProps --------------------------------
(***************************************************************************)
(* What is claimed of the shared SPI bus and the LVGL lock.                *)
(***************************************************************************)
EXTENDS Bus

(* Every variable has its type. *)
BusTypeOK ==
  /\ lvgl \in Task \cup {"free"}
  /\ guard \in BOOLEAN /\ dma \in BOOLEAN /\ flushing \in BOOLEAN
  /\ chunks \in 0 .. Chunks
  /\ pc \in [Task -> {"idle", "wantUi", "ui", "flush", "draw", "wantCard", "card"}]
  /\ pc["button"] \in {"idle", "wantUi", "ui"}

(* The card is never touched while a frame is still being shifted out, nor   *)
(* is a frame handed over while the card is busy: either reboots the device  *)
(* (display.h).                                                              *)
BusExclusive == ~ (pc["pager"] = "card" /\ (dma \/ pc["lvgl"] = "draw"))

(* The guard is taken exactly while someone answers for it: the card, the    *)
(* flush about to queue, or the transfer whose interrupt will give it back.  *)
(* It is never given twice and never lost, a refused transfer included.      *)
GuardAccounted ==
  ~ guard <=> dma \/ pc["lvgl"] = "draw" \/ pc["pager"] = "card"

-----------------------------------------------------------------------------
(* The inductive invariant.  GuardAccounted alone does not say that its       *)
(* three users exclude each other, and a TransferDone during a flush would    *)
(* take the guard from it: the transfer is the flush LVGL still waits for.    *)
OneUser == BusExclusive /\ ~ (dma /\ pc["lvgl"] = "draw")

FlushInHand ==
  /\ dma => flushing
  /\ pc["lvgl"] \in {"flush", "draw"} => flushing /\ ~ dma

BusInv == BusTypeOK /\ GuardAccounted /\ OneUser /\ FlushInHand

-----------------------------------------------------------------------------
(* Whoever wants to repaint, log a page or flush a buffer gets to: the LVGL   *)
(* task waits for the guard with the LVGL lock held, and nobody takes them   *)
(* in the other order.                                                       *)
NobodyStarves ==
  /\ \A t \in Task : pc[t] = "wantUi" ~> pc[t] = "ui"
  /\ pc["pager"] = "wantCard" ~> pc["pager"] = "card"
  /\ flushing ~> ~ flushing
=============================================================================
