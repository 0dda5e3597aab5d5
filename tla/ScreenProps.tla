------------------------------ MODULE ScreenProps ------------------------------
(***************************************************************************)
(* What is claimed of the backlight schedule.                              *)
(***************************************************************************)
EXTENDS Screen

(* Every variable has its type. *)
TypeOK ==
  /\ up \in BOOLEAN /\ phase \in {"full", "dim", "fading", "off"}
  /\ level \in 0 .. FullLevel /\ lit \in BOOLEAN
  /\ timer \subseteq {"phase", "fade"}
  /\ due \in {"none", "phase", "fade"} /\ late \in BOOLEAN
  /\ lock \in {"free", "button", "pager"} /\ queueLock \in {"free", "button", "pager"}
  /\ queued \in 0 .. Capacity
  /\ bpc \in {"idle", "pop", "save", "activity", "restart", "count"}
  /\ ppc \in {"boot", "arm", "run", "push"}

(* What screen_is_on answers, and so whether a press acknowledges or only    *)
(* wakes, is whether the glass gives light: the fade never reaches 0 with    *)
(* s_on still set, nor is a lit glass taken for dark.                        *)
IsOnHonest == lit <=> level > 0

(* A lit glass with no countdown behind it has a page behind it: with no     *)
(* timer running and no callback due, either the queue is not empty, or the  *)
(* press that emptied it has yet to call screen_activity, or the boot its    *)
(* screen_arm_off.  Only the button task empties the queue, which is why     *)
(* reading the count once, at the press, is enough.                          *)
Counting ==
  CASE phase = "full"   -> "phase" \in timer \/ due = "phase"
    [] phase = "dim"    -> "phase" \in timer \/ due = "phase"
    [] phase = "fading" -> "fade" \in timer
    [] phase = "off"    -> TRUE
NeverStuckLit ==
  up => \/ Counting
        \/ phase = "full" /\ (queued > 0 \/ bpc \notin {"idle", "pop"})
        \/ ppc \in {"boot", "arm"}

(* screen_activity ends with the glass at full brightness, although it waits *)
(* for the queue's lock with a restarted timer behind it and a callback may   *)
(* be due all the while: what s_lock is for (screen.c:38-41).                *)
PressLights ==
  [][bpc = "count" /\ bpc' = "idle" => phase = "full" /\ level = FullLevel]_vars

(* Unless a page waits or the key is pressed again and again, the glass goes *)
(* dark, after a reboot too.                                                 *)
GoesDark == []<>(phase = "off" \/ queued > 0 \/ bpc # "idle")

(* screen.c:38-41 claims of s_lock that without it "a key press that lights  *)
(* the glass in the same instant a phase timer fires could be undone as the   *)
(* callback dims it again", and screen.c:91 that a late fire is stray: a     *)
(* callback whose timer expired before the restart would change nothing.     *)
PressNotUndone == [][late /\ due # "none" /\ due' = "none" => phase' = phase]_vars

-----------------------------------------------------------------------------
(* The inductive invariant.  s_on, the phase and the level say the same; a    *)
(* task is inside the schedule exactly while it holds s_lock; and while the   *)
(* press reads the queue's count nobody can have undone its restart, not even *)
(* an abort, which only ever happens in a callback that has the lock.         *)
LitPhase == IsOnHonest /\ (lit <=> phase # "off")

LockHeld ==
  /\ lock = "button" <=> bpc \in {"restart", "count"}
  /\ lock = "pager" <=> ppc = "arm"
  /\ ~ up => lock = "free"

Restarted ==
  bpc = "count" => phase = "full" /\ level = FullLevel /\ "phase" \in timer

ScreenInv == TypeOK /\ LitPhase /\ LockHeld /\ Restarted /\ NeverStuckLit
=============================================================================
