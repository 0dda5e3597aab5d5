-------------------------------- MODULE Screen --------------------------------
(***************************************************************************)
(* screen.c: the backlight schedule FULL, DIM, FADING, OFF.  It is driven  *)
(* by two timers whose callbacks run on the esp_timer task, restarted by   *)
(* each press on the button task and once by the pager task, and held lit  *)
(* by a queue that the pager task fills and only the button task empties.  *)
(*                                                                         *)
(* A timer that expires leaves the list at once, and its callback then     *)
(* waits for s_lock: `due` is that callback.  The esp_timer task has the   *)
(* highest priority, so a callback that can have the lock has it next.     *)
(***************************************************************************)
EXTENDS Integers

CONSTANTS
  Capacity,    \* APP_MSG_QUEUE_LEN
  FullLevel,   \* UI_SCREEN_FULL_LEVEL
  DimLevel,    \* UI_SCREEN_DIM_LEVEL
  FadeTicks    \* UI_SCREEN_FADE_MS / FADE_TICK_MS

ASSUME ScreenAssumption ==
  /\ Capacity \in Nat \ {0} /\ FadeTicks \in Nat \ {0}
  /\ FullLevel \in Nat /\ DimLevel \in Nat \ {0} /\ DimLevel < FullLevel

VARIABLES
  up,        \* FALSE from a failed ESP_ERROR_CHECK to the reboot it causes
  phase,     \* s_phase: "full", "dim", "fading" or "off"
  level,     \* the backlight; while fading also s_fade_level
  lit,       \* s_on
  timer,     \* which of the timers "phase" and "fade" is running
  due,       \* the expired timer whose callback has yet to run, or "none"
  late,      \* history: the schedule was restarted after it expired
  lock,      \* holder of s_lock: "free", "button" or "pager"
  queueLock, \* holder of the queue's lock
  queued,    \* msg_queue_count
  bpc,       \* where the button task is in on_button_press
  ppc        \* where the pager task is

schedule == <<phase, level, lit, timer>>
vars == <<up, schedule, due, late, lock, queueLock, queued, bpc, ppc>>

(* display_init leaves the backlight lit; pages may come back from flash.   *)
Init ==
  /\ up = TRUE /\ queued \in 0 .. Capacity
  /\ phase = "full" /\ level = FullLevel /\ lit = TRUE
  /\ timer = {} /\ due = "none" /\ late = FALSE
  /\ lock = "free" /\ queueLock = "free"
  /\ bpc = "idle" /\ ppc = "boot"

\* The esp_timer task leaves the core to the others.
Yields == up /\ (due = "none" \/ lock # "free")

-----------------------------------------------------------------------------
\* go_full, then restart_chain: stop both timers, start the phase timer.
RestartChain ==
  /\ phase' = "full" /\ level' = FullLevel /\ lit' = TRUE
  /\ timer' = {"phase"}
  /\ late' = (due # "none")
  /\ UNCHANGED due

(* on_button_press: a press on a dark glass goes straight to                *)
(* screen_activity, one on a lit glass pops a page first.                    *)
Press ==
  /\ Yields /\ bpc = "idle" /\ lock = "free"
  /\ bpc' = IF lit THEN "pop" ELSE "activity"
  /\ UNCHANGED <<up, schedule, due, late, lock, queueLock, queued, ppc>>

Pop ==
  /\ Yields /\ bpc = "pop" /\ queueLock = "free"
  /\ \/ /\ queued > 0
        /\ queued' = queued - 1
        /\ queueLock' = "button" /\ bpc' = "save"
     \/ /\ queued = 0
        /\ bpc' = "activity"
        /\ UNCHANGED <<queued, queueLock>>
  /\ UNCHANGED <<up, schedule, due, late, lock, ppc>>

PopSavedNoActivity ==
  /\ Yields /\ bpc = "save"
  /\ queueLock' = "free" /\ bpc' = "idle"
  /\ UNCHANGED <<up, schedule, due, late, lock, queued, ppc>>

PopSaved ==
  /\ Yields /\ bpc = "save"
  /\ queueLock' = "free" /\ bpc' = "activity"
  /\ UNCHANGED <<up, schedule, due, late, lock, queued, ppc>>

(* screen_activity, in the three steps a callback or a push may fall between: *)
(* take s_lock, restart, read the queue's count under its own lock.          *)
Activity ==
  /\ Yields /\ bpc = "activity" /\ lock = "free"
  /\ lock' = "button" /\ bpc' = "restart"
  /\ UNCHANGED <<up, schedule, due, late, queueLock, queued, ppc>>

ActivityRestart ==
  /\ Yields /\ bpc = "restart"
  /\ RestartChain
  /\ bpc' = "count"
  /\ UNCHANGED <<up, lock, queueLock, queued, ppc>>

ActivityCountAnyway ==
  /\ Yields /\ bpc = "count" /\ queueLock = "free"
  /\ timer' = timer \ {"phase"}
  /\ lock' = "free" /\ bpc' = "idle"
  /\ UNCHANGED <<up, phase, level, lit, due, late, queueLock, queued, ppc>>

ActivityCount ==
  /\ Yields /\ bpc = "count" /\ queueLock = "free"
  /\ timer' = IF queued # 0 THEN timer \ {"phase"} ELSE timer
  /\ lock' = "free" /\ bpc' = "idle"
  /\ UNCHANGED <<up, phase, level, lit, due, late, queueLock, queued, ppc>>

-----------------------------------------------------------------------------
(* The pager task: screen_arm_off once, then pushes.  A push holds the      *)
(* queue's lock over its flash writes, and evicts when the queue is full.    *)
ArmOff ==
  /\ Yields /\ ppc = "boot" /\ lock = "free"
  /\ lock' = "pager" /\ ppc' = "arm"
  /\ UNCHANGED <<up, schedule, due, late, queueLock, queued, bpc>>

ArmOffRestart ==
  /\ Yields /\ ppc = "arm"
  /\ RestartChain
  /\ lock' = "free" /\ ppc' = "run"
  /\ UNCHANGED <<up, queueLock, queued, bpc>>

Push ==
  /\ Yields /\ ppc = "run" /\ queueLock = "free"
  /\ queued' = IF queued < Capacity THEN queued + 1 ELSE queued
  /\ queueLock' = "pager" /\ ppc' = "push"
  /\ UNCHANGED <<up, schedule, due, late, lock, bpc>>

PushSaved ==
  /\ Yields /\ ppc = "push"
  /\ queueLock' = "free" /\ ppc' = "run"
  /\ UNCHANGED <<up, schedule, due, late, lock, queued, bpc>>

-----------------------------------------------------------------------------
(* A timer expires: the one-shot stops running, the periodic one goes on.   *)
(* Not while the boot repaint or the count of a fresh restart is under way:  *)
(* both are far shorter than UI_SCREEN_FULL_MS.                              *)
Expire(t) ==
  /\ up /\ due = "none" /\ t \in timer
  /\ bpc # "count" /\ ppc \notin {"boot", "arm"}
  /\ due' = t /\ late' = FALSE
  /\ timer' = timer \ ({t} \cap {"phase"})
  /\ UNCHANGED <<up, phase, level, lit, lock, queueLock, queued, bpc, ppc>>

\* esp_timer_start_once or _periodic under ESP_ERROR_CHECK: starting a timer
\* that is running is an error, and the error a reboot.
Start(t) == timer' = timer \cup {t} /\ up' = (t \notin timer)

PhaseTimerUnlocked ==
  /\ up /\ due = "phase"
  /\ \/ /\ phase = "full"
        /\ level' = DimLevel /\ phase' = "dim"
        /\ Start("phase")
     \/ /\ phase = "dim"
        /\ phase' = "fading"
        /\ Start("fade")
        /\ UNCHANGED level
     \/ phase \in {"fading", "off"} /\ UNCHANGED <<up, phase, level, timer>>
  /\ due' = "none" /\ late' = FALSE
  /\ UNCHANGED <<lit, lock, queueLock, queued, bpc, ppc>>

PhaseTimer ==
  /\ up /\ due = "phase" /\ lock = "free"
  /\ \/ /\ phase = "full"
        /\ level' = DimLevel /\ phase' = "dim"
        /\ Start("phase")
     \/ /\ phase = "dim"
        /\ phase' = "fading"
        /\ Start("fade")
        /\ UNCHANGED level
     \/ phase \in {"fading", "off"} /\ UNCHANGED <<up, phase, level, timer>>
  /\ due' = "none" /\ late' = FALSE
  /\ UNCHANGED <<lit, lock, queueLock, queued, bpc, ppc>>

\* Rounded up, so that FadeTicks steps reach 0.
Step == (DimLevel + FadeTicks - 1) \div FadeTicks

FadeTickPastZero ==
  /\ up /\ due = "fade" /\ lock = "free"
  /\ \/ /\ phase = "fading" /\ level < Step
        /\ level' = 0 /\ phase' = "off" /\ lit' = FALSE
        /\ timer' = timer \ {"fade"}
     \/ /\ phase = "fading" /\ level >= Step
        /\ level' = level - Step
        /\ UNCHANGED <<phase, lit, timer>>
     \/ phase # "fading" /\ UNCHANGED schedule
  /\ due' = "none" /\ late' = FALSE
  /\ UNCHANGED <<up, lock, queueLock, queued, bpc, ppc>>

FadeTick ==
  /\ up /\ due = "fade" /\ lock = "free"
  /\ \/ /\ phase = "fading" /\ level <= Step
        /\ level' = 0 /\ phase' = "off" /\ lit' = FALSE
        /\ timer' = timer \ {"fade"}
     \/ /\ phase = "fading" /\ level > Step
        /\ level' = level - Step
        /\ UNCHANGED <<phase, lit, timer>>
     \/ phase # "fading" /\ UNCHANGED schedule
  /\ due' = "none" /\ late' = FALSE
  /\ UNCHANGED <<up, lock, queueLock, queued, bpc, ppc>>

(* The reboot after an abort; the queue comes back from flash.              *)
Boot ==
  /\ ~ up
  /\ up' = TRUE
  /\ phase' = "full" /\ level' = FullLevel /\ lit' = TRUE
  /\ timer' = {} /\ due' = "none" /\ late' = FALSE
  /\ lock' = "free" /\ queueLock' = "free"
  /\ bpc' = "idle" /\ ppc' = "boot"
  /\ UNCHANGED queued

Timers == (\E t \in {"phase", "fade"} : Expire(t)) \/ PhaseTimer \/ FadeTick
ButtonStep == Pop \/ PopSaved \/ Activity \/ ActivityRestart \/ ActivityCount
PagerStep == ArmOff \/ ArmOffRestart \/ PushSaved

Next == Press \/ Push \/ ButtonStep \/ PagerStep \/ Timers \/ Boot

(* Time passes and every task is scheduled; nobody has to press or to page. *)
Fairness ==
  /\ WF_vars(Timers) /\ WF_vars(ButtonStep) /\ WF_vars(PagerStep) /\ WF_vars(Boot)

Spec == Init /\ [][Next]_vars
FairSpec == Spec /\ Fairness
=============================================================================
