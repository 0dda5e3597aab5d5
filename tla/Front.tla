-------------------------------- MODULE Front --------------------------------
(***************************************************************************)
(* button.c and led.c: the one key and the one LED.  The button task       *)
(* samples the key and debounces it by counting; a press acknowledges, a   *)
(* long hold reboots into the portal.  The LED task polls the queue and    *)
(* blinks while it holds pages.  app_main starts the LED at every boot, the *)
(* button only with the pager.                                             *)
(***************************************************************************)
EXTENDS Integers, Sequences

CONSTANTS
  Debounce,  \* BOARD_BUTTON_DEBOUNCE_MS / BUTTON_POLL_MS
  LongHold,  \* APP_BUTTON_LONG_HOLD_MS / BUTTON_POLL_MS
  Capacity   \* APP_MSG_QUEUE_LEN

ASSUME FrontAssumption ==
  /\ Debounce \in Nat \ {0} /\ LongHold \in Nat /\ LongHold > Debounce
  /\ Capacity \in Nat \ {0}

VARIABLES
  key,        \* TRUE while the contact is closed, bounces included
  wasDown, stable,  \* the debounced level, and samples that disagree with it
  downSince, hold,  \* a press without its release; samples since
  mode,       \* "off", "boot", "run" or "portal"
  force,      \* the force-AP flag in NVS
  count,      \* pages in the queue
  seen,       \* the count the LED task has read, -1 before
  lit,        \* its local
  pixel,      \* the LED gives light
  samples,    \* history: the last LongHold samples
  ready,      \* history: the key was up for Debounce samples since the last press
  presses     \* history: parity of the presses

button == <<wasDown, stable, downSince, hold>>
led == <<seen, lit, pixel>>
history == <<samples, ready, presses>>
vars == <<key, button, mode, force, count, led, history>>

ButtonStart ==
  /\ wasDown' = FALSE /\ stable' = 0 /\ downSince' = FALSE /\ hold' = 0
  /\ samples' = [s \in 1 .. LongHold |-> FALSE] /\ ready' = TRUE

Init ==
  /\ key = FALSE /\ wasDown = FALSE /\ stable = 0 /\ downSince = FALSE /\ hold = 0
  /\ mode = "off" /\ force = FALSE /\ count \in 0 .. Capacity
  /\ seen = -1 /\ lit = FALSE /\ pixel = FALSE
  /\ samples = [s \in 1 .. LongHold |-> FALSE] /\ ready = TRUE /\ presses = 0

(* The contact closes, opens or bounces.                                    *)
KeyMoves ==
  /\ key' = ~ key
  /\ UNCHANGED <<button, mode, force, count, led, history>>

(* The pager task queues a page; a full queue evicts one for it.            *)
Push ==
  /\ mode = "run"
  /\ count' = IF count < Capacity THEN count + 1 ELSE count
  /\ UNCHANGED <<key, button, mode, force, led, history>>

-----------------------------------------------------------------------------
(* button_task, once around its loop.                                        *)
StableKept == IF key = wasDown THEN stable ELSE stable + 1
Stable == IF key = wasDown THEN 0 ELSE stable + 1
Edge == key # wasDown /\ Stable >= Debounce
Pressed == Edge /\ key

NeverReleased == downSince \/ Pressed
StillDown == IF Edge THEN key ELSE downSince
Held == (IF Pressed THEN 0 ELSE hold) + 1
LongPress == StillDown /\ Held >= LongHold

LastAre(v) == \A s \in LongHold - Debounce + 1 .. LongHold : samples[s] = v
Remember ==
  /\ samples' = Append(Tail(samples), key)
  /\ ready' = IF LastAre(FALSE)' THEN TRUE ELSE IF LastAre(TRUE)' THEN FALSE ELSE ready

\* A press pops a page, or only wakes the glass, or finds nothing queued.
Acknowledge == count' \in {count, IF count > 0 THEN count - 1 ELSE 0}

Sample ==
  /\ mode = "run" /\ ~ LongPress
  /\ wasDown' = IF Edge THEN key ELSE wasDown
  /\ stable' = IF Edge THEN 0 ELSE Stable
  /\ downSince' = StillDown
  /\ hold' = IF StillDown THEN Held ELSE hold
  /\ IF Pressed THEN Acknowledge /\ presses' = 1 - presses ELSE UNCHANGED <<count, presses>>
  /\ Remember
  /\ UNCHANGED <<key, mode, force, led>>

OnLongForgets ==
  /\ mode' = "off"
  /\ UNCHANGED force
(* settings_request_ap_and_restart *)
OnLong == mode' = "off" /\ force' = TRUE

SampleLong ==
  /\ mode = "run" /\ LongPress
  /\ OnLong
  /\ ButtonStart
  /\ UNCHANGED <<key, count, led, presses>>

-----------------------------------------------------------------------------
(* led_task: read the count, then show it and sleep.                         *)
LedRead ==
  /\ mode # "off" /\ seen = -1
  /\ seen' = count
  /\ UNCHANGED <<key, button, mode, force, count, lit, pixel, history>>

LedLeavesPulse ==
  /\ mode # "off" /\ seen # -1 /\ seen' = -1
  /\ IF seen > 0 THEN lit' = ~ lit /\ pixel' = lit' ELSE UNCHANGED <<lit, pixel>>
  /\ UNCHANGED <<key, button, mode, force, count, history>>

LedShow ==
  /\ mode # "off" /\ seen # -1 /\ seen' = -1
  /\ lit' = (seen > 0 /\ ~ lit)
  /\ pixel' = lit'
  /\ UNCHANGED <<key, button, mode, force, count, history>>

-----------------------------------------------------------------------------
(* app_main: the queue comes back from flash, led_init clears the pixel; the *)
(* networks, or the portal when the flag asks for it.                        *)
LedInit ==
  /\ mode = "off" /\ mode' = "boot"
  /\ seen' = -1 /\ lit' = FALSE /\ pixel' = FALSE
  /\ UNCHANGED <<key, button, force, count, history>>

BootPortal ==
  /\ mode = "boot" /\ force /\ mode' = "portal"
  /\ UNCHANGED <<key, button, force, count, led, history>>

BootRun ==
  /\ mode = "boot" /\ ~ force
  /\ \/ mode' = "run" /\ UNCHANGED force
     \/ mode' = "off" /\ force' = TRUE
  /\ ButtonStart
  /\ UNCHANGED <<key, count, led, presses>>

(* A form is saved in the portal, or power is cut.                           *)
FormSaved ==
  /\ mode = "portal" /\ mode' = "off" /\ force' = FALSE
  /\ UNCHANGED <<key, button, count, led, history>>

Cut ==
  /\ mode # "off" /\ mode' = "off" /\ pixel' = FALSE
  /\ ButtonStart
  /\ UNCHANGED <<key, force, count, seen, lit, presses>>

Next ==
  \/ KeyMoves \/ Push \/ Sample \/ SampleLong \/ LedRead \/ LedShow
  \/ LedInit \/ BootPortal \/ BootRun \/ FormSaved \/ Cut

(* Each task is scheduled, and app_main gets on with the boot.               *)
Fairness ==
  /\ WF_vars(Sample \/ SampleLong) /\ WF_vars(LedRead) /\ WF_vars(LedShow)
  /\ WF_vars(LedInit) /\ WF_vars(BootPortal) /\ WF_vars(BootRun)

Spec == Init /\ [][Next]_vars
FairSpec == Spec /\ Fairness
=============================================================================
