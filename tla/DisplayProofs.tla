----------------------------- MODULE DisplayProofs -----------------------------
(***************************************************************************)
(* Proofs about the display: the backlight schedule, for every capacity of *)
(* the queue, every pair of levels and every length of the fade, and the   *)
(* shared SPI bus, for every number of buffers.                            *)
(***************************************************************************)
EXTENDS ScreenProps, BusProps, TLAPS

LEMMA StepIsNat == Step \in Nat
  BY ScreenAssumption DEF Step

LEMMA ScreenInvInit == Init => ScreenInv
<1> SUFFICES ASSUME Init PROVE ScreenInv
  OBVIOUS
<1>1. level > 0 /\ level \in 0 .. FullLevel /\ queued \in 0 .. Capacity
  BY ScreenAssumption DEF Init
<1>2. /\ up /\ lit /\ ~ late
      /\ up \in BOOLEAN /\ lit \in BOOLEAN /\ late \in BOOLEAN
  BY DEF Init
<1>3. TypeOK
  BY <1>1, <1>2 DEF Init, TypeOK
<1>4. LitPhase /\ LockHeld /\ Restarted /\ NeverStuckLit
  BY <1>1, <1>2 DEF Init, LitPhase, IsOnHonest, LockHeld, Restarted, NeverStuckLit
<1> QED
  BY <1>3, <1>4 DEF ScreenInv

LEMMA ScreenInvStep == ScreenInv /\ [Next]_vars => ScreenInv'
<1> SUFFICES ASSUME ScreenInv, [Next]_vars PROVE ScreenInv'
  OBVIOUS
<1> USE ScreenAssumption DEF ScreenInv, TypeOK, LitPhase, IsOnHonest, LockHeld, Restarted,
        NeverStuckLit, Counting, schedule
<1>1. CASE Press
  BY <1>1 DEF Press, Yields
<1>2. CASE Pop
  <2>1. TypeOK'
    BY <1>2 DEF Pop, Yields
  <2>2. LitPhase'
    BY <1>2 DEF Pop, Yields
  <2>3. LockHeld'
    BY <1>2 DEF Pop, Yields
  <2>4. Restarted'
    BY <1>2 DEF Pop, Yields
  <2>5. NeverStuckLit'
    BY <1>2 DEF Pop, Yields
  <2> QED
    BY <2>1, <2>2, <2>3, <2>4, <2>5
<1>3. CASE PopSaved
  BY <1>3 DEF PopSaved, Yields
<1>4. CASE Activity
  BY <1>4 DEF Activity, Yields
<1>5. CASE ActivityRestart
  <2>1. TypeOK'
    BY <1>5 DEF ActivityRestart, RestartChain, Yields
  <2>2. LitPhase'
    BY <1>5 DEF ActivityRestart, RestartChain, Yields
  <2>3. LockHeld'
    BY <1>5 DEF ActivityRestart, RestartChain, Yields
  <2>4. Restarted'
    BY <1>5 DEF ActivityRestart, RestartChain, Yields
  <2>5. NeverStuckLit'
    BY <1>5 DEF ActivityRestart, RestartChain, Yields
  <2> QED
    BY <2>1, <2>2, <2>3, <2>4, <2>5
<1>6. CASE ActivityCount
  BY <1>6 DEF ActivityCount, Yields
<1>7. CASE ArmOff
  BY <1>7 DEF ArmOff, Yields
<1>8. CASE ArmOffRestart
  BY <1>8 DEF ArmOffRestart, RestartChain, Yields
<1>9. CASE Push
  <2>1. TypeOK'
    <3>1. queued' \in 0 .. Capacity
      BY <1>9 DEF Push
    <3> QED
      BY <3>1, <1>9 DEF Push
  <2>2. LitPhase'
    BY <1>9 DEF Push, Yields
  <2>3. LockHeld'
    BY <1>9 DEF Push, Yields
  <2>4. Restarted'
    BY <1>9 DEF Push, Yields
  <2>5. NeverStuckLit'
    <3>1. queued > 0 => queued' > 0
      BY <1>9 DEF Push
    <3>2. Counting' <=> Counting
      BY <1>9 DEF Push
    <3> QED
      BY <3>1, <3>2, <1>9 DEF Push
  <2> QED
    BY <2>1, <2>2, <2>3, <2>4, <2>5
<1>10. CASE PushSaved
  BY <1>10 DEF PushSaved, Yields
<1>11. CASE PhaseTimer
  <2>0. \/ phase = "full" /\ phase' = "dim" /\ level' = DimLevel
        \/ phase = "dim" /\ phase' = "fading" /\ level' = level
        \/ phase \in {"fading", "off"} /\ phase' = phase /\ level' = level
    BY <1>11 DEF PhaseTimer
  <2>1. TypeOK'
    <3>1. up' \in BOOLEAN
      BY <1>11 DEF PhaseTimer, Start
    <3>2. level' \in 0 .. FullLevel /\ phase' \in {"full", "dim", "fading", "off"}
      BY <2>0
    <3>3. timer' \subseteq {"phase", "fade"}
      BY <1>11 DEF PhaseTimer, Start
    <3>4. late' \in BOOLEAN /\ lit' = lit /\ due' = "none"
      BY <1>11 DEF PhaseTimer
    <3> QED
      BY <3>1, <3>2, <3>3, <3>4, <1>11 DEF PhaseTimer
  <2>2. LitPhase'
    <3>1. lit' = lit /\ (phase' # "off" <=> phase # "off")
      BY <1>11 DEF PhaseTimer
    <3>2. level' > 0 <=> level > 0
      BY <2>0
    <3> QED
      BY <3>1, <3>2
  <2>3. LockHeld'
    BY <1>11 DEF PhaseTimer, Start
  <2>4. Restarted'
    BY <1>11 DEF PhaseTimer, Start
  <2>5. NeverStuckLit'
    BY <1>11 DEF PhaseTimer, Start
  <2> QED
    BY <2>1, <2>2, <2>3, <2>4, <2>5
<1>12. CASE FadeTick
  <2>1. TypeOK'
    <3>1. level' \in 0 .. FullLevel
      BY <1>12, StepIsNat DEF FadeTick
    <3>2. lit' \in BOOLEAN /\ late' \in BOOLEAN /\ phase' \in {"full", "dim", "fading", "off"}
      BY <1>12 DEF FadeTick
    <3>3. /\ timer' \subseteq {"phase", "fade"} /\ due' = "none" /\ up' = up
          /\ UNCHANGED <<lock, queueLock, queued, bpc, ppc>>
      BY <1>12 DEF FadeTick
    <3> QED
      BY <3>1, <3>2, <3>3
  <2>2. LitPhase'
    BY <1>12, StepIsNat DEF FadeTick
  <2>3. LockHeld'
    BY <1>12, StepIsNat DEF FadeTick
  <2>4. Restarted'
    BY <1>12, StepIsNat DEF FadeTick
  <2>5. NeverStuckLit'
    BY <1>12, StepIsNat DEF FadeTick
  <2> QED
    BY <2>1, <2>2, <2>3, <2>4, <2>5
<1>13. CASE Boot
  <2>1. TypeOK'
    <3>1. level' \in 0 .. FullLevel
      BY <1>13 DEF Boot
    <3>2. up' \in BOOLEAN /\ lit' \in BOOLEAN /\ late' \in BOOLEAN
      BY <1>13 DEF Boot
    <3> QED
      BY <3>1, <3>2, <1>13 DEF Boot
  <2>2. LitPhase'
    BY <1>13 DEF Boot
  <2>3. LockHeld'
    BY <1>13 DEF Boot
  <2>4. Restarted'
    BY <1>13 DEF Boot
  <2>5. NeverStuckLit'
    BY <1>13 DEF Boot
  <2> QED
    BY <2>1, <2>2, <2>3, <2>4, <2>5
<1>14. ASSUME NEW t \in {"phase", "fade"}, Expire(t) PROVE ScreenInv'
  BY <1>14 DEF Expire
<1>15. CASE UNCHANGED vars
  <2>1. TypeOK'
    BY <1>15 DEF vars
  <2>2. LitPhase'
    BY <1>15 DEF vars
  <2>3. LockHeld'
    BY <1>15 DEF vars
  <2>4. Restarted'
    BY <1>15 DEF vars
  <2>5. NeverStuckLit'
    BY <1>15 DEF vars
  <2> QED
    BY <2>1, <2>2, <2>3, <2>4, <2>5
<1> QED
  BY <1>1, <1>2, <1>3, <1>4, <1>5, <1>6, <1>7, <1>8, <1>9, <1>10, <1>11, <1>12, <1>13, <1>14, <1>15
     DEF Next, ButtonStep, PagerStep, Timers
(* Nobody undoes a press between its restart of the schedule and its reading *)
(* of the queue's count, and s_phase, s_on and the backlight agree.          *)
THEOREM ScreenInvariant == Spec => []ScreenInv
  BY ScreenInvInit, ScreenInvStep, PTL DEF Spec

(* Every variable keeps its type: the fade never takes the level below 0.    *)
THEOREM ScreenTypeCorrect == Spec => []TypeOK
<1>1. ScreenInv => TypeOK
  BY DEF ScreenInv
<1> QED
  BY <1>1, ScreenInvariant, PTL

(* screen_is_on is TRUE exactly while the glass gives light. *)
THEOREM ScreenIsOnHonest == Spec => []IsOnHonest
<1>1. ScreenInv => IsOnHonest
  BY DEF ScreenInv, LitPhase
<1> QED
  BY <1>1, ScreenInvariant, PTL

(* A glass that is lit with no countdown behind it has a page behind it, or   *)
(* the press that took the last one is on its way to screen_activity.        *)
THEOREM ScreenNeverStuckLit == Spec => []NeverStuckLit
<1>1. ScreenInv => NeverStuckLit
  BY DEF ScreenInv
<1> QED
  BY <1>1, ScreenInvariant, PTL

(* screen_activity leaves the glass at full brightness, whatever callback was *)
(* due meanwhile.                                                            *)
THEOREM ScreenPressLights == Spec => PressLights
<1>1. ScreenInv /\ [Next]_vars
        => [bpc = "count" /\ bpc' = "idle" => phase = "full" /\ level = FullLevel]_vars
  BY DEF ScreenInv, Restarted
<1> QED
  BY <1>1, ScreenInvariant, PTL DEF Spec, PressLights

-----------------------------------------------------------------------------
LEMMA BusInvInit == BusInit => BusInv
<1> SUFFICES ASSUME BusInit PROVE BusInv
  OBVIOUS
<1>1. /\ \A t \in Task : pc[t] = "idle"
      /\ pc["lvgl"] = "idle" /\ pc["pager"] = "idle" /\ pc["button"] = "idle"
  BY DEF BusInit, Task
<1>2. /\ lvgl = "free" /\ guard /\ ~ dma /\ ~ flushing
      /\ guard \in BOOLEAN /\ dma \in BOOLEAN /\ flushing \in BOOLEAN
  BY DEF BusInit
<1>3. chunks \in 0 .. Chunks
  BY BusAssumption DEF BusInit
<1>4. pc \in [Task -> {"idle", "wantUi", "ui", "flush", "draw", "wantCard", "card"}]
  BY DEF BusInit
<1>5. BusTypeOK
  BY <1>1, <1>2, <1>3, <1>4 DEF BusTypeOK
<1>6. GuardAccounted /\ OneUser /\ FlushInHand
  BY <1>1, <1>2 DEF GuardAccounted, OneUser, BusExclusive, FlushInHand
<1> QED
  BY <1>5, <1>6 DEF BusInv

LEMMA BusInvStep == BusInv /\ [BusNext]_busVars => BusInv'
<1> SUFFICES ASSUME BusInv, [BusNext]_busVars PROVE BusInv'
  OBVIOUS
<1> USE BusAssumption DEF BusInv, BusTypeOK, GuardAccounted, OneUser, BusExclusive, FlushInHand, Task, At
<1>1. ASSUME NEW t \in Task, WantUi(t) PROVE BusInv'
  BY <1>1 DEF WantUi
<1>2. ASSUME NEW t \in Task, TakeUi(t) PROVE BusInv'
  BY <1>2 DEF TakeUi
<1>3. ASSUME NEW t \in Task, GiveUi(t) PROVE BusInv'
  BY <1>3 DEF GiveUi
<1>4. CASE Flush
  BY <1>4 DEF Flush
<1>5. CASE TakeGuard
  BY <1>5 DEF TakeGuard
<1>6. CASE Draw
  BY <1>6 DEF Draw
<1>7. CASE DrawFails
  BY <1>7 DEF DrawFails
<1>8. CASE TransferDone
  <2>1. /\ dma /\ ~ dma' /\ guard' /\ ~ flushing'
        /\ guard' \in BOOLEAN /\ dma' \in BOOLEAN /\ flushing' \in BOOLEAN
    BY <1>8 DEF TransferDone
  <2>2. pc' = pc /\ lvgl' = lvgl /\ chunks' = chunks
    BY <1>8 DEF TransferDone
  <2>3. pc["pager"] # "card" /\ pc["lvgl"] \notin {"flush", "draw"}
    BY <2>1
  <2>4. BusTypeOK'
    BY <2>1, <2>2
  <2> QED
    BY <2>1, <2>2, <2>3, <2>4
<1>9. CASE WantCard
  BY <1>9 DEF WantCard
<1>10. CASE TakeCard
  BY <1>10 DEF TakeCard
<1>11. CASE GiveCard
  BY <1>11 DEF GiveCard
<1>12. CASE UNCHANGED busVars
  BY <1>12 DEF busVars
<1> QED
  BY <1>1, <1>2, <1>3, <1>4, <1>5, <1>6, <1>7, <1>8, <1>9, <1>10, <1>11, <1>12 DEF BusNext

(* Whatever the tasks, the panel and the interrupt do, the guard is accounted *)
(* for, and the flush that waits for it is LVGL's only one.                  *)
THEOREM BusInvariant == BusSpec => []BusInv
  BY BusInvInit, BusInvStep, PTL DEF BusSpec

(* Every variable keeps its type. *)
THEOREM BusTypeCorrect == BusSpec => []BusTypeOK
<1>1. BusInv => BusTypeOK
  BY DEF BusInv
<1> QED
  BY <1>1, BusInvariant, PTL

(* The guard is taken exactly while the card, the flush or a transfer has it: *)
(* the interrupt of notify_lvgl_flush_ready and the refusal in lvgl_flush_cb  *)
(* give it back once, never twice.                                           *)
THEOREM BusGuardAccounted == BusSpec => []GuardAccounted
<1>1. BusInv => GuardAccounted
  BY DEF BusInv
<1> QED
  BY <1>1, BusInvariant, PTL

(* The card is never touched while a frame is shifted out (display.h).        *)
THEOREM BusIsExclusive == BusSpec => []BusExclusive
<1>1. BusInv => BusExclusive
  BY DEF BusInv, OneUser
<1> QED
  BY <1>1, BusInvariant, PTL
=============================================================================
