------------------------------ MODULE WifiProofs ------------------------------
(***************************************************************************)
(* Proofs about the Wi-Fi manager, for every number of networks, of retries *)
(* and of changes on the air.                                              *)
(***************************************************************************)
EXTENDS WifiProps, FiniteSetTheorems, SequenceTheorems, TLAPS

(* The queue of events: what a post and a handled event make of it. *)
LEMMA PostFirst == ASSUME NEW S, NEW e \in S PROVE Append(<< >>, e) = <<e>>
OBVIOUS

LEMMA PostSecond == ASSUME NEW S, NEW e \in S, NEW f \in S PROVE Append(<<e>>, f) = <<e, f>>
<1>1. <<e>> \in Seq(S) /\ Len(<<e>>) = 1 /\ <<e>>[1] = e
  OBVIOUS
<1>2. /\ Append(<<e>>, f) \in Seq(S) /\ Len(Append(<<e>>, f)) = 2
      /\ Append(<<e>>, f)[1] = e /\ Append(<<e>>, f)[2] = f
  BY <1>1, AppendProperties
<1>3. /\ <<e, f>> \in Seq(S) /\ Len(<<e, f>>) = 2 /\ <<e, f>>[1] = e /\ <<e, f>>[2] = f
  OBVIOUS
<1>4. \A i \in 1 .. Len(<<e, f>>) : Append(<<e>>, f)[i] = <<e, f>>[i]
  BY <1>2, <1>3
<1> QED
  BY <1>2, <1>3, <1>4, SeqEqual

LEMMA Handling ==
  ASSUME EventsFit, events # << >>
  PROVE  \/ events = <<"start">> /\ Head(events) = "start" /\ Tail(events) = << >>
         \/ events = <<"disc">> /\ Head(events) = "disc" /\ Tail(events) = << >>
         \/ events = <<"ip">> /\ Head(events) = "ip" /\ Tail(events) = << >>
         \/ events = <<"ip", "disc">> /\ Head(events) = "ip" /\ Tail(events) = <<"disc">>
<1>1. CASE events = <<"start">>
  BY <1>1
<1>2. CASE events = <<"disc">>
  BY <1>2
<1>3. CASE events = <<"ip">>
  BY <1>3
<1>4. CASE events = <<"ip", "disc">>
  BY <1>4
<1> QED
  BY <1>1, <1>2, <1>3, <1>4 DEF EventsFit

LEMMA EventsAreSeq ==
  ASSUME EventsFit
  PROVE  events \in Seq({"start", "ip", "disc"}) /\ Len(events) <= 2
<1>1. CASE events = << >>
  BY <1>1
<1>2. CASE events = <<"start">>
  BY <1>2
<1>3. CASE events = <<"disc">>
  BY <1>3
<1>4. CASE events = <<"ip">>
  BY <1>4
<1>5. CASE events = <<"ip", "disc">>
  BY <1>5
<1> QED
  BY <1>1, <1>2, <1>3, <1>4, <1>5 DEF EventsFit

(* A ranking lists configured networks. *)
LEMMA RankingIsSeq ==
  ASSUME air \subseteq Slot, NEW r \in Ranking
  PROVE  r \in Seq(Slot)
<1>1. IsFiniteSet(Slot)
  BY FS_Interval, WifiAssumption DEF Slot
<1>2. Cardinality(air) \in Nat
  BY <1>1, FS_Subset, FS_CardinalityType
<1>3. r \in [1 .. Cardinality(air) -> Slot]
  BY DEF Ranking
<1> QED
  BY <1>2, <1>3

-----------------------------------------------------------------------------
(* The air and the driver. *)
LEMMA EventsAreSeqNext ==
  ASSUME EventsFit'
  PROVE  events' \in Seq({"start", "ip", "disc"}) /\ Len(events') <= 2
<1>1. (EventsFit => events \in Seq({"start", "ip", "disc"}) /\ Len(events) <= 2)'
  BY EventsAreSeq, PTL
<1> QED
  BY <1>1

LEMMA ChangeKeepsInv ==
  ASSUME WifiInv, Change
  PROVE  WifiInv'
<1>1. UNCHANGED <<driver, flags, cur, main, monitor, tries>>
  BY DEF Change
<1>2. EventsFit' /\ Walk' /\ HandOver' /\ LossFlagged'
  BY <1>1 DEF WifiInv, EventsFit, Walk, HandOver, LossFlagged, Quiet, PortalIsLast, driver, flags, monitor
<1>3. air' \subseteq Slot /\ rssi' \in [Slot -> Signal] /\ flaps' \in 0 .. MaxFlaps
  <2>1. flaps \in 0 .. MaxFlaps /\ flaps < MaxFlaps /\ flaps' = flaps + 1
    BY DEF Change, Flap, WifiInv, TypeOK
  <2>2. flaps' \in 0 .. MaxFlaps
    BY <2>1, WifiAssumption
  <2>3. CASE air' \in SUBSET Slot \ {air} /\ UNCHANGED rssi
    BY <2>2, <2>3 DEF WifiInv, TypeOK
  <2>4. CASE rssi' \in [Slot -> Signal] \ {rssi} /\ UNCHANGED air
    BY <2>2, <2>4 DEF WifiInv, TypeOK
  <2> QED
    BY <2>3, <2>4 DEF Change
<1>4. TypeOK'
  BY <1>1, <1>3 DEF WifiInv, TypeOK, driver, flags, monitor
<1> QED
  BY <1>2, <1>4 DEF WifiInv

LEMMA AssociateKeepsInv ==
  ASSUME WifiInv, Associate
  PROVE  WifiInv'
<1>1. sta = "connecting" /\ sta' = "up" /\ events = << >> /\ events' = <<"ip">>
  BY PostFirst DEF Associate, Post, WifiInv, EventsFit
<1>2. UNCHANGED <<air, rssi, flaps, cfg, ap, bits, retry, armed, linkUp, cur, main, mon, list, roaming, tries>>
  BY DEF Associate, flags, monitor
<1>3. EventsFit'
  BY <1>1 DEF EventsFit
<1>4. TypeOK'
  BY <1>1, <1>2, <1>3, EventsAreSeqNext DEF WifiInv, TypeOK
<1>5. Walk'
  BY <1>1, <1>2 DEF WifiInv, Walk, Quiet, PortalIsLast
<1>6. HandOver' /\ LossFlagged'
  BY <1>1, <1>2 DEF WifiInv, HandOver, LossFlagged
<1> QED
  BY <1>3, <1>4, <1>5, <1>6 DEF WifiInv

LEMMA LossKeepsInv ==
  ASSUME WifiInv, Refuse \/ Drop
  PROVE  WifiInv'
<1>1. /\ sta \in {"connecting", "up"} /\ sta' = "idle"
      /\ events \in {<< >>, <<"ip">>} /\ events' \in {<<"disc">>, <<"ip", "disc">>}
  <2>1. sta \in {"connecting", "up"} /\ sta' = "idle" /\ events' = Append(events, "disc")
    BY DEF Refuse, Drop, Post
  <2>2. events = << >> \/ events = <<"ip">>
    BY <2>1 DEF WifiInv, EventsFit
  <2>3. CASE events = << >>
    BY <2>1, <2>3, PostFirst
  <2>4. CASE events = <<"ip">>
    <3>1. "ip" \in {"ip", "disc"} /\ "disc" \in {"ip", "disc"}
      OBVIOUS
    <3>2. Append(<<"ip">>, "disc") = <<"ip", "disc">>
      BY <3>1, PostSecond
    <3> QED
      BY <2>1, <2>4, <3>2
  <2> QED
    BY <2>1, <2>2, <2>3, <2>4
<1>2. UNCHANGED <<air, rssi, cfg, ap, bits, retry, armed, linkUp, cur, main, mon, list, roaming, tries>>
  BY DEF Refuse, Drop, flags, monitor
<1>3. EventsFit'
  BY <1>1 DEF EventsFit
<1>4. flaps' \in 0 .. MaxFlaps
  BY WifiAssumption DEF Refuse, Drop, Flap, WifiInv, TypeOK
<1>5. TypeOK'
  BY <1>1, <1>2, <1>3, <1>4, EventsAreSeqNext DEF WifiInv, TypeOK
<1>6. events' # <<"start">> /\ events # <<"start">>
  BY <1>1
<1>7. main \notin {"start", "portal"}
  BY <1>1 DEF WifiInv, Walk
<1>8. "fail" \in bits => main # "wait" \/ "connected" \in bits
  BY <1>1 DEF WifiInv, Walk
<1>9. Walk'
  BY <1>1, <1>2, <1>6, <1>7, <1>8 DEF WifiInv, Walk
<1>10. HandOver' /\ LossFlagged'
  BY <1>1, <1>2 DEF WifiInv, HandOver, LossFlagged
<1> QED
  BY <1>3, <1>5, <1>9, <1>10 DEF WifiInv

-----------------------------------------------------------------------------
(* event_handler. *)
LEMMA StartedKeepsInv ==
  ASSUME WifiInv, Started
  PROVE  WifiInv'
<1>1. events = <<"start">> /\ events' = << >>
  BY Handling DEF Started, WifiInv
<1>2. /\ sta = "idle" /\ main = "wait" /\ retry = 0 /\ bits \cap {"connected", "fail"} = {}
      /\ tries[cfg] = 0
  BY <1>1 DEF WifiInv, EventsFit, Walk
<1>3. sta' = "connecting" /\ ap' = cfg
  BY <1>2 DEF Started, Connect
<1>4. /\ tries' = [tries EXCEPT ![cfg] = 1]
      /\ UNCHANGED <<air, rssi, flaps, cfg, bits, retry, armed, linkUp, cur, main, mon, list, roaming>>
  BY <1>2 DEF Started, flags, monitor, WifiInv, TypeOK
<1>5. EventsFit'
  BY <1>1 DEF EventsFit
<1>6. TypeOK'
  BY <1>3, <1>4, <1>5, EventsAreSeqNext, WifiAssumption DEF WifiInv, TypeOK
<1>7. cfg \in Slot /\ Slot \subseteq Int /\ tries \in [Slot -> 0 .. MaxRetry + 1]
  BY WifiAssumption DEF WifiInv, TypeOK, Slot
<1>8. Walk'
  BY <1>1, <1>2, <1>3, <1>4, <1>7 DEF WifiInv, Walk
<1>9. HandOver' /\ LossFlagged'
  BY <1>2, <1>3, <1>4 DEF WifiInv, HandOver, LossFlagged
<1> QED
  BY <1>5, <1>6, <1>8, <1>9 DEF WifiInv

LEMMA GotIpKeepsInv ==
  ASSUME WifiInv, GotIp
  PROVE  WifiInv'
<1>1. \/ events = <<"ip">> /\ events' = << >>
      \/ events = <<"ip", "disc">> /\ events' = <<"disc">>
  BY Handling DEF GotIp, WifiInv
<1>2. /\ retry' = 0 /\ linkUp' = TRUE /\ bits' = bits \cup {"connected"}
      /\ UNCHANGED <<air, rssi, flaps, sta, cfg, ap, armed, cur, main, mon, list, roaming, tries>>
  BY DEF GotIp, monitor
<1>3. EventsFit'
  BY <1>1, <1>2 DEF WifiInv, EventsFit
<1>4. TypeOK'
  BY <1>2, <1>3, EventsAreSeqNext, WifiAssumption DEF WifiInv, TypeOK
<1>5. events # << >> /\ events' # <<"start">>
  BY <1>1
<1>6. Walk'
  BY <1>2, <1>5 DEF WifiInv, Walk, Quiet
<1>7. HandOver' /\ LossFlagged'
  BY <1>2 DEF WifiInv, HandOver, LossFlagged
<1> QED
  BY <1>3, <1>4, <1>6, <1>7 DEF WifiInv

LEMMA DisconnectedKeepsInv ==
  ASSUME WifiInv, Disconnected
  PROVE  WifiInv'
<1>1. events = <<"disc">> /\ events' = << >> /\ sta = "idle"
  BY Handling DEF Disconnected, WifiInv, EventsFit
<1>2. UNCHANGED <<air, rssi, flaps, cfg, armed, cur, main, mon, list, roaming>>
  BY DEF Disconnected, monitor
<1>3. EventsFit'
  BY <1>1 DEF EventsFit
<1>4. events # << >> /\ events # <<"start">> /\ events' # <<"start">> /\ main \notin {"start", "portal"}
  BY <1>1 DEF WifiInv, Walk, EventsFit, Quiet
<1>5. cfg \in Slot /\ Slot \subseteq Int /\ tries \in [Slot -> 0 .. MaxRetry + 1] /\ retry \in 0 .. MaxRetry
  BY WifiAssumption DEF WifiInv, TypeOK, Slot
<1>6. CASE armed
  <2>1. Flag /\ UNCHANGED <<sta, ap, retry, tries>> /\ main = "done"
    BY <1>6 DEF Disconnected, WifiInv, HandOver
  <2>2. TypeOK'
    BY <1>2, <1>3, <2>1, EventsAreSeqNext DEF Flag, WifiInv, TypeOK
  <2>3. Walk'
    BY <1>1, <1>2, <1>4, <2>1 DEF WifiInv, Walk
  <2>4. HandOver' /\ LossFlagged'
    BY <1>1, <1>2, <1>6, <2>1 DEF Flag, WifiInv, HandOver, LossFlagged
  <2> QED
    BY <1>3, <2>2, <2>3, <2>4 DEF WifiInv
<1>7. CASE ~ armed /\ RetryLeft
  <2>1. /\ sta' = "connecting" /\ ap' = cfg /\ retry' = retry + 1 /\ UNCHANGED <<bits, linkUp>>
        /\ tries' = [tries EXCEPT ![cfg] = @ + (IF "connected" \in bits THEN 0 ELSE 1)]
        /\ retry < MaxRetry
    BY <1>1, <1>7 DEF Disconnected, Connect, RetryLeft
  <2>2. main \in {"wait", "sync"} /\ mon = "off"
    BY <1>4, <1>7 DEF WifiInv, HandOver, TypeOK
  <2>3. CASE "connected" \in bits
    <3>1. tries' = tries
      BY <1>5, <2>1, <2>3
    <3>2. TypeOK'
      BY <1>2, <1>3, <1>5, <2>1, <3>1, EventsAreSeqNext, WifiAssumption DEF WifiInv, TypeOK
    <3>3. Walk'
      BY <1>1, <1>2, <1>4, <2>1, <2>3, <3>1 DEF WifiInv, Walk
    <3> QED
      BY <1>1, <1>2, <1>3, <2>1, <2>2, <3>2, <3>3 DEF WifiInv, HandOver, LossFlagged
  <2>4. CASE "connected" \notin bits
    <3>1. main = "wait" /\ tries[cfg] = retry + 1 /\ "fail" \notin bits
      BY <1>4, <2>2, <2>4 DEF WifiInv, HandOver, Walk, Quiet
    <3>2. tries' = [tries EXCEPT ![cfg] = retry + 2]
      BY <1>5, <2>1, <2>4, <3>1
    <3>3. TypeOK'
      BY <1>2, <1>3, <1>5, <2>1, <3>2, EventsAreSeqNext, WifiAssumption DEF WifiInv, TypeOK
    <3>4. Walk'
      BY <1>1, <1>2, <1>4, <1>5, <2>1, <3>1, <3>2 DEF WifiInv, Walk
    <3> QED
      BY <1>1, <1>2, <1>3, <2>1, <2>2, <3>3, <3>4 DEF WifiInv, HandOver, LossFlagged
  <2> QED
    BY <2>3, <2>4
<1>8. CASE ~ armed /\ ~ RetryLeft
  <2>1. bits' = bits \cup {"fail"} /\ UNCHANGED <<sta, ap, retry, linkUp, tries>> /\ retry = MaxRetry
    BY <1>5, <1>8, WifiAssumption DEF Disconnected, RetryLeft
  <2>2. TypeOK'
    BY <1>2, <1>3, <2>1, EventsAreSeqNext DEF WifiInv, TypeOK
  <2>3. Walk'
    BY <1>1, <1>2, <1>4, <2>1 DEF WifiInv, Walk, Quiet
  <2> QED
    BY <1>1, <1>2, <1>3, <1>8, <2>1, <2>2, <2>3 DEF WifiInv, HandOver, LossFlagged
<1> QED
  BY <1>6, <1>7, <1>8

-----------------------------------------------------------------------------
(* wifi_manager_connect_sta and app_main. *)
LEMMA TryNextKeepsInv ==
  ASSUME WifiInv, NEW i \in Slot, Quiet, TryNext(i),
         UNCHANGED <<air, rssi, flaps, monitor, tries>>, main \in {"start", "wait"},
         \A s \in Slot : /\ s < i => tries[s] = MaxRetry + 1
                         /\ s >= i => tries[s] = 0
  PROVE  WifiInv'
<1>1. events' = <<"start">> /\ sta' = "idle"
  BY PostFirst DEF TryNext, Post, Quiet
<1>2. /\ cfg' = i /\ retry' = 0 /\ bits' = bits \ {"connected", "fail"} /\ main' = "wait"
      /\ UNCHANGED <<air, rssi, flaps, ap, armed, linkUp, cur, mon, list, roaming, tries>>
  BY DEF TryNext, monitor
<1>3. EventsFit'
  BY <1>1 DEF EventsFit
<1>4. TypeOK'
  BY <1>1, <1>2, <1>3, EventsAreSeqNext, WifiAssumption DEF WifiInv, TypeOK
<1>5. Slot \subseteq Int
  BY WifiAssumption DEF Slot
<1>6. Walk'
  BY <1>1, <1>2, <1>5 DEF Walk
<1>7. HandOver' /\ LossFlagged'
  BY <1>1, <1>2 DEF WifiInv, HandOver, LossFlagged
<1> QED
  BY <1>3, <1>4, <1>6, <1>7 DEF WifiInv

LEMMA BootKeepsInv ==
  ASSUME WifiInv, BootFirst \/ BootNext
  PROVE  WifiInv'
<1>1. 0 \in Slot /\ \A s \in Slot : ~ (s < 0) /\ s \in Int
  BY WifiAssumption DEF Slot
<1>2. cfg \in Slot /\ Quiet /\ UNCHANGED <<air, rssi, flaps, monitor, tries>>
  BY DEF BootFirst, BootNext, WifiInv, TypeOK
<1>3. CASE BootFirst
  <2>1. \A s \in Slot : (s < 0 => tries[s] = MaxRetry + 1) /\ (s >= 0 => tries[s] = 0)
    BY <1>1, <1>3 DEF BootFirst, WifiInv, Walk
  <2> QED
    BY <1>1, <1>2, <1>3, <2>1, TryNextKeepsInv DEF BootFirst
<1>4. CASE BootNext
  <2>1. /\ main = "wait" /\ "fail" \in bits /\ "connected" \notin bits /\ sta = "idle"
        /\ retry = MaxRetry /\ tries[cfg] = retry + 1
    BY <1>2, <1>4 DEF BootNext, WifiInv, Walk, Quiet
  <2>2. \A s \in Slot : /\ s < cfg + 1 => tries[s] = MaxRetry + 1
                        /\ s >= cfg + 1 => tries[s] = 0
    BY <1>1, <1>2, <2>1 DEF WifiInv, Walk
  <2>3. CASE cfg + 1 < Slots /\ TryNext(cfg + 1)
    <3>1. cfg + 1 \in Slot
      BY <1>2, <2>3, WifiAssumption DEF Slot
    <3> QED
      BY <1>2, <2>1, <2>2, <2>3, <3>1, TryNextKeepsInv
  <2>4. CASE cfg + 1 = Slots /\ main' = "portal" /\ UNCHANGED <<driver, flags, cur>>
    <3>1. UNCHANGED <<air, rssi, flaps, sta, cfg, ap, events, bits, retry, armed, linkUp, cur, mon, list,
                      roaming, tries>>
      BY <1>2, <2>4 DEF driver, flags, monitor
    <3>2. \A s \in Slot : tries[s] = MaxRetry + 1
      BY <1>1, <2>2, <2>4, WifiAssumption DEF Slot
    <3>3. TypeOK' /\ EventsFit'
      BY <2>4, <3>1 DEF WifiInv, TypeOK, EventsFit
    <3>4. Walk'
      BY <1>2, <2>1, <2>4, <3>1, <3>2 DEF Walk, PortalIsLast, Quiet
    <3>5. HandOver' /\ LossFlagged'
      BY <2>1, <2>4, <3>1 DEF WifiInv, HandOver, LossFlagged
    <3> QED
      BY <3>3, <3>4, <3>5 DEF WifiInv
  <2> QED
    BY <1>4, <2>3, <2>4 DEF BootNext
<1> QED
  BY <1>3, <1>4

LEMMA BootConnectedKeepsInv ==
  ASSUME WifiInv, BootConnected \/ StartMonitor
  PROVE  WifiInv'
<1>1. /\ UNCHANGED <<air, rssi, flaps, sta, cfg, ap, events, bits, retry, linkUp, list, roaming, tries>>
      /\ events = << >> /\ cfg \in Slot
  BY DEF BootConnected, StartMonitor, driver, flags, monitor, Quiet, WifiInv, TypeOK
<1>2. CASE BootConnected
  <2>1. main = "wait" /\ "connected" \in bits /\ cur' = cfg /\ main' = "sync" /\ UNCHANGED <<armed, mon>>
    BY <1>2 DEF BootConnected, flags, monitor
  <2> QED
    BY <1>1, <2>1 DEF WifiInv, TypeOK, EventsFit, Walk, HandOver, LossFlagged, Quiet
<1>3. CASE StartMonitor
  <2>1. main = "sync" /\ main' = "done" /\ armed' = TRUE /\ mon' = "wait" /\ cur' = cur
    BY <1>3 DEF StartMonitor
  <2> QED
    BY <1>1, <2>1 DEF WifiInv, TypeOK, EventsFit, Walk, HandOver, LossFlagged, Quiet
<1> QED
  BY <1>2, <1>3

-----------------------------------------------------------------------------
(* monitor_task: it runs once the walk is over, so that only the types, the   *)
(* network it configures and the flags it clears are at stake.               *)
LEMMA MonitorKeepsWalk ==
  ASSUME WifiInv, MonitorStep
  PROVE  /\ main = "done" /\ main' = "done" /\ armed /\ armed' /\ mon # "off" /\ mon' # "off"
         /\ Walk
         /\ UNCHANGED <<air, rssi, flaps, retry, linkUp, tries>>
         /\ events = << >>
<1>1. /\ mon # "off" /\ mon' # "off"
      /\ UNCHANGED <<air, rssi, flaps, retry, linkUp, tries, main, armed>>
      /\ events = << >>
  BY DEF MonitorStep, Wake, Look, Scan, ScanFails, Restored, BackedOff, MaybeRoam, TryDisconnect,
     TryConnect, TryTimesOut, TrySucceeds, TryClear, TryRecheck, flags, driver, Quiet
<1> QED
  BY <1>1 DEF WifiInv, HandOver

LEMMA PollingKeepsInv ==
  ASSUME WifiInv, Wake \/ Look \/ Scan \/ ScanFails \/ Restored \/ BackedOff \/ MaybeRoam
  PROVE  WifiInv'
<1>1. /\ main = "done" /\ main' = "done" /\ armed /\ armed' /\ mon # "off" /\ mon' # "off"
      /\ UNCHANGED <<air, rssi, flaps, retry, linkUp, tries>> /\ events = << >>
  BY MonitorKeepsWalk DEF MonitorStep
<1>2. UNCHANGED <<sta, cfg, ap, events, cur>> /\ bits' \in {bits, bits \ {"lost"}}
  BY DEF Wake, Look, Scan, ScanFails, Restored, BackedOff, MaybeRoam, flags, driver
<1>3. list' \in Seq(Slot) /\ roaming' \in BOOLEAN
  <2>1. list \in Seq(Slot) /\ roaming \in BOOLEAN /\ air \subseteq Slot
    BY DEF WifiInv, TypeOK
  <2>2. CASE Scan
    BY <2>1, <2>2, RankingIsSeq DEF Scan
  <2>3. CASE MaybeRoam
    <3>1. CASE UNCHANGED <<list, roaming>>
      BY <2>1, <3>1
    <3>2. CASE \E best \in air : list' = <<best>> /\ roaming' = TRUE
      <4>1. PICK best \in air : list' = <<best>> /\ roaming' = TRUE
        BY <3>2
      <4>2. best \in Slot
        BY <2>1
      <4>3. <<best>> \in Seq(Slot)
        BY <4>2
      <4> QED
        BY <4>1, <4>3
    <3> QED
      BY <2>3, <3>1, <3>2 DEF MaybeRoam
  <2>4. CASE Wake \/ Look \/ ScanFails \/ Restored \/ BackedOff
    <3>1. list' = list \/ list' = << >>
      BY <2>4 DEF Wake, Look, ScanFails, Restored, BackedOff
    <3>2. roaming' = roaming
      BY <2>4 DEF Wake, Look, ScanFails, Restored, BackedOff
    <3>3. << >> \in Seq(Slot)
      OBVIOUS
    <3> QED
      BY <2>1, <3>1, <3>2, <3>3
  <2> QED
    BY <2>2, <2>3, <2>4
<1>4. mon' \in {"wait", "woken", "roam", "failover", "backoff", "try"}
  BY DEF Wake, Look, Scan, ScanFails, Restored, BackedOff, MaybeRoam
<1>5. TypeOK' /\ EventsFit'
  BY <1>1, <1>2, <1>3, <1>4 DEF WifiInv, TypeOK, EventsFit
<1>6. HandOver'
  BY <1>1, <1>2 DEF WifiInv, HandOver
<1>7. Walk'
  BY <1>1, <1>2 DEF WifiInv, Walk
<1>8. LossFlagged'
  <2>1. CASE Wake
    BY <1>1, <2>1 DEF Wake, WifiInv, LossFlagged
  <2>2. CASE Look
    BY <1>1, <2>2 DEF Look, WifiInv, LossFlagged, flags
  <2>3. CASE Scan \/ ScanFails \/ Restored \/ BackedOff
    BY <1>1, <2>3 DEF Scan, ScanFails, Restored, BackedOff, WifiInv, LossFlagged, flags
  <2>4. CASE MaybeRoam
    BY <1>1, <2>4 DEF MaybeRoam, WifiInv, LossFlagged, flags
  <2> QED
    BY <2>1, <2>2, <2>3, <2>4
<1> QED
  BY <1>5, <1>6, <1>7, <1>8 DEF WifiInv

LEMMA TryingKeepsInv ==
  ASSUME WifiInv, TryDisconnect \/ TryConnect \/ TryTimesOut \/ TrySucceeds \/ TryClear \/ TryRecheck
  PROVE  WifiInv'
<1>1. /\ main = "done" /\ main' = "done" /\ armed /\ armed' /\ mon # "off" /\ mon' # "off"
      /\ UNCHANGED <<air, rssi, flaps, retry, linkUp, tries>> /\ events = << >> /\ cur = cfg
  BY MonitorKeepsWalk DEF MonitorStep, WifiInv, HandOver
<1>2. CASE TryDisconnect
  <2>1. /\ cfg' = Head(list) /\ cur' = Head(list) /\ list' = Tail(list) /\ mon = "try"
        /\ mon' = "connect" /\ UNCHANGED <<ap, bits, roaming>>
    BY <1>2 DEF TryDisconnect, flags
  <2>2. Head(list) \in Slot /\ Tail(list) \in Seq(Slot)
    BY <2>1 DEF WifiInv, TypeOK, LossFlagged
  <2>3. /\ sta' = "idle"
        /\ events' = << >> \/ events' = <<"disc">>
    BY <1>1, <1>2, PostFirst DEF TryDisconnect, Cut, Post
  <2>4. EventsFit'
    BY <2>3 DEF EventsFit
  <2>5. TypeOK'
    BY <1>1, <2>1, <2>2, <2>3, <2>4, EventsAreSeqNext DEF WifiInv, TypeOK
  <2>6. Walk' /\ HandOver'
    BY <1>1, <2>1, <2>3 DEF WifiInv, Walk, HandOver
  <2>7. LossFlagged'
    BY <1>1, <2>1 DEF WifiInv, LossFlagged
  <2> QED
    BY <2>4, <2>5, <2>6, <2>7 DEF WifiInv
<1>3. CASE TryConnect
  <2>1. /\ mon = "connect" /\ mon' = "await" /\ bits' = bits \ {"connected", "fail"}
        /\ UNCHANGED <<cfg, events, cur, list, roaming>>
        /\ \/ sta = "idle" /\ sta' = "connecting" /\ ap' = cfg
           \/ UNCHANGED <<sta, ap>>
    BY <1>3 DEF TryConnect, Connect
  <2>2. EventsFit'
    BY <1>1, <2>1 DEF WifiInv, EventsFit
  <2>3. TypeOK'
    BY <1>1, <2>1 DEF WifiInv, TypeOK
  <2>4. Walk' /\ HandOver'
    BY <1>1, <2>1 DEF WifiInv, Walk, HandOver
  <2>5. LossFlagged'
    BY <1>1, <2>1 DEF WifiInv, LossFlagged
  <2> QED
    BY <2>2, <2>3, <2>4, <2>5 DEF WifiInv
<1>4. CASE TryTimesOut \/ TrySucceeds \/ TryClear \/ TryRecheck
  <2>1. UNCHANGED <<sta, cfg, ap, events, cur, list, roaming>>
    BY <1>4 DEF TryTimesOut, TrySucceeds, TryClear, TryRecheck, driver
  <2>2. /\ bits' \in {bits, bits \ {"lost"}, bits \cup {"lost"}}
        /\ mon' \in {"wait", "failover", "backoff", "try", "clear", "recheck"}
    BY <1>4 DEF TryTimesOut, TrySucceeds, TryClear, TryRecheck, flags
  <2>3. TypeOK' /\ EventsFit'
    BY <1>1, <2>1, <2>2 DEF WifiInv, TypeOK, EventsFit
  <2>4. Walk' /\ HandOver'
    BY <1>1, <2>1 DEF WifiInv, Walk, HandOver
  <2>5. LossFlagged'
    <3>1. CASE TryTimesOut
      BY <1>1, <2>1, <3>1 DEF TryTimesOut, WifiInv, LossFlagged, flags
    <3>2. CASE TrySucceeds \/ TryClear
      BY <3>2 DEF TrySucceeds, TryClear, LossFlagged
    <3>3. CASE TryRecheck
      BY <1>1, <2>1, <3>3 DEF TryRecheck, LossFlagged
    <3> QED
      BY <1>4, <3>1, <3>2, <3>3
  <2> QED
    BY <2>3, <2>4, <2>5 DEF WifiInv
<1> QED
  BY <1>2, <1>3, <1>4

-----------------------------------------------------------------------------
(* WifiInv is an invariant of the Wi-Fi manager. *)
THEOREM WifiInvariant == Spec => []WifiInv
<1>1. Init => WifiInv
  <2> SUFFICES ASSUME Init PROVE WifiInv
    OBVIOUS
  <2>1. 0 \in Slot /\ Slot \subseteq Int
    BY WifiAssumption DEF Slot
  <2>2. EventsFit
    BY DEF Init, EventsFit
  <2>3. TypeOK
    BY <2>1, <2>2, EventsAreSeq, WifiAssumption DEF Init, TypeOK
  <2>4. Walk /\ HandOver /\ LossFlagged
    BY DEF Init, Walk, HandOver, LossFlagged, Quiet
  <2> QED
    BY <2>2, <2>3, <2>4 DEF WifiInv
<1>2. WifiInv /\ [Next]_vars => WifiInv'
  <2> SUFFICES ASSUME WifiInv, [Next]_vars PROVE WifiInv'
    OBVIOUS
  <2>1. CASE Change
    BY <2>1, ChangeKeepsInv
  <2>2. CASE Associate
    BY <2>2, AssociateKeepsInv
  <2>3. CASE Refuse \/ Drop
    BY <2>3, LossKeepsInv
  <2>4. CASE Handler
    BY <2>4, StartedKeepsInv, GotIpKeepsInv, DisconnectedKeepsInv DEF Handler
  <2>5. CASE MainStep
    BY <2>5, BootKeepsInv, BootConnectedKeepsInv DEF MainStep
  <2>6. CASE MonitorStep
    BY <2>6, PollingKeepsInv, TryingKeepsInv DEF MonitorStep
  <2>7. CASE UNCHANGED vars
    BY <2>7 DEF vars, driver, flags, monitor, WifiInv, TypeOK, EventsFit, Walk, HandOver,
       LossFlagged, Quiet, PortalIsLast
  <2> QED
    BY <2>1, <2>2, <2>3, <2>4, <2>5, <2>6, <2>7 DEF Next, Portal
<1> QED
  BY <1>1, <1>2, PTL DEF Spec

(* Type correctness: no network outside the configured ones is ever tried,    *)
(* and no retry goes over the bound.                                         *)
THEOREM WifiTypeCorrect == Spec => []TypeOK
<1>1. WifiInv => TypeOK
  BY DEF WifiInv
<1> QED
  BY <1>1, WifiInvariant, PTL

(* The monitor never sleeps through a lost link: LossNoticed, for every       *)
(* number of networks, retries and changes on the air.                       *)
THEOREM WifiLossNoticed == Spec => []LossNoticed
<1>1. WifiInv => LossNoticed
  BY DEF WifiInv, LossFlagged, LossNoticed
<1> QED
  BY <1>1, WifiInvariant, PTL

(* The portal opens only when every network had all its attempts:             *)
(* PortalIsLast.                                                             *)
THEOREM WifiPortalIsLast == Spec => []PortalIsLast
<1>1. WifiInv => PortalIsLast
  BY DEF WifiInv, Walk, PortalIsLast
<1> QED
  BY <1>1, WifiInvariant, PTL

(* A roam compares the others with the network the station is on:             *)
(* CurrentSlotTrue.                                                          *)
THEOREM WifiCurrentSlotTrue == Spec => []CurrentSlotTrue
<1>1. WifiInv => CurrentSlotTrue
  BY DEF WifiInv, HandOver, CurrentSlotTrue
<1> QED
  BY <1>1, WifiInvariant, PTL
==============================================================================
