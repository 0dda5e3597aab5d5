--------------------------------- MODULE Wifi ---------------------------------
(***************************************************************************)
(* wifi_manager.c: the walk over the configured networks at boot, the event *)
(* handler, and the monitor task that roams and fails over afterwards.     *)
(*                                                                         *)
(* The Wi-Fi driver is external: it connects to the network last configured, *)
(* and posts an event when it has started, got an address, or lost the link. *)
(* The event task has a far higher priority than the main task and the     *)
(* monitor, so on one core they run only when it has nothing to handle.     *)
(***************************************************************************)
EXTENDS Integers, Sequences, FiniteSets

CONSTANTS
  Slots,       \* the number of networks configured
  MaxRetry,    \* APP_WIFI_MAX_RETRY
  Signal,      \* the signal strengths told apart
  Weak,        \* APP_WIFI_ROAM_RSSI_THRESHOLD_DBM
  Margin,      \* APP_WIFI_ROAM_MARGIN_DB
  MaxFlaps     \* bound on the changes on the air

ASSUME WifiAssumption ==
  /\ Slots \in Nat \ {0} /\ MaxRetry \in Nat /\ Signal \subseteq Int
  /\ Weak \in Int /\ Margin \in Nat \ {0}
  /\ MaxFlaps \in Nat

Slot == 0 .. Slots - 1

VARIABLES
  air,      \* the configured networks that answer
  rssi,     \* the signal of each network
  flaps,    \* changes on the air so far
  sta,      \* the driver: "off", "idle", "connecting" or "up"
  cfg,      \* the network it is configured for
  ap,       \* the network it connects or is connected to
  events,   \* what it posted and the event task has yet to handle
  bits,     \* s_wifi_event_group: some of "connected", "fail", "lost"
  retry,    \* s_retry_count
  armed,    \* s_monitor_armed
  linkUp,   \* s_link_up
  cur,      \* s_current_slot
  main,     \* where the main task is in app_main
  mon,      \* where the monitor task is
  list,     \* the ranked slots it has left to try
  roaming,  \* the try is a roam, not a failover
  tries     \* history: the attempts at each network of the boot walk

driver == <<sta, cfg, ap, events>>
flags == <<bits, retry, armed, linkUp>>
monitor == <<mon, list, roaming>>
vars == <<air, rssi, flaps, driver, flags, cur, main, monitor, tries>>

Init ==
  /\ air \in SUBSET Slot /\ rssi \in [Slot -> Signal] /\ flaps = 0
  /\ sta = "off" /\ cfg = 0 /\ ap = 0 /\ events = << >>
  /\ bits = {} /\ retry = 0 /\ armed = FALSE /\ linkUp = FALSE
  /\ cur = -1 /\ main = "start"
  /\ mon = "off" /\ list = << >> /\ roaming = FALSE
  /\ tries = [s \in Slot |-> 0]

Quiet == events = << >>
Post(e) == events' = Append(events, e)

-----------------------------------------------------------------------------
(* The air and the driver. *)
Flap == flaps < MaxFlaps /\ flaps' = flaps + 1

Change ==
  /\ Flap
  /\ \/ air' \in SUBSET Slot \ {air} /\ UNCHANGED rssi
     \/ rssi' \in [Slot -> Signal] \ {rssi} /\ UNCHANGED air
  /\ UNCHANGED <<driver, flags, cur, main, monitor, tries>>

Associate ==
  /\ sta = "connecting" /\ ap \in air
  /\ sta' = "up" /\ Post("ip")
  /\ UNCHANGED <<air, rssi, flaps, cfg, ap, flags, cur, main, monitor, tries>>

\* An attempt fails when the network is gone, or by a flap.
Refuse ==
  /\ sta = "connecting"
  /\ \/ ap \notin air /\ UNCHANGED flaps
     \/ ap \in air /\ Flap
  /\ sta' = "idle" /\ Post("disc")
  /\ UNCHANGED <<air, rssi, cfg, ap, flags, cur, main, monitor, tries>>

Drop ==
  /\ sta = "up"
  /\ \/ ap \notin air /\ UNCHANGED flaps
     \/ ap \in air /\ Flap
  /\ sta' = "idle" /\ Post("disc")
  /\ UNCHANGED <<air, rssi, cfg, ap, flags, cur, main, monitor, tries>>

\* esp_wifi_connect does nothing unless the station is idle.
Connect ==
  IF sta = "idle" THEN sta' = "connecting" /\ ap' = cfg ELSE UNCHANGED <<sta, ap>>

-----------------------------------------------------------------------------
(* event_handler. *)
RetryLeftOffByOne == retry <= MaxRetry

RetryLeft == retry < MaxRetry

FlagKeepsLink ==
  bits' = (bits \ {"connected"}) \cup {"lost"} /\ UNCHANGED linkUp

Flag ==
  linkUp' = FALSE /\ bits' = (bits \ {"connected"}) \cup {"lost"}

Started ==
  /\ events # << >> /\ Head(events) = "start"
  /\ Connect
  /\ events' = Tail(events)
  /\ tries' = [tries EXCEPT ![cfg] = @ + 1]
  /\ UNCHANGED <<air, rssi, flaps, cfg, flags, cur, main, monitor>>

GotIp ==
  /\ events # << >> /\ Head(events) = "ip"
  /\ events' = Tail(events)
  /\ retry' = 0 /\ linkUp' = TRUE /\ bits' = bits \cup {"connected"}
  /\ UNCHANGED <<air, rssi, flaps, sta, cfg, ap, armed, cur, main, monitor, tries>>

Disconnected ==
  /\ events # << >> /\ Head(events) = "disc"
  /\ events' = Tail(events)
  /\ \/ /\ armed
        /\ Flag
        /\ UNCHANGED <<sta, ap, retry, tries>>
     \/ /\ ~ armed /\ RetryLeft
        /\ Connect
        /\ retry' = retry + 1
        /\ tries' = [tries EXCEPT ![cfg] = @ + (IF "connected" \in bits THEN 0 ELSE 1)]
        /\ UNCHANGED <<bits, linkUp>>
     \/ /\ ~ armed /\ ~ RetryLeft
        /\ bits' = bits \cup {"fail"}
        /\ UNCHANGED <<sta, ap, retry, linkUp, tries>>
  /\ UNCHANGED <<air, rssi, flaps, cfg, armed, cur, main, monitor>>

-----------------------------------------------------------------------------
(* wifi_manager_connect_sta, called by app_main: configure, stop, reset and  *)
(* start the radio, then wait for the outcome; the next network after a      *)
(* failure, the portal after the last.                                       *)
TryNextKeepsCount(i) ==
  /\ cfg' = i /\ sta' = "idle" /\ Post("start")
  /\ bits' = bits \ {"connected", "fail"}
  /\ main' = "wait"
  /\ UNCHANGED <<ap, retry, armed, linkUp, cur>>

TryNext(i) ==
  /\ cfg' = i /\ sta' = "idle" /\ Post("start")
  /\ retry' = 0 /\ bits' = bits \ {"connected", "fail"}
  /\ main' = "wait"
  /\ UNCHANGED <<ap, armed, linkUp, cur>>

BootFirst ==
  /\ Quiet /\ main = "start" /\ TryNext(0)
  /\ UNCHANGED <<air, rssi, flaps, monitor, tries>>

BootConnected ==
  /\ Quiet /\ main = "wait" /\ "connected" \in bits
  /\ cur' = cfg /\ main' = "sync"
  /\ UNCHANGED <<air, rssi, flaps, driver, flags, monitor, tries>>

BootNext ==
  /\ Quiet /\ main = "wait" /\ "fail" \in bits /\ "connected" \notin bits
  /\ \/ cfg + 1 < Slots /\ TryNext(cfg + 1)
     \/ cfg + 1 = Slots /\ main' = "portal" /\ UNCHANGED <<driver, flags, cur>>
  /\ UNCHANGED <<air, rssi, flaps, monitor, tries>>

(* After sync_time. *)
StartMonitor ==
  /\ Quiet /\ main = "sync"
  /\ main' = "done" /\ armed' = TRUE /\ mon' = "wait"
  /\ UNCHANGED <<air, rssi, flaps, driver, bits, retry, linkUp, cur, list, roaming, tries>>

-----------------------------------------------------------------------------
(* monitor_task: sleep until the link drops or the period is over.           *)
Wake ==
  /\ Quiet /\ mon = "wait"
  /\ bits' = bits \ {"lost"}
  /\ mon' = "woken"
  /\ UNCHANGED <<air, rssi, flaps, driver, retry, armed, linkUp, cur, main, list,
                 roaming, tries>>

Look ==
  /\ Quiet /\ mon = "woken"
  /\ mon' = IF linkUp THEN "roam" ELSE "failover"
  /\ UNCHANGED <<air, rssi, flaps, driver, flags, cur, main, list, roaming, tries>>

\* scan_rank_configured: the visible networks, strongest first.
Stronger(a, b) == rssi[a] > rssi[b] \/ (rssi[a] = rssi[b] /\ a < b)
Ranking ==
  {r \in [1 .. Cardinality(air) -> air] : \A i, j \in DOMAIN r : i < j => Stronger(r[i], r[j])}

Scan ==
  /\ Quiet /\ mon = "failover" /\ ~ linkUp
  /\ list' \in Ranking
  /\ mon' = IF list' = << >> THEN "backoff" ELSE "try"
  /\ roaming' = FALSE
  /\ UNCHANGED <<air, rssi, flaps, driver, flags, cur, main, tries>>

ScanFails ==
  /\ Quiet /\ mon = "failover" /\ ~ linkUp
  /\ mon' = "backoff" /\ list' = << >>
  /\ UNCHANGED <<air, rssi, flaps, driver, flags, cur, main, roaming, tries>>

Restored ==
  /\ Quiet /\ mon = "failover" /\ linkUp
  /\ mon' = "wait" /\ list' = << >>
  /\ UNCHANGED <<air, rssi, flaps, driver, flags, cur, main, roaming, tries>>

BackedOff ==
  /\ Quiet /\ mon = "backoff"
  /\ mon' = "failover"
  /\ UNCHANGED <<air, rssi, flaps, driver, flags, cur, main, list, roaming, tries>>

\* The current network is weak and the strongest one decisively stronger.
Decisive(best) ==
  /\ cur \in air /\ rssi[cur] <= Weak
  /\ best # cur /\ \A s \in air \ {best} : Stronger(best, s)
  /\ rssi[best] >= rssi[cur] + Margin

MaybeRoam ==
  /\ Quiet /\ mon = "roam"
  /\ \/ /\ \E best \in air : Decisive(best) /\ list' = <<best>>
        /\ mon' = "try" /\ roaming' = TRUE
     \/ /\ mon' = "wait"          \* nothing to roam to, or the scan failed
        /\ UNCHANGED <<list, roaming>>
  /\ UNCHANGED <<air, rssi, flaps, driver, flags, cur, main, tries>>

-----------------------------------------------------------------------------
(* try_network: configure the slot and cut what the station is doing, then   *)
(* clear the bits and connect, then wait for an address.                     *)
CutNothing == UNCHANGED <<sta, events>>

\* esp_wifi_disconnect.
Cut ==
  \/ sta \in {"connecting", "up"} /\ sta' = "idle" /\ Post("disc")
  \/ sta = "idle" /\ UNCHANGED <<sta, events>>

TryDisconnect ==
  /\ Quiet /\ mon = "try"
  /\ cfg' = Head(list) /\ cur' = Head(list) /\ list' = Tail(list)
  /\ Cut
  /\ mon' = "connect"
  /\ UNCHANGED <<air, rssi, flaps, ap, flags, main, roaming, tries>>

TryConnect ==
  /\ Quiet /\ mon = "connect"
  /\ bits' = bits \ {"connected", "fail"}
  /\ Connect
  /\ mon' = "await"
  /\ UNCHANGED <<air, rssi, flaps, cfg, events, retry, armed, linkUp, cur, main, list,
                 roaming, tries>>

TryTimesOut ==
  /\ Quiet /\ mon = "await" /\ "connected" \notin bits
  /\ mon' = IF roaming THEN "wait" ELSE IF list = << >> THEN "backoff" ELSE "try"
  /\ UNCHANGED <<air, rssi, flaps, driver, flags, cur, main, list, roaming, tries>>

TrySucceeds ==
  /\ Quiet /\ mon = "await" /\ "connected" \in bits
  /\ mon' = "clear"
  /\ UNCHANGED <<air, rssi, flaps, driver, flags, cur, main, list, roaming, tries>>

TryClear ==
  /\ Quiet /\ mon = "clear"
  /\ bits' = bits \ {"lost"}
  /\ mon' = "recheck"
  /\ UNCHANGED <<air, rssi, flaps, driver, retry, armed, linkUp, cur, main, list,
                 roaming, tries>>

TryTrusts ==
  /\ Quiet /\ mon = "recheck"
  /\ mon' = IF roaming THEN "wait" ELSE "failover"
  /\ UNCHANGED <<air, rssi, flaps, driver, flags, cur, main, list, roaming, tries>>

TryRecheck ==
  /\ Quiet /\ mon = "recheck"
  /\ bits' = IF linkUp THEN bits ELSE bits \cup {"lost"}
  /\ mon' = IF roaming THEN "wait" ELSE "failover"
  /\ UNCHANGED <<air, rssi, flaps, driver, retry, armed, linkUp, cur, main, list, roaming,
                 tries>>

-----------------------------------------------------------------------------
Handler == Started \/ GotIp \/ Disconnected
MainStep == BootFirst \/ BootConnected \/ BootNext \/ StartMonitor
MonitorStep ==
  \/ Wake \/ Look \/ Scan \/ ScanFails \/ Restored \/ BackedOff \/ MaybeRoam
  \/ TryDisconnect \/ TryConnect \/ TryTimesOut \/ TrySucceeds \/ TryClear \/ TryRecheck
\* The portal reboots only when someone saves a form.
Portal == main = "portal" /\ UNCHANGED vars

Next == Change \/ Associate \/ Refuse \/ Drop \/ Handler \/ MainStep \/ MonitorStep \/ Portal

(* The tasks run; each network on the air answers an attempt within its wait *)
(* now and then, a scan works now and then, and a network that is gone is    *)
(* noticed.                                                                  *)
Fairness ==
  /\ WF_vars(Handler) /\ WF_vars(MainStep) /\ WF_vars(MonitorStep)
  /\ \A s \in Slot : SF_vars(ap = s /\ mon \in {"off", "await"} /\ Associate)
  /\ SF_vars(Scan)
  /\ WF_vars(ap \notin air /\ (Refuse \/ Drop))

Spec == Init /\ [][Next]_vars
FairSpec == Spec /\ Fairness
=============================================================================
