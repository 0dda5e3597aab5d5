------------------------------- MODULE WifiProps -------------------------------
(***************************************************************************)
(* What is claimed of the Wi-Fi manager.                                   *)
(***************************************************************************)
EXTENDS Wifi

(* Every variable has its type; the retry count stays within its bound.     *)
TypeOK ==
  /\ air \subseteq Slot /\ rssi \in [Slot -> Signal] /\ flaps \in 0 .. MaxFlaps
  /\ sta \in {"off", "idle", "connecting", "up"} /\ cfg \in Slot /\ ap \in Slot
  /\ events \in Seq({"start", "ip", "disc"}) /\ Len(events) <= 2
  /\ bits \subseteq {"connected", "fail", "lost"} /\ retry \in 0 .. MaxRetry
  /\ armed \in BOOLEAN /\ linkUp \in BOOLEAN /\ cur \in Slot \cup {-1}
  /\ main \in {"start", "wait", "sync", "done", "portal"}
  /\ mon \in {"off", "wait", "woken", "roam", "failover", "backoff", "try", "connect", "await",
              "clear", "recheck"}
  /\ list \in Seq(Slot) /\ roaming \in BOOLEAN
  /\ tries \in [Slot -> 0 .. MaxRetry + 1]

(* The monitor never sleeps through a lost link: while it waits with         *)
(* s_link_up FALSE, LINK_LOST is set and the wait ends at once.  Every        *)
(* window between the clearing of the flag and the reading of s_link_up is   *)
(* covered, the disconnect of its own try included.                          *)
LossNoticed == mon = "wait" /\ Quiet /\ ~ linkUp => "lost" \in bits

(* The portal opens only after every configured network was given all its    *)
(* attempts: no event of one network counts against the next.                *)
PortalIsLast == main = "portal" => \A s \in Slot : tries[s] = MaxRetry + 1

(* Between tries s_current_slot names the network the station is on, which   *)
(* is what a roam compares the others with.                                  *)
CurrentSlotTrue == mon \in {"wait", "woken", "roam"} /\ sta = "up" => ap = cur

(* The inductive invariant behind the four.  Events: what the driver posted   *)
(* last is what it is in.                                                    *)
EventsFit ==
  /\ events \in {<< >>, <<"start">>, <<"ip">>, <<"disc">>, <<"ip", "disc">>}
  /\ events = <<"ip">> => sta = "up"
  /\ events \in {<<"start">>, <<"disc">>, <<"ip", "disc">>} => sta = "idle"
(* The boot walk: the networks before cfg have had their attempts, those      *)
(* after it none, and nothing moves behind the portal.                       *)
Walk ==
  /\ main = "start" <=> sta = "off"
  /\ main = "start" => Quiet /\ bits = {} /\ \A s \in Slot : tries[s] = 0
  /\ events = <<"start">> => main = "wait" /\ retry = 0 /\ bits \cap {"connected", "fail"} = {}
  /\ main = "wait" => \A s \in Slot : /\ s < cfg => tries[s] = MaxRetry + 1
                                      /\ s > cfg => tries[s] = 0
  /\ main = "wait" /\ "connected" \notin bits =>
       /\ tries[cfg] = IF events = <<"start">> THEN 0 ELSE retry + 1
       /\ "fail" \in bits => Quiet /\ sta = "idle" /\ retry = MaxRetry
  /\ main = "portal" => Quiet /\ sta = "idle" /\ PortalIsLast
(* The hand-over to the monitor, and the network configured.                  *)
HandOver ==
  /\ armed <=> main = "done"
  /\ mon # "off" <=> main = "done"
  /\ main = "sync" => "connected" \in bits
  /\ ~ armed /\ "connected" \in bits => linkUp
  /\ main \in {"sync", "done"} => cur = cfg
  /\ sta \in {"connecting", "up"} => ap = cfg
(* Where the monitor may be headed for its wait, the loss is still flagged.   *)
LossFlagged ==
  /\ mon \in {"wait", "roam"} \/ (roaming /\ mon \in {"try", "connect", "await"}) =>
       linkUp \/ "lost" \in bits
  /\ mon = "try" => list # << >>
WifiInv == TypeOK /\ EventsFit /\ Walk /\ HandOver /\ LossFlagged

(* Every loss the handler flags to the monitor is mended for good once a     *)
(* configured network stays on the air: the failover loop neither gives up   *)
(* nor leaves off with the link down.                                        *)
Rejoins ==
  <>[](air # {}) => []("lost" \in bits => <>[](sta = "up" /\ linkUp))

(* "From here on a dropped link is the monitor's problem", main.c:90-92: a    *)
(* device that connected at boot gets back onto a network that stays on the  *)
(* air.                                                                      *)
Reconnects ==
  <>[](air # {}) => (mon # "off" ~> sta = "up" /\ linkUp)
=============================================================================
