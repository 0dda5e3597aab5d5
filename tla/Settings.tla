------------------------------- MODULE Settings -------------------------------
(***************************************************************************)
(* settings.c, the portal's save in provision.c, and the decision app_main *)
(* takes between the portal and the networks.                              *)
(*                                                                         *)
(* A setting is one NVS key, written atomically; a save writes them one by *)
(* one and power may be cut between any two.  The value of a key names the *)
(* form that was submitted and the field of the form it came from.  `rest`  *)
(* stands for the keys between the networks and the flags, which are        *)
(* required on load like the bot token.                                    *)
(***************************************************************************)
EXTENDS Integers, Sequences

CONSTANTS
  Nets,       \* APP_SETTINGS_WIFI_NETS_MAX
  Forms,      \* names of the forms that may be submitted
  Fillings,   \* the sets of networks a form may fill in
  MaxCuts,    \* bound on the power cuts
  MaxFaults   \* bound on the writes that fail

ASSUME SettingsAssumption ==
  /\ Nets \in Nat \ {0} /\ MaxCuts \in Nat /\ MaxFaults \in Nat
  /\ Forms \cap {"old", "absent", "empty"} = {}
  /\ Fillings \subseteq SUBSET (0 .. Nets - 1)

Slot == 0 .. Nets - 1
Key == {"token", "rest", "legacy_ssid", "legacy_pass", "force", "provisioned"} \X {0}
         \cup {"ssid", "pass"} \X Slot

Absent == <<"absent", 0>>
Empty == <<"empty", 0>>
Set == <<"set", 0>>
Clear == <<"clear", 0>>

VARIABLES
  nvs,    \* the "cfg" namespace
  inUse,  \* s_settings
  pc,     \* "off", "connect", "run", "portal" or "save"
  left,   \* the writes the save has yet to do
  cuts,   \* power cuts so far
  last,   \* history: the form whose save was last begun, and its filled slots
  faults, \* writes that failed so far
  faulty  \* history: "this" save lost a write, an "older" one did and none was
          \* whole since, or "none"

faulted == <<faults, faulty>>
vars == <<nvs, inUse, pc, left, cuts, last, faulted>>

Nothing == [token |-> Empty, ssid |-> [i \in Slot |-> Empty],
            pass |-> [i \in Slot |-> Empty], rest |-> Empty]

(* A new device, one provisioned by this firmware, and one provisioned by a  *)
(* firmware that knew a single network.                                      *)
Fresh == [k \in Key |-> Absent]
Provisioned ==
  [k \in Key |->
     CASE k[1] \in {"token", "rest"} -> <<"old", 0>>
       [] k[1] \in {"ssid", "pass"} -> IF k[2] = 0 THEN <<"old", 0>> ELSE Empty
       [] k[1] = "provisioned" -> Set
       [] k[1] = "force" -> Clear
       [] OTHER -> Absent]
Upgraded ==
  [k \in Key |->
     CASE k[1] \in {"token", "rest", "legacy_ssid", "legacy_pass"} -> <<"old", 0>>
       [] k[1] = "provisioned" -> Set
       [] OTHER -> Absent]

Init ==
  /\ nvs \in {Fresh, Provisioned, Upgraded}
  /\ inUse = Nothing /\ pc = "off" /\ left = << >> /\ cuts = 0
  /\ last = <<"old", {0}>> /\ faults = 0 /\ faulty = "none"

-----------------------------------------------------------------------------
(* settings_load: an absent key reads as empty, and the first network falls *)
(* back to the keys of the older firmware.                                  *)
Read(k) == IF nvs[k] = Absent THEN Empty ELSE nvs[k]
First(name, older) ==
  IF nvs[<<name, 0>>] = Absent THEN Read(<<older, 0>>) ELSE nvs[<<name, 0>>]

Load ==
  [token |-> Read(<<"token", 0>>),
   ssid |-> [i \in Slot |-> IF i = 0 THEN First("ssid", "legacy_ssid") ELSE Read(<<"ssid", i>>)],
   pass |-> [i \in Slot |-> IF i = 0 THEN First("pass", "legacy_pass") ELSE Read(<<"pass", i>>)],
   rest |-> Read(<<"rest", 0>>)]

Complete ==
  /\ nvs[<<"provisioned", 0>>] = Set
  /\ nvs[<<"token", 0>>] \notin {Absent, Empty} /\ nvs[<<"rest", 0>>] # Absent
  /\ Load.ssid[0] # Empty
  /\ nvs[<<"pass", 0>>] # Absent \/ nvs[<<"legacy_pass", 0>>] # Absent

(* app_main, up to the networks or the portal.  nvs_flash_init may ask for   *)
(* the whole partition to be erased first.                                   *)
Boot ==
  /\ pc = "off"
  /\ inUse' = Load
  /\ pc' = IF Complete /\ nvs[<<"force", 0>>] # Set THEN "connect" ELSE "portal"
  /\ UNCHANGED <<nvs, left, cuts, last, faulted>>

BootErased ==
  /\ pc = "off"
  /\ nvs' = Fresh /\ inUse' = Nothing /\ pc' = "portal"
  /\ faulty' = "none"
  /\ UNCHANGED <<left, cuts, last, faults>>

Connected ==
  /\ pc = "connect"
  /\ pc' = "run"
  /\ UNCHANGED <<nvs, inUse, left, cuts, last, faulted>>

(* An NVS write that fails: nobody looks at what it returned.               *)
Fault == faults < MaxFaults /\ faults' = faults + 1

JustRestart ==
  /\ pc' = "off"
  /\ UNCHANGED <<nvs, inUse, left, cuts, last, faulted>>

(* settings_request_ap_and_restart, when no network answers or the key is   *)
(* held.                                                                     *)
RequestAp ==
  /\ \/ nvs' = [nvs EXCEPT ![<<"force", 0>>] = Set] /\ UNCHANGED faults
     \/ Fault /\ UNCHANGED nvs
  /\ pc' = "off"
  /\ UNCHANGED <<inUse, left, cuts, last, faulty>>

ConnectFails == pc = "connect" /\ RequestAp
Hold == pc = "run" /\ RequestAp

-----------------------------------------------------------------------------
(* parse_and_validate moves the filled networks to the front, one by one.    *)
Pull(s, i) ==
  LET Later == {j \in Slot : j > i /\ s.ssid[j] # Empty}
  IN  IF s.ssid[i] # Empty \/ Later = {} THEN s
      ELSE LET j == CHOOSE j \in Later : \A k \in Later : j <= k
           IN  [s EXCEPT !.ssid[i] = s.ssid[j], !.pass[i] = s.pass[j],
                         !.ssid[j] = Empty, !.pass[j] = Empty]

Parsed(f, filled) ==
  LET Field(i) == IF i \in filled THEN <<f, i>> ELSE Empty
      typed == [token |-> <<f, 0>>, ssid |-> [i \in Slot |-> Field(i)],
                pass |-> [i \in Slot |-> Field(i)], rest |-> <<f, 0>>]
      pulled[n \in 0 .. Nets] == IF n = 0 THEN typed ELSE Pull(pulled[n - 1], n - 1)
  IN  pulled[Nets]

(* settings_save, the flags last.                                            *)
Networks(s) ==
  [k \in 1 .. 2 * Nets |->
     LET i == (k - 1) \div 2
     IN  IF k % 2 = 1 THEN <<"ssid", i, s.ssid[i]>> ELSE <<"pass", i, s.pass[i]>>]
Fields(s) ==
  << <<"token", 0, s.token>> >> \o Networks(s)
    \o << <<"legacy_ssid", 0, Absent>>, <<"legacy_pass", 0, Absent>>, <<"rest", 0, s.rest>> >>
Flags == << <<"force", 0, Clear>>, <<"provisioned", 0, Set>> >>

WritesFlagsFirst(s) == Flags \o Fields(s)

Writes(s) == Fields(s) \o Flags

(* save_post_handler; a form that fails validation changes nothing.          *)
Submit(f, filled) ==
  /\ pc = "portal"
  /\ Parsed(f, filled).ssid[0] # Empty
  /\ left' = Writes(Parsed(f, filled))
  /\ last' = <<f, filled>>
  /\ faulty' = IF faulty = "none" THEN "none" ELSE "older"
  /\ pc' = "save"
  /\ UNCHANGED <<nvs, inUse, cuts, faults>>

Write ==
  /\ pc = "save" /\ left # << >>
  /\ nvs' = [nvs EXCEPT ![<<Head(left)[1], Head(left)[2]>>] = Head(left)[3]]
  /\ left' = Tail(left)
  /\ UNCHANGED <<inUse, pc, cuts, last, faulted>>

WriteFails ==
  /\ pc = "save" /\ left # << >>
  /\ Fault /\ faulty' = "this"
  /\ left' = Tail(left)
  /\ UNCHANGED <<nvs, inUse, pc, cuts, last>>

Saved ==
  /\ pc = "save" /\ left = << >>
  /\ pc' = "off"
  /\ faulty' = IF faulty = "older" THEN "none" ELSE faulty
  /\ UNCHANGED <<nvs, inUse, left, cuts, last, faults>>

Cut ==
  /\ pc # "off" /\ cuts < MaxCuts
  /\ cuts' = cuts + 1 /\ pc' = "off" /\ left' = << >> /\ inUse' = Nothing
  /\ UNCHANGED <<nvs, last, faulted>>

DeviceStep == Boot \/ BootErased \/ Connected \/ ConnectFails \/ Write \/ WriteFails \/ Saved

Next ==
  \/ DeviceStep \/ Hold \/ Cut
  \/ \E f \in Forms, filled \in Fillings : Submit(f, filled)

Fairness == WF_vars(DeviceStep)

Spec == Init /\ [][Next]_vars
FairSpec == Spec /\ Fairness
=============================================================================
