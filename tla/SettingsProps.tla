----------------------------- MODULE SettingsProps -----------------------------
(***************************************************************************)
(* What is claimed of the settings, the portal's save and the boot.        *)
(***************************************************************************)
EXTENDS Settings

(* What wifi_manager_connect_sta walks: the networks up to the first slot    *)
(* that is empty.                                                            *)
Walked(s) ==
  LET Gap == {n \in Slot : s.ssid[n] = Empty}
      n == IF Gap = {} THEN Nets ELSE CHOOSE g \in Gap : \A h \in Gap : g <= h
  IN  [i \in 1 .. n |-> <<s.ssid[i - 1], s.pass[i - 1]>>]

(* The device never leaves the portal with anything but one whole form: what *)
(* it connects with is the form last submitted, all of it and nothing of an   *)
(* older one, whenever power was cut (settings.c:196-198).  Every network     *)
(* that was filled in is tried, in order and with its own password.  A write *)
(* that failed spoils what is stored until the next save that is whole.      *)
UsesLastForm ==
  pc \in {"connect", "run"} /\ faulty = "none" =>
    LET tried == Walked(inUse)
    IN  /\ inUse.token = <<last[1], 0>> /\ inUse.rest = <<last[1], 0>>
        /\ {tried[i] : i \in DOMAIN tried} = {<< <<last[1], j>>, <<last[1], j>> >> : j \in last[2]}
        /\ \A i, k \in DOMAIN tried : i < k => tried[i][1][2] < tried[k][1][2]

-----------------------------------------------------------------------------
(* The inductive invariant.  UsesLastForm needs to know what flash holds       *)
(* whenever the flags let the device leave the portal, and that needs the      *)
(* books of a save: which of its writes are done.                            *)
Value == ({"old", "absent", "empty", "set", "clear"} \cup Forms) \X Nat
Writing == {k[1] : k \in Key} \X Slot \X Value

(* What is stored, owed and remembered has its type. *)
TypeOK ==
  /\ nvs \in [Key -> Value]
  /\ pc \in {"off", "connect", "run", "portal", "save"}
  /\ left \in Seq(Writing)
  /\ last \in ({"old"} \cup Forms) \X SUBSET Slot
  /\ faulty \in {"this", "older", "none"}

(* The networks filled in on form f, and no others, moved to the front in the  *)
(* order of the form, each with its own password.                             *)
Packed(s, f, filled) ==
  /\ s.token = <<f, 0>> /\ s.rest = <<f, 0>>
  /\ s.ssid \in [Slot -> {Empty} \cup {<<f, j>> : j \in filled}] /\ s.pass = s.ssid
  /\ \A j \in filled : \E i \in Slot : s.ssid[i] = <<f, j>>
  /\ \A i, k \in Slot : i < k /\ s.ssid[k] # Empty =>
       s.ssid[i] # Empty /\ s.ssid[i][2] < s.ssid[k][2]

(* The save under way: what it set out to write, and how much of it is done. *)
Submitted == Writes(Parsed(last[1], last[2]))
Done == Len(Submitted) - Len(left)

(* What is left is the end of it, and unless a write was lost what is done     *)
(* stands in flash.                                                           *)
SaveInOrder ==
  pc = "save" =>
    /\ last[1] \in Forms /\ Parsed(last[1], last[2]).ssid[0] # Empty
    /\ Len(left) <= Len(Submitted)
    /\ \A k \in 1 .. Len(left) : left[k] = Submitted[Done + k]
    /\ faulty # "this" =>
         \A k \in 1 .. Done : nvs[<<Submitted[k][1], Submitted[k][2]>>] = Submitted[k][3]

(* The flags let the device leave the portal. *)
Flagged == nvs[<<"provisioned", 0>>] = Set /\ nvs[<<"force", 0>>] # Set

(* A device is in the portal, and in a save up to its flags, only while they   *)
(* keep it there; once they let it go, flash holds the whole of the last form. *)
FlagsHonest ==
  faulty = "none" =>
    /\ pc = "portal" => ~ Flagged
    /\ pc = "save" /\ Len(left) >= Len(Flags) => ~ Flagged
    /\ Flagged => Complete /\ Packed(Load, last[1], last[2])

(* What the device connects with is the whole of the last form.               *)
InUseIsLast ==
  pc \in {"connect", "run"} /\ faulty = "none" =>
    inUse.ssid[0] # Empty /\ Packed(inUse, last[1], last[2])

(* They hold in every reachable state, and every step keeps them. *)
SettingsInv == TypeOK /\ SaveInOrder /\ FlagsHonest /\ InUseIsLast

-----------------------------------------------------------------------------
(* Every boot ends with the pager running or the portal open: a device whose *)
(* networks are gone does not boot for ever (main.c:78-80).                   *)
NoBootLoop == []<>(pc \in {"run", "portal"})
=============================================================================
