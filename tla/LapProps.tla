------------------------------ MODULE LapProps ------------------------------
(***************************************************************************)
(* What is claimed of the contact table and of the lap that fills it.      *)
(***************************************************************************)
EXTENDS Lap

(* The messages the device is done with: their senders are noted, and a      *)
(* reset now would not bring them again.                                     *)
Horizon ==
  CASE pc = "note" /\ i <= count -> msgs[i].id
    [] pc \in {"poll", "reset"} -> saved
    [] OTHER -> offset
Heard == {u \in {inbox[k] : k \in 1 .. Horizon - 1} : ~ IsQuery(u) /\ u.chat # NoChat}

(* A full table forgets a chat that has been silent as long as any it keeps, *)
(* give or take the Touch a stamp may lag behind the messages: for the       *)
(* eviction a lagging stamp is as good as an exact one (contacts.c:118-122), *)
(* however often a reset took the table back to flash or the poll back to an *)
(* older offset.  Not so for a chat whose stamp a failed write kept from     *)
(* flash and a reset then brought back, until it writes again.               *)
EvictsStalest ==
  [][pc # "reset" =>
       \A c \in (Chats(contacts) \ Chats(contacts')) \ stale :
         \A d \in Chats(contacts) \cap Chats(contacts') :
           \A u \in Heard : u.chat = c => u.date <= wrote[d] + Touch]_vars

(* A reset brings back the table as it was, each chat once: whatever changes *)
(* the table writes it, and only a write that failed leaves flash behind.    *)
RestartKeepsTable ==
  /\ ~ behind => blob = contacts
  /\ \A j, k \in DOMAIN contacts : contacts[j].chat = contacts[k].chat => j = k
  /\ Len(contacts) <= MaxContacts

(* /last lists the newest pages as they waited when it was asked, in order   *)
(* and none twice, and leaves out only what the key cleared while it walked  *)
(* the queue (commands.c:357-360).                                           *)
Sublist(s, t) ==
  \E f \in [DOMAIN s -> DOMAIN t] :
    /\ \A k \in DOMAIN s : s[k] = t[f[k]]
    /\ \A j, k \in DOMAIN s : j < k => f[j] < f[k]

LastFaithful ==
  pc = "last" /\ back < 0 =>
    /\ Sublist(listing, window)
    /\ ToSet(window) \cap ToSet(queue) \subseteq ToSet(listing)

Updates == {inbox[k] : k \in saved .. offset - 1}

\* The first n entries of s are the updates of S, in the order they came.
Lists(s, n, S) ==
  /\ {s[k] : k \in 1 .. n} = S
  /\ \A j, k \in 1 .. n : j < k => s[j].id < s[k].id

(* What is left to page is every page of the poll, in the order they came,   *)
(* with no command among them and no prefix on any, whatever gaps the        *)
(* commands left in the array.                                               *)
BatchSorted ==
  pc = "filter" /\ i > count =>
    Lists(msgs, kept, {Stripped(u) : u \in {v \in Updates : ~ IsQuery(v) /\ IsPage(v)}})

(* Of the queries of one user only the last is answered, and every user who  *)
(* typed gets an answer.                                                     *)
LatestQueries ==
  pc = "dedupe" /\ i > count =>
    Lists(queries, kept,
          {u \in Updates :
             IsQuery(u) /\ \A w \in Updates : IsQuery(w) /\ w.chat = u.chat => w.id <= u.id})

-----------------------------------------------------------------------------
(* A list that can be the table: entries, each chat once, no more than fit.  *)
IsTable(list) ==
  /\ \E n \in 0 .. MaxContacts : list \in [1 .. n -> Range(list)]
  /\ \A k \in DOMAIN list : list[k] = Entry(list[k].chat, list[k].seen)
  /\ \A j, k \in DOMAIN list : list[j].chat = list[k].chat => j = k

(* The inductive invariant behind RestartKeepsTable. *)
TableInv == IsTable(contacts) /\ IsTable(blob) /\ (~ behind => blob = contacts)

(* With it, the inductive invariant behind EvictsStalest.  No stamp, in RAM   *)
(* or in flash, is later than the latest message of its chat; in RAM it lags  *)
(* by no more than Touch behind any message the device is done with, but for  *)
(* stale chats.  Updates come in the order of their dates, and every message  *)
(* of the poll is there to be noted.                                         *)
StampsReal(list) ==
  \A k \in DOMAIN list :
    /\ list[k].seen \in Nat
    /\ list[k].chat \in DOMAIN wrote /\ list[k].seen <= wrote[list[k].chat]
StampsLag ==
  \A k \in DOMAIN contacts : contacts[k].chat \notin stale =>
    \A u \in Heard : u.chat = contacts[k].chat => u.date <= contacts[k].seen + Touch
Dated == \A j, k \in DOMAIN inbox : j <= k => inbox[j].date <= inbox[k].date
ToNote ==
  pc = "note" => \A m \in saved .. offset - 1 :
                   ~ IsQuery(inbox[m]) => \E k \in 1 .. count : msgs[k].id = m
Stamped ==
  /\ \A c \in DOMAIN wrote : wrote[c] \in Nat
  /\ StampsReal(contacts) /\ StampsReal(blob)
  /\ StampsLag /\ Dated /\ ToNote

(* The inductive invariant behind the other three.  The updates, and how far *)
(* the loops are.                                                            *)
Update == [id : Nat, kind : Kinds, chat : {t.chat : t \in Templates}, n : Nat, date : Nat]
Flow ==
  /\ pc \in {"poll", "note", "dedupe", "filter", "last", "push", "reset"}
  /\ inbox \in Seq(Update) /\ \A k \in DOMAIN inbox : inbox[k].id = k
  /\ saved \in 1 .. Len(inbox) + 1
  /\ pc # "reset" => offset \in saved .. Len(inbox) + 1
  /\ pc = "poll" => offset = saved
  /\ msgs \in Seq(Update) /\ queries \in Seq(Update)
  /\ count \in Nat /\ i \in 1 .. count + 1 /\ kept \in 0 .. i - 1
  /\ pc \in {"poll", "reset"} => count = 0
  /\ pc \in {"note", "filter", "last"} => count = Len(msgs)
  /\ pc = "dedupe" => count = Len(queries)
  /\ pc = "push" => count <= Len(msgs)
  /\ pc = "last" => i <= count /\ ~ IsPage(msgs[i])

Batch == IF pc \in {"poll", "reset"} THEN {} ELSE saved .. offset - 1

(* A loop closes the gaps of its array in place: the entries still to come   *)
(* are as the poll left them, those kept are what they should be, and both   *)
(* are in order, none missing.                                               *)
ToCome == CASE pc \in {"note", "dedupe"} -> 1 .. Len(msgs)
            [] pc \in {"filter", "last"} -> i .. count
            [] OTHER -> {}
Kept == CASE pc \in {"filter", "last"} -> 1 .. kept
          [] pc = "push" -> 1 .. count
          [] OTHER -> {}
Sifted ==
  /\ \A k \in ToCome : /\ msgs[k].id \in Batch /\ msgs[k] = inbox[msgs[k].id]
                       /\ ~ IsQuery(msgs[k])
  /\ \A k \in Kept : /\ msgs[k].id \in Batch /\ msgs[k] = Stripped(inbox[msgs[k].id])
                     /\ ~ IsQuery(inbox[msgs[k].id]) /\ IsPage(inbox[msgs[k].id])
  /\ \A j, k \in Kept \cup ToCome : j < k => msgs[j].id < msgs[k].id
  /\ \A m \in Batch : ~ IsQuery(inbox[m]) =>
       \/ \E k \in ToCome : msgs[k].id = m
       \/ IsPage(inbox[m]) => \E k \in Kept : msgs[k].id = m

AsksToCome == CASE pc = "note" -> 1 .. Len(queries)
                [] pc = "dedupe" -> i .. count
                [] OTHER -> {}
AsksKept == IF pc = "dedupe" THEN 1 .. kept ELSE {}
Latest(m) ==
  \A w \in Batch : IsQuery(inbox[w]) /\ inbox[w].chat = inbox[m].chat => w <= m
Deduped ==
  pc \in {"note", "dedupe"} =>
    /\ \A k \in AsksToCome \cup AsksKept :
         queries[k].id \in Batch /\ queries[k] = inbox[queries[k].id] /\ IsQuery(queries[k])
    /\ \A k \in AsksKept : Latest(queries[k].id)
    /\ \A j, k \in AsksKept \cup AsksToCome : j < k => queries[j].id < queries[k].id
    /\ \A m \in Batch : IsQuery(inbox[m]) =>
         \/ \E k \in AsksToCome : queries[k].id = m
         \/ /\ \A k \in AsksToCome : m < queries[k].id
            /\ Latest(m) => \E k \in AsksKept : queries[k].id = m

(* No page waits twice: one of this boot is older than what is left to push. *)
Queued ==
  /\ queue \in Seq(Int \X Nat) /\ Len(queue) <= Capacity /\ crashes \in Nat
  /\ \A j, k \in DOMAIN queue : queue[j] = queue[k] => j = k
  /\ \A k \in DOMAIN queue :
       \/ queue[k][2] < crashes
       \/ queue[k][2] = crashes /\ queue[k][1] < saved
       \/ pc = "push" /\ \E j \in 1 .. i - 1 : queue[k] = <<msgs[j].id, crashes>>

(* The queue keeps the end of the window, and the walk has listed what of    *)
(* the window it passed and still waits.                                     *)
Walked ==
  pc = "last" =>
    /\ window \in Seq(Int \X Nat) /\ back \in -1 .. Len(window) - 1
    /\ \A j, k \in DOMAIN window : window[j] = window[k] => j = k
    /\ \A b \in 0 .. Len(window) - 1 :
         b < Len(queue) => queue[Len(queue) - b] = window[Len(window) - b]
    /\ listing \in Seq(Int \X Nat)
    /\ \E f \in [DOMAIN listing -> 1 .. Len(window) - back - 1] :
         /\ \A k \in DOMAIN listing : listing[k] = window[f[k]]
         /\ \A j, k \in DOMAIN listing : j < k => f[j] < f[k]
    /\ \A b \in back + 1 .. Len(window) - 1 :
         b < Len(queue) => window[Len(window) - b] \in ToSet(listing)

LapInv == Flow /\ Sifted /\ Deduped /\ Queued /\ Walked
=============================================================================
