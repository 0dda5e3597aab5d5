------------------------------ MODULE LapProofs ------------------------------
(***************************************************************************)
(* Proofs about the contact table, for every size of it, and about the     *)
(* loops of a lap, for any updates and any number of resets.               *)
(***************************************************************************)
EXTENDS LapProps, FiniteSetTheorems, SequenceTheorems, WellFoundedInduction, TLAPS

(* What makes a list of n entries a table. *)
LEMMA TableOf ==
  ASSUME NEW list, NEW n \in 0 .. MaxContacts, DOMAIN list = 1 .. n,
         list = [k \in 1 .. n |-> list[k]],
         \A k \in 1 .. n : list[k] = Entry(list[k].chat, list[k].seen),
         \A j, k \in 1 .. n : list[j].chat = list[k].chat => j = k
  PROVE  IsTable(list)
<1>1. \A k \in 1 .. n : list[k] \in Range(list)
  BY DEF Range
<1>2. list \in [1 .. n -> Range(list)]
  BY <1>1
<1> QED
  BY <1>2 DEF IsTable

(* The shape of a table. *)
LEMMA TableShape ==
  ASSUME NEW list, IsTable(list)
  PROVE  \E n \in 0 .. MaxContacts :
           /\ DOMAIN list = 1 .. n /\ list = [k \in 1 .. n |-> list[k]] /\ Len(list) = n
           /\ list \in Seq(Range(list))
<1>1. PICK n \in 0 .. MaxContacts : list \in [1 .. n -> Range(list)]
  BY DEF IsTable
<1>2. n \in Nat
  BY ContactsAssumption
<1>3. DOMAIN list = 1 .. n /\ list = [k \in 1 .. n |-> list[k]]
  BY <1>1
<1>4. Len(list) = n /\ list \in Seq(Range(list))
  BY <1>1, <1>2
<1> QED
  BY <1>3, <1>4

(* No chats yet. *)
LEMMA EmptyIsTable == IsTable(<< >>)
<1>1. 0 \in 0 .. MaxContacts /\ 1 .. 0 = {}
  BY ContactsAssumption
<1>2. DOMAIN << >> = 1 .. 0 /\ << >> = [k \in 1 .. 0 |-> << >>[k]]
  BY <1>1
<1> QED
  BY <1>1, <1>2, TableOf

(* A chat's stamp is refreshed. *)
LEMMA RefreshKeeps ==
  ASSUME NEW list, IsTable(list), NEW k \in DOMAIN list, NEW when
  PROVE  IsTable([list EXCEPT ![k].seen = when])
<1> DEFINE new == [list EXCEPT ![k].seen = when]
<1>1. PICK n \in 0 .. MaxContacts :
        DOMAIN list = 1 .. n /\ list = [j \in 1 .. n |-> list[j]]
  BY TableShape
<1>2. /\ \A j \in 1 .. n : list[j] = Entry(list[j].chat, list[j].seen)
      /\ \A j, l \in 1 .. n : list[j].chat = list[l].chat => j = l
  BY <1>1 DEF IsTable
<1>3. DOMAIN new = 1 .. n /\ new = [j \in 1 .. n |-> new[j]]
  BY <1>1
<1>4. \A j \in 1 .. n : new[j] = IF j = k THEN Entry(list[k].chat, when) ELSE list[j]
  BY <1>1, <1>2 DEF Entry
<1>5. /\ \A j \in 1 .. n : new[j] = Entry(new[j].chat, new[j].seen)
      /\ \A j \in 1 .. n : new[j].chat = list[j].chat
  BY <1>2, <1>4 DEF Entry
<1> HIDE DEF new
<1>6. \A j, l \in 1 .. n : new[j].chat = new[l].chat => j = l
  BY <1>2, <1>5
<1>7. IsTable(new)
  BY <1>3, <1>5, <1>6, TableOf
<1> QED
  BY <1>7 DEF new

(* A new chat takes the place of another. *)
LEMMA ReplaceKeeps ==
  ASSUME NEW list, IsTable(list), NEW k, NEW c, c \notin Chats(list), NEW when
  PROVE  IsTable([list EXCEPT ![k] = Entry(c, when)])
<1> DEFINE new == [list EXCEPT ![k] = Entry(c, when)]
<1>1. PICK n \in 0 .. MaxContacts :
        DOMAIN list = 1 .. n /\ list = [j \in 1 .. n |-> list[j]]
  BY TableShape
<1>2. /\ \A j \in 1 .. n : list[j] = Entry(list[j].chat, list[j].seen)
      /\ \A j, l \in 1 .. n : list[j].chat = list[l].chat => j = l
      /\ \A j \in 1 .. n : list[j].chat # c
  BY <1>1 DEF IsTable, Chats
<1>3. DOMAIN new = 1 .. n /\ new = [j \in 1 .. n |-> new[j]]
  BY <1>1
<1>4. \A j \in 1 .. n : new[j] = IF j = k THEN Entry(c, when) ELSE list[j]
  BY <1>1
<1>5. /\ \A j \in 1 .. n : new[j] = Entry(new[j].chat, new[j].seen)
      /\ \A j \in 1 .. n : new[j].chat = IF j = k THEN c ELSE list[j].chat
  BY <1>2, <1>4 DEF Entry
<1> HIDE DEF new
<1>6. \A j, l \in 1 .. n : new[j].chat = new[l].chat => j = l
  BY <1>2, <1>5
<1>7. IsTable(new)
  BY <1>3, <1>5, <1>6, TableOf
<1> QED
  BY <1>7 DEF new

(* A new chat takes a free place. *)
LEMMA AppendKeeps ==
  ASSUME NEW list, IsTable(list), Len(list) < MaxContacts, NEW c, c \notin Chats(list), NEW when
  PROVE  IsTable(Append(list, Entry(c, when)))
<1> DEFINE new == Append(list, Entry(c, when))
<1>1. PICK n \in 0 .. MaxContacts :
        /\ DOMAIN list = 1 .. n /\ list = [j \in 1 .. n |-> list[j]] /\ Len(list) = n
        /\ list \in Seq(Range(list))
  BY TableShape
<1>2. /\ \A j \in 1 .. n : list[j] = Entry(list[j].chat, list[j].seen)
      /\ \A j, l \in 1 .. n : list[j].chat = list[l].chat => j = l
      /\ \A j \in 1 .. n : list[j].chat # c
  BY <1>1 DEF IsTable, Chats
<1>3. n + 1 \in 0 .. MaxContacts /\ n \in Nat
  BY <1>1, ContactsAssumption
<1>4. /\ DOMAIN new = 1 .. n + 1 /\ new = [j \in 1 .. n + 1 |-> new[j]]
      /\ \A j \in 1 .. n + 1 : new[j] = IF j = n + 1 THEN Entry(c, when) ELSE list[j]
  <2> DEFINE S == Range(list) \cup {Entry(c, when)}
  <2>1. list \in Seq(S)
    BY <1>1
  <2>2. Entry(c, when) \in S
    OBVIOUS
  <2> HIDE DEF S
  <2> QED
    BY <1>1, <1>3, <2>1, <2>2
<1> HIDE DEF new
<1>5. /\ \A j \in 1 .. n + 1 : new[j] = Entry(new[j].chat, new[j].seen)
      /\ \A j \in 1 .. n + 1 : new[j].chat = IF j = n + 1 THEN c ELSE list[j].chat
  <2> SUFFICES ASSUME NEW j \in 1 .. n + 1
               PROVE  /\ new[j] = Entry(new[j].chat, new[j].seen)
                      /\ new[j].chat = IF j = n + 1 THEN c ELSE list[j].chat
    OBVIOUS
  <2>1. CASE j = n + 1
    BY <1>4, <2>1 DEF Entry
  <2>2. CASE j # n + 1
    <3>1. j \in 1 .. n
      BY <1>3, <2>2
    <3> QED
      BY <1>2, <1>4, <2>2, <3>1
  <2> QED
    BY <2>1, <2>2
<1>6. \A j, l \in 1 .. n + 1 : new[j].chat = new[l].chat => j = l
  BY <1>2, <1>3, <1>5
<1>7. IsTable(new)
  BY <1>3, <1>4, <1>5, <1>6, TableOf
<1> QED
  BY <1>7 DEF new

(* A message of any chat, stored or not. *)
LEMMA NoteKeeps ==
  ASSUME TableInv, NEW c, NEW when, Note(c, when)
  PROVE  TableInv'
<1>1. CASE UNCHANGED table
  BY <1>1, Zenon DEF TableInv, table, IsTable
<1>2. CASE Added(c, when) /\ c \notin Chats(contacts)
  <2>1. IsTable(contacts')
    BY <1>2, AppendKeeps, ReplaceKeeps, Zenon DEF Added, TableInv
  <2> QED
    BY <1>2, <2>1, Zenon DEF Added, Save, TableInv
<1>3. ASSUME NEW k \in DOMAIN contacts, Touched(k, when) PROVE TableInv'
  <2>1. IsTable(contacts')
    BY <1>3, RefreshKeeps, Zenon DEF Touched, TableInv
  <2> QED
    BY <1>3, <2>1, Zenon DEF Touched, Save, TableInv
<1>4. ASSUME NEW k \in DOMAIN contacts, Untouched(k, when) PROVE TableInv'
  <2>1. contacts' = contacts /\ IsTable(contacts)
    BY <1>4, Zenon DEF Untouched, TableInv
  <2>2. (blob' = blob /\ behind' = behind) \/ (blob' = contacts /\ behind' = FALSE)
        \/ (blob' = blob /\ behind' = TRUE)
    BY <1>4, Zenon DEF Untouched, Save
  <2> QED
    BY <2>1, <2>2, Zenon DEF TableInv
<1> QED
  BY <1>1, <1>2, <1>3, <1>4, Zenon DEF Note

(* Reading the table back. *)
LEMMA RestoreKeeps ==
  ASSUME TableInv, Restore
  PROVE  TableInv'
  BY EmptyIsTable, Zenon DEF TableInv, Restore

LEMMA TableInvInit == Init => TableInv
<1> SUFFICES ASSUME Init PROVE TableInv
  OBVIOUS
<1>1. IsTable(Known)
  BY LapAssumption, Zenon DEF IsTable
<1> QED
  BY <1>1, Zenon DEF Init, TableInv

(* Only noting a sender and booting touch the table. *)
LEMMA TableSteps == [Next]_vars => NoteSender \/ Boot \/ UNCHANGED table
BY Zenon DEF Next, LapStep, Send, Pop, Poll, QuietPoll, NotedAll, DedupeQuery, AnswerInline,
   KeepPage, AnswerCommand, BeginLast, ListPage, ReplyLast, Filtered, PushPage, SaveOffset,
   Crash, vars

LEMMA TableInvStep == TableInv /\ [Next]_vars => TableInv'
<1> SUFFICES ASSUME TableInv, [Next]_vars PROVE TableInv'
  OBVIOUS
<1>1. CASE NoteSender
  BY <1>1, NoteKeeps, Zenon DEF NoteSender
<1>2. CASE Boot
  BY <1>2, RestoreKeeps, Zenon DEF Boot
<1>3. CASE UNCHANGED table
  BY <1>3, Zenon DEF TableInv, table
<1> QED
  BY <1>1, <1>2, <1>3, TableSteps

(* Table and flash hold each chat once and agree unless a write failed.     *)
THEOREM LapTableInvariant == Spec => []TableInv
<1> QED
  BY TableInvInit, TableInvStep, PTL DEF Spec

(* A reset brings back the table as it was, unless its last write failed.   *)
THEOREM LapRestartKeepsTable == Spec => []RestartKeepsTable
<1>1. TableInv => RestartKeepsTable
  <2> SUFFICES ASSUME TableInv PROVE RestartKeepsTable
    OBVIOUS
  <2>1. Len(contacts) <= MaxContacts
    BY TableShape, ContactsAssumption DEF TableInv
  <2> QED
    BY <2>1, Zenon DEF TableInv, IsTable, RestartKeepsTable
<1> QED
  BY <1>1, LapTableInvariant, PTL

-----------------------------------------------------------------------------
(* The updates of an answer, as one of the arrays holds them.               *)
LEMMA ThoseIs ==
  ASSUME Flow, NEW K \in SUBSET (1 .. Len(inbox)), NEW s \in Those(K)
  PROVE  /\ s \in Seq(Update) /\ DOMAIN s = 1 .. Len(s) /\ Len(s) \in Nat
         /\ \A k \in 1 .. Len(s) : s[k].id \in K /\ s[k] = inbox[s[k].id]
         /\ \A m \in K : \E k \in 1 .. Len(s) : s[k] = inbox[m] /\ s[k].id = m
         /\ \A j, k \in 1 .. Len(s) : j < k => s[j].id < s[k].id
<1>1. inbox \in Seq(Update) /\ Len(inbox) \in Nat /\ \A m \in K : inbox[m] \in Update /\ inbox[m].id = m
  BY DEF Flow
<1>2. IsFiniteSet(1 .. Len(inbox))
  BY <1>1, FS_Interval
<1>3. Cardinality(K) \in Nat
  BY <1>2, FS_Subset, FS_CardinalityType
<1>4. /\ s \in [1 .. Cardinality(K) -> {inbox[k] : k \in K}]
      /\ ToSet(s) = {inbox[k] : k \in K} /\ \A j, k \in DOMAIN s : j < k => s[j].id < s[k].id
  BY DEF Those
<1>5. s \in Seq({inbox[k] : k \in K}) /\ Len(s) = Cardinality(K) /\ DOMAIN s = 1 .. Len(s)
  BY <1>3, <1>4
<1>6. \A k \in 1 .. Len(s) : s[k].id \in K /\ s[k] = inbox[s[k].id]
  BY <1>1, <1>4, <1>5
<1>7. \A m \in K : \E k \in 1 .. Len(s) : s[k] = inbox[m] /\ s[k].id = m
  <2>1. \A x \in ToSet(s) : \E k \in DOMAIN s : s[k] = x
    BY DEF ToSet
  <2> QED
    BY <1>1, <1>4, <1>5, <2>1
<1>8. s \in Seq(Update)
  <2>1. \A k \in 1 .. Len(s) : s[k] \in Update
    BY <1>1, <1>6
  <2>2. s \in [1 .. Cardinality(K) -> Update]
    BY <1>4, <1>5, <2>1
  <2> QED
    BY <1>3, <2>2
<1> QED
  BY <1>3, <1>4, <1>5, <1>6, <1>7, <1>8

(* What a step leaves of the invariant when it leaves its state alone.      *)
LEMMA SiftedFrame ==
  ASSUME Sifted, UNCHANGED <<inbox, msgs>>, Batch' = Batch, ToCome' = ToCome, Kept' = Kept
  PROVE  Sifted'
BY DEF Sifted

LEMMA DedupedFrame ==
  ASSUME Deduped, UNCHANGED <<inbox, queries>>, Batch' = Batch,
         pc' \in {"note", "dedupe"} => /\ pc \in {"note", "dedupe"} /\ AsksToCome' = AsksToCome
                                      /\ AsksKept' = AsksKept
  PROVE  Deduped'
BY DEF Deduped, Latest

LEMMA QueuedFrame ==
  ASSUME Queued, UNCHANGED <<queue, crashes, saved>>, pc # "push"
  PROVE  Queued'
BY DEF Queued

(* telegram_poll. *)
LEMMA PollKeepsLap ==
  ASSUME LapInv, Poll
  PROVE  LapInv'
<1>1. /\ pc = "poll" /\ pc' = "note" /\ i' = 1 /\ kept' = 0 /\ count' = Len(msgs')
      /\ Answer # {} /\ offset' = LastSeen + 1
      /\ msgs' \in Those({k \in Answer : ~ IsQuery(inbox[k])})
      /\ queries' \in Those({k \in Answer : IsQuery(inbox[k])})
      /\ UNCHANGED <<inbox, saved, queue, window, back, listing, crashes>>
  BY DEF Poll, Start, walk
<1>2. /\ Len(inbox) \in Nat /\ saved \in 1 .. Len(inbox) + 1 /\ offset = saved
      /\ inbox \in Seq(Update) /\ \A k \in DOMAIN inbox : inbox[k].id = k
  BY <1>1 DEF LapInv, Flow
<1>3. LastSeen \in Int /\ offset <= LastSeen /\ LastSeen <= Len(inbox)
  BY <1>1, <1>2, LapAssumption DEF Answer, LastSeen
<1>4. Batch' = Answer /\ Answer \subseteq 1 .. Len(inbox)
  BY <1>1, <1>2, <1>3 DEF Batch, Answer
<1>5. /\ {k \in Answer : ~ IsQuery(inbox[k])} \in SUBSET (1 .. Len(inbox))
      /\ {k \in Answer : IsQuery(inbox[k])} \in SUBSET (1 .. Len(inbox))
  BY <1>4
<1> DEFINE Told == {k \in Answer : ~ IsQuery(inbox[k])}
           Asked == {k \in Answer : IsQuery(inbox[k])}
<1>6. /\ msgs' \in Seq(Update) /\ Len(msgs') \in Nat
      /\ \A k \in 1 .. Len(msgs') : msgs'[k].id \in Told /\ msgs'[k] = inbox[msgs'[k].id]
      /\ \A m \in Told : \E k \in 1 .. Len(msgs') : msgs'[k].id = m
      /\ \A j, k \in 1 .. Len(msgs') : j < k => msgs'[j].id < msgs'[k].id
  <2>1. Told \in SUBSET (1 .. Len(inbox)) /\ msgs' \in Those(Told)
    BY <1>1, <1>5
  <2> HIDE DEF Told
  <2> QED
    BY <2>1, ThoseIs DEF LapInv
<1>7. /\ queries' \in Seq(Update) /\ Len(queries') \in Nat
      /\ \A k \in 1 .. Len(queries') : queries'[k].id \in Asked /\ queries'[k] = inbox[queries'[k].id]
      /\ \A m \in Asked : \E k \in 1 .. Len(queries') : queries'[k].id = m
      /\ \A j, k \in 1 .. Len(queries') : j < k => queries'[j].id < queries'[k].id
  <2>1. Asked \in SUBSET (1 .. Len(inbox)) /\ queries' \in Those(Asked)
    BY <1>1, <1>5
  <2> HIDE DEF Asked
  <2> QED
    BY <2>1, ThoseIs DEF LapInv
<1>8. Flow'
  BY <1>1, <1>2, <1>3, <1>6, <1>7 DEF LapInv, Flow
<1>9. Sifted'
  <2>1. ToCome' = 1 .. Len(msgs') /\ Kept' = {}
    BY <1>1 DEF ToCome, Kept
  <2> QED
    BY <1>1, <1>4, <1>6, <2>1 DEF Sifted
<1>10. Deduped'
  <2>1. AsksToCome' = 1 .. Len(queries') /\ AsksKept' = {}
    BY <1>1 DEF AsksToCome, AsksKept
  <2> QED
    BY <1>1, <1>4, <1>7, <2>1 DEF Deduped
<1>11. Queued'
  BY <1>1, QueuedFrame DEF LapInv
<1>12. Walked'
  BY <1>1 DEF Walked
<1> QED
  BY <1>8, <1>9, <1>10, <1>11, <1>12 DEF LapInv

(* The senders are noted; the loop goes on to the queries. *)
LEMMA NotesKeepLap ==
  ASSUME LapInv, NoteSender \/ NotedAll
  PROVE  LapInv'
<1>1. /\ pc = "note" /\ pc' \in {"note", "dedupe"}
      /\ pc' = "note" => count' = count /\ i <= count /\ i' = i + 1 /\ kept' = kept
      /\ pc' = "dedupe" => count' = Len(queries) /\ i' = 1 /\ kept' = 0
      /\ UNCHANGED <<inbox, offset, saved, msgs, queries, queue, window, back, listing, crashes>>
  BY DEF NoteSender, NotedAll, Start, walk, batch
<1>2. Batch' = Batch /\ ToCome' = ToCome /\ Kept' = Kept
  BY <1>1 DEF Batch, ToCome, Kept
<1>3. AsksToCome' = AsksToCome /\ AsksKept' = AsksKept
  BY <1>1 DEF AsksToCome, AsksKept
<1>4. Flow'
  <2>1. Len(queries) \in Nat /\ count \in Nat /\ i \in 1 .. count + 1 /\ kept \in 0 .. i - 1
    BY DEF LapInv, Flow
  <2>2. count' \in Nat /\ i' \in 1 .. count' + 1 /\ kept' \in 0 .. i' - 1
    BY <1>1, <2>1
  <2> QED
    BY <1>1, <2>2 DEF LapInv, Flow
<1>5. Sifted' /\ Deduped' /\ Queued'
  BY <1>1, <1>2, <1>3, SiftedFrame, DedupedFrame, QueuedFrame DEF LapInv
<1>6. Walked'
  BY <1>1 DEF Walked
<1> QED
  BY <1>4, <1>5, <1>6 DEF LapInv

-----------------------------------------------------------------------------
(* dedupe_queries: one turn of its loop. *)
LEMMA DedupeKeepsLap ==
  ASSUME LapInv, DedupeQuery
  PROVE  LapInv'
<1>1. /\ pc = "dedupe" /\ i <= count /\ i' = i + 1
      /\ Superseded => queries' = queries /\ kept' = kept
      /\ ~ Superseded => queries' = [queries EXCEPT ![kept + 1] = queries[i]] /\ kept' = kept + 1
      /\ UNCHANGED <<inbox, offset, saved, pc, msgs, count, queue, window, back, listing, crashes>>
  BY DEF DedupeQuery, walk
<1>2. /\ queries \in Seq(Update) /\ count = Len(queries) /\ count \in Nat
      /\ i \in 1 .. count /\ kept \in 0 .. i - 1 /\ kept + 1 \in 1 .. i /\ i \in Int /\ kept \in Int
      /\ DOMAIN queries = 1 .. count
  BY <1>1 DEF LapInv, Flow
<1>3. Batch' = Batch /\ ToCome' = ToCome /\ Kept' = Kept
  BY <1>1 DEF Batch, ToCome, Kept
<1>4. /\ AsksToCome = i .. count /\ AsksKept = 1 .. kept
      /\ AsksToCome' = i + 1 .. count /\ AsksKept' = 1 .. kept'
  BY <1>1 DEF AsksToCome, AsksKept
<1>5. /\ queries' \in Seq(Update) /\ Len(queries') = count
      /\ kept' \in {kept, kept + 1}
      /\ \A k \in 1 .. count : queries'[k] = IF ~ Superseded /\ k = kept + 1 THEN queries[i] ELSE queries[k]
  <2>1. queries[i] \in Update /\ kept + 1 \in 1 .. count
    BY <1>2
  <2>2. CASE Superseded
    BY <1>1, <1>2, <2>2
  <2>3. CASE ~ Superseded
    <3>1. PICK u \in Update : u = queries[i]
      BY <2>1
    <3>2. queries' = [queries EXCEPT ![kept + 1] = u] /\ kept' = kept + 1
      BY <1>1, <2>3, <3>1
    <3>3. /\ queries' \in Seq(Update) /\ Len(queries') = Len(queries)
          /\ \A k \in 1 .. Len(queries) : queries'[k] = IF k = kept + 1 THEN u ELSE queries[k]
      BY <1>2, <2>1, <3>2, ExceptSeq
    <3> QED
      BY <1>2, <2>3, <3>1, <3>2, <3>3
  <2> QED
    BY <2>2, <2>3
<1>6. Flow'
  BY <1>1, <1>2, <1>5 DEF LapInv, Flow
<1>7. Sifted' /\ Queued'
  BY <1>1, <1>3, SiftedFrame, QueuedFrame DEF LapInv
<1>8. Walked'
  BY <1>1 DEF Walked
<1>9. /\ \A k \in 1 .. kept \cup i .. count :
           queries[k].id \in Batch /\ queries[k] = inbox[queries[k].id] /\ IsQuery(queries[k])
      /\ \A k \in 1 .. kept : Latest(queries[k].id)
      /\ \A j, k \in 1 .. kept \cup i .. count : j < k => queries[j].id < queries[k].id
      /\ \A m \in Batch : IsQuery(inbox[m]) =>
           \/ \E k \in i .. count : queries[k].id = m
           \/ /\ \A k \in i .. count : m < queries[k].id
              /\ Latest(m) => \E k \in 1 .. kept : queries[k].id = m
  BY <1>1, <1>4 DEF LapInv, Deduped
<1>10. Batch \subseteq Int
  BY <1>1 DEF Batch, LapInv, Flow
<1> DEFINE u == queries[i].id
<1>11. /\ u \in Batch /\ u \in Int /\ i \in i .. count /\ queries[i] = inbox[u] /\ IsQuery(inbox[u])
       /\ \A k \in i + 1 .. count : u < queries[k].id
  <2>1. i \in i .. count /\ \A k \in i + 1 .. count : k \in i .. count /\ i < k
    BY <1>2
  <2>2. queries[i].id \in Batch /\ queries[i] = inbox[queries[i].id] /\ IsQuery(queries[i])
    BY <1>9, <2>1
  <2>3. \A k \in i + 1 .. count : queries[i].id < queries[k].id
    BY <1>9, <2>1
  <2> QED
    BY <1>10, <2>1, <2>2, <2>3
<1>12. Superseded <=> ~ Latest(u)
  <2>1. ASSUME NEW j \in i + 1 .. count, queries[j].chat = queries[i].chat PROVE ~ Latest(u)
    <3>1. /\ queries[j].id \in Batch /\ queries[j] = inbox[queries[j].id] /\ IsQuery(queries[j])
          /\ u < queries[j].id /\ queries[j].id \in Int
      <4>1. j \in i .. count
        BY <1>2
      <4>2. queries[j].id \in Batch /\ queries[j] = inbox[queries[j].id] /\ IsQuery(queries[j])
        BY <1>9, <4>1
      <4> QED
        BY <1>10, <1>11, <4>2
    <3>2. ~ (queries[j].id <= u)
      BY <1>11, <3>1
    <3> QED
      BY <1>11, <2>1, <3>1, <3>2 DEF Latest
  <2>2. ASSUME NEW w \in Batch, IsQuery(inbox[w]), inbox[w].chat = inbox[u].chat, ~ (w <= u)
        PROVE  Superseded
    <3>1. PICK k \in i .. count : queries[k].id = w
      BY <1>9, <1>10, <1>11, <2>2
    <3>2. k # i
      BY <1>10, <1>11, <2>2, <3>1
    <3>3. k \in i + 1 .. count /\ queries[k].chat = queries[i].chat
      BY <1>2, <1>9, <1>11, <2>2, <3>1, <3>2
    <3> QED
      BY <3>3 DEF Superseded
  <2> QED
    BY <2>1, <2>2 DEF Superseded, Latest
<1>13. \A m : Latest(m)' <=> Latest(m)
  BY <1>1, <1>3 DEF Latest
<1>14. \A k \in i + 1 .. count : queries'[k] = queries[k]
  BY <1>2, <1>5
<1>15. \A k \in 1 .. kept : queries'[k] = queries[k]
  BY <1>2, <1>5
<1>16. ~ Superseded => kept' = kept + 1 /\ queries'[kept + 1] = queries[i]
  BY <1>1, <1>2, <1>5
<1> HIDE DEF u
<1>17. Deduped'
  <2>1. \A k \in 1 .. kept' : \/ k \in 1 .. kept /\ queries'[k] = queries[k]
                              \/ ~ Superseded /\ k = kept + 1 /\ queries'[k] = queries[i]
    <3>1. CASE Superseded
      <4>1. kept' = kept
        BY <1>1, <3>1
      <4> QED
        BY <1>15, <4>1
    <3>2. CASE ~ Superseded
      <4>1. kept' = kept + 1 /\ queries'[kept + 1] = queries[i]
        BY <1>16, <3>2
      <4>2. \A k \in 1 .. kept + 1 : k \in 1 .. kept \/ k = kept + 1
        BY <1>2
      <4> SUFFICES ASSUME NEW k \in 1 .. kept'
                   PROVE  (k \in 1 .. kept /\ queries'[k] = queries[k])
                          \/ (k = kept + 1 /\ queries'[k] = queries[i])
        BY <3>2
      <4>3. k \in 1 .. kept + 1
        BY <4>1
      <4> QED
        BY <1>15, <4>1, <4>2, <4>3
    <3> QED
      BY <3>1, <3>2
  <2>2. \A k \in 1 .. kept' \cup i + 1 .. count :
          queries'[k].id \in Batch /\ queries'[k] = inbox[queries'[k].id] /\ IsQuery(queries'[k])
    BY <1>2, <1>9, <1>11, <1>14, <2>1 DEF u
  <2>3. \A k \in 1 .. kept' : Latest(queries'[k].id)
    BY <1>9, <1>12, <2>1 DEF u
  <2>4. \A j, k \in 1 .. kept' \cup i + 1 .. count : j < k => queries'[j].id < queries'[k].id
    <3> SUFFICES ASSUME NEW j \in 1 .. kept' \cup i + 1 .. count, NEW k \in 1 .. kept' \cup i + 1 .. count,
                        j < k
                 PROVE  queries'[j].id < queries'[k].id
      OBVIOUS
    <3>1. \A l \in 1 .. kept' \cup i + 1 .. count :
            \/ l \in 1 .. kept \cup i + 1 .. count /\ queries'[l] = queries[l]
            \/ ~ Superseded /\ l = kept + 1 /\ queries'[l] = queries[i]
      BY <1>14, <2>1
    <3>2. CASE j \in 1 .. kept \cup i + 1 .. count /\ k \in 1 .. kept \cup i + 1 .. count
               /\ queries'[j] = queries[j] /\ queries'[k] = queries[k]
      BY <1>2, <1>9, <3>2
    <3>3. CASE j = kept + 1 /\ queries'[j] = queries[i]
      <4>1. k \in i + 1 .. count /\ queries'[k] = queries[k]
        BY <1>1, <1>2, <1>14, <2>1, <3>3
      <4> QED
        BY <1>11, <3>3, <4>1 DEF u
    <3>4. CASE k = kept + 1 /\ queries'[k] = queries[i]
      <4>1. j \in 1 .. kept /\ queries'[j] = queries[j]
        BY <1>2, <1>15, <3>4
      <4>2. j < i
        BY <1>2, <4>1
      <4> QED
        BY <1>9, <1>11, <3>4, <4>1, <4>2
    <3> QED
      BY <3>1, <3>2, <3>3, <3>4
  <2>5. ASSUME NEW m \in Batch, IsQuery(inbox[m])
        PROVE  \/ \E k \in i + 1 .. count : queries'[k].id = m
               \/ /\ \A k \in i + 1 .. count : m < queries'[k].id
                  /\ Latest(m) => \E k \in 1 .. kept' : queries'[k].id = m
    <3>1. CASE m = u
      <4>1. \A k \in i + 1 .. count : m < queries'[k].id
        BY <1>11, <1>14, <3>1
      <4>2. Latest(m) => \E k \in 1 .. kept' : queries'[k].id = m
        <5>1. Latest(m) => kept' = kept + 1 /\ queries'[kept + 1].id = m
          BY <1>12, <1>16, <3>1 DEF u
        <5>2. kept + 1 \in 1 .. kept + 1
          BY <1>2
        <5> QED
          BY <5>1, <5>2
      <4> QED
        BY <4>1, <4>2
    <3>2. CASE m # u /\ \E k \in i .. count : queries[k].id = m
      <4>1. PICK k \in i .. count : queries[k].id = m
        BY <3>2
      <4>2. k \in i + 1 .. count
        BY <1>2, <3>2, <4>1 DEF u
      <4> QED
        BY <1>14, <4>1, <4>2
    <3>3. CASE /\ \A k \in i .. count : m < queries[k].id
               /\ Latest(m) => \E k \in 1 .. kept : queries[k].id = m
      <4>1. \A k \in i + 1 .. count : m < queries'[k].id
        BY <1>2, <1>14, <3>3
      <4>2. \A k \in 1 .. kept : k \in 1 .. kept'
        BY <1>2, <1>5
      <4> QED
        BY <1>15, <3>3, <4>1, <4>2
    <3> QED
      BY <1>9, <2>5, <3>1, <3>2, <3>3
  <2>6. inbox' = inbox
    BY <1>1
  <2> QED
    BY <1>3, <1>4, <1>13, <2>2, <2>3, <2>4, <2>5, <2>6 DEF Deduped
<1> QED
  BY <1>6, <1>7, <1>8, <1>17 DEF LapInv

(* The queries that are left are answered. *)
LEMMA AnswerInlineKeepsLap ==
  ASSUME LapInv, AnswerInline
  PROVE  LapInv'
<1>1. /\ pc = "dedupe" /\ pc' = "filter" /\ i > count /\ i' = 1 /\ kept' = 0 /\ count' = Len(msgs)
      /\ queries' = SubSeq(queries, 1, kept)
      /\ UNCHANGED <<inbox, offset, saved, msgs, queue, window, back, listing, crashes>>
  BY DEF AnswerInline, Start, walk
<1>2. /\ queries \in Seq(Update) /\ kept \in 0 .. Len(queries) /\ Len(msgs) \in Nat
  BY <1>1 DEF LapInv, Flow
<1>3. queries' \in Seq(Update)
  BY <1>1, <1>2
<1>4. Flow'
  BY <1>1, <1>2, <1>3 DEF LapInv, Flow
<1>5. Batch' = Batch /\ ToCome' = ToCome /\ Kept' = Kept
  BY <1>1 DEF Batch, ToCome, Kept
<1>6. Sifted' /\ Queued'
  BY <1>1, <1>5, SiftedFrame, QueuedFrame DEF LapInv
<1>7. Deduped' /\ Walked'
  BY <1>1 DEF Deduped, Walked
<1> QED
  BY <1>4, <1>6, <1>7 DEF LapInv

-----------------------------------------------------------------------------
(* filter_commands: a page moves up to the entries kept. *)
LEMMA StrippedIs ==
  ASSUME NEW m \in Update
  PROVE  Stripped(m) \in Update /\ Stripped(m).id = m.id
BY DEF Stripped, Update, Kinds

LEMMA KeepPageKeepsLap ==
  ASSUME LapInv, KeepPage
  PROVE  LapInv'
<1>1. /\ pc = "filter" /\ pc' = pc /\ i <= count /\ IsPage(msgs[i]) /\ kept' = kept + 1 /\ i' = i + 1
      /\ msgs' = [msgs EXCEPT ![i] = Stripped(msgs[i]), ![kept + 1] = Stripped(msgs[i])]
      /\ UNCHANGED <<inbox, offset, saved, queries, count, queue, window, back, listing, crashes>>
  BY DEF KeepPage, walk
<1>2. /\ msgs \in Seq(Update) /\ count = Len(msgs) /\ count \in Nat /\ DOMAIN msgs = 1 .. count
      /\ i \in 1 .. count /\ kept \in 0 .. i - 1 /\ kept + 1 \in 1 .. i /\ i \in Int /\ kept \in Int
      /\ kept + 1 \in 1 .. count
  BY <1>1 DEF LapInv, Flow
<1>3. Batch' = Batch /\ Batch \subseteq Int
  BY <1>1 DEF Batch, LapInv, Flow
<1>4. ToCome = i .. count /\ Kept = 1 .. kept /\ ToCome' = i + 1 .. count /\ Kept' = 1 .. kept + 1
  BY <1>1 DEF ToCome, Kept
<1> DEFINE u == msgs[i].id
<1>5. PICK p \in Update : p = Stripped(msgs[i]) /\ p.id = u
  BY <1>2, StrippedIs
<1>6. /\ msgs' \in Seq(Update) /\ Len(msgs') = count
      /\ \A k \in 1 .. count : msgs'[k] = IF k = i \/ k = kept + 1 THEN p ELSE msgs[k]
  <2>1. msgs' = [msgs EXCEPT ![i] = p, ![kept + 1] = p]
    BY <1>1, <1>5
  <2>2. PICK t : t = [msgs EXCEPT ![i] = p]
    OBVIOUS
  <2>3. /\ t \in Seq(Update) /\ Len(t) = count
        /\ \A k \in 1 .. count : t[k] = IF k = i THEN p ELSE msgs[k]
    BY <1>2, <2>2, ExceptSeq
  <2>4. msgs' = [t EXCEPT ![kept + 1] = p]
    BY <2>1, <2>2
  <2>5. /\ msgs' \in Seq(Update) /\ Len(msgs') = count
        /\ \A k \in 1 .. count : msgs'[k] = IF k = kept + 1 THEN p ELSE t[k]
    BY <1>2, <2>3, <2>4, ExceptSeq
  <2> QED
    BY <2>3, <2>5
<1>7. Flow'
  BY <1>1, <1>2, <1>6 DEF LapInv, Flow
<1>8. /\ \A k \in i .. count : /\ msgs[k].id \in Batch /\ msgs[k] = inbox[msgs[k].id]
                              /\ ~ IsQuery(msgs[k])
      /\ \A k \in 1 .. kept : /\ msgs[k].id \in Batch /\ msgs[k] = Stripped(inbox[msgs[k].id])
                             /\ ~ IsQuery(inbox[msgs[k].id]) /\ IsPage(inbox[msgs[k].id])
      /\ \A j, k \in 1 .. kept \cup i .. count : j < k => msgs[j].id < msgs[k].id
      /\ \A m \in Batch : ~ IsQuery(inbox[m]) =>
           \/ \E k \in i .. count : msgs[k].id = m
           \/ IsPage(inbox[m]) => \E k \in 1 .. kept : msgs[k].id = m
  BY <1>4 DEF LapInv, Sifted
<1>9. /\ i \in i .. count /\ u \in Batch /\ msgs[i] = inbox[u] /\ ~ IsQuery(inbox[u]) /\ IsPage(inbox[u])
      /\ msgs'[kept + 1] = Stripped(inbox[u]) /\ msgs'[kept + 1].id = u
  <2>1. i \in i .. count
    BY <1>2
  <2>2. u \in Batch /\ msgs[i] = inbox[u] /\ ~ IsQuery(inbox[u])
    BY <1>8, <2>1
  <2> QED
    BY <1>1, <1>2, <1>5, <1>6, <2>1, <2>2
<1>10. \A k \in i + 1 .. count : k \in i .. count /\ i < k /\ msgs'[k] = msgs[k]
  BY <1>2, <1>6
<1>11. \A k \in 1 .. kept : k < i /\ k < kept + 1 /\ k \in 1 .. kept + 1 /\ msgs'[k] = msgs[k]
  BY <1>2, <1>6
<1>12. \A k \in 1 .. kept + 1 : k \in 1 .. kept \/ k = kept + 1
  BY <1>2
<1> HIDE DEF u
<1>13. Sifted'
  <2>1. \A k \in i + 1 .. count : /\ msgs'[k].id \in Batch /\ msgs'[k] = inbox[msgs'[k].id]
                                 /\ ~ IsQuery(msgs'[k])
    BY <1>8, <1>10
  <2>2. \A k \in 1 .. kept + 1 : /\ msgs'[k].id \in Batch /\ msgs'[k] = Stripped(inbox[msgs'[k].id])
                                /\ ~ IsQuery(inbox[msgs'[k].id]) /\ IsPage(inbox[msgs'[k].id])
    BY <1>8, <1>9, <1>11, <1>12
  <2>3. \A j, k \in 1 .. kept + 1 \cup i + 1 .. count : j < k => msgs'[j].id < msgs'[k].id
    <3> SUFFICES ASSUME NEW j \in 1 .. kept + 1 \cup i + 1 .. count,
                        NEW k \in 1 .. kept + 1 \cup i + 1 .. count, j < k
                 PROVE  msgs'[j].id < msgs'[k].id
      OBVIOUS
    <3>1. \A l \in 1 .. kept + 1 \cup i + 1 .. count :
            (l \in 1 .. kept \cup i .. count /\ l # i /\ msgs'[l] = msgs[l])
            \/ (l = kept + 1 /\ msgs'[l].id = u)
      BY <1>2, <1>9, <1>10, <1>11, <1>12
    <3>2. CASE j = kept + 1 /\ msgs'[j].id = u
      <4>1. k \in i + 1 .. count
        BY <1>2, <3>2
      <4> QED
        BY <1>8, <1>9, <1>10, <3>2, <4>1 DEF u
    <3>3. CASE k = kept + 1 /\ msgs'[k].id = u
      <4>1. j \in 1 .. kept
        BY <1>2, <3>3
      <4> QED
        BY <1>8, <1>9, <1>11, <3>3, <4>1 DEF u
    <3>4. CASE /\ j \in 1 .. kept \cup i .. count /\ msgs'[j] = msgs[j]
               /\ k \in 1 .. kept \cup i .. count /\ msgs'[k] = msgs[k]
      BY <1>8, <3>4
    <3> QED
      BY <3>1, <3>2, <3>3, <3>4
  <2>4. ASSUME NEW m \in Batch, ~ IsQuery(inbox[m])
        PROVE  \/ \E k \in i + 1 .. count : msgs'[k].id = m
               \/ IsPage(inbox[m]) => \E k \in 1 .. kept + 1 : msgs'[k].id = m
    <3>1. CASE m = u
      BY <1>2, <1>9, <3>1
    <3>2. CASE m # u /\ \E k \in i .. count : msgs[k].id = m
      <4>1. PICK k \in i .. count : msgs[k].id = m
        BY <3>2
      <4>2. k \in i + 1 .. count
        BY <1>2, <3>2, <4>1 DEF u
      <4> QED
        BY <1>10, <4>1, <4>2
    <3>3. CASE IsPage(inbox[m]) => \E k \in 1 .. kept : msgs[k].id = m
      BY <1>11, <3>3
    <3> QED
      BY <1>8, <2>4, <3>1, <3>2, <3>3
  <2>5. inbox' = inbox
    BY <1>1
  <2> QED
    BY <1>3, <1>4, <2>1, <2>2, <2>3, <2>4, <2>5 DEF Sifted
<1>14. Deduped' /\ Walked'
  BY <1>1 DEF Deduped, Walked
<1>15. Queued'
  BY <1>1, QueuedFrame DEF LapInv
<1> QED
  BY <1>7, <1>13, <1>14, <1>15 DEF LapInv

(* A command leaves the batch, whatever becomes of its answer. *)
LEMMA CommandGone ==
  ASSUME LapInv, pc \in {"filter", "last"}, pc' = "filter", i <= count, ~ IsPage(msgs[i]), i' = i + 1,
         UNCHANGED <<inbox, offset, saved, msgs, queries, count, kept, queue, crashes>>
  PROVE  LapInv'
<1>1. /\ count = Len(msgs) /\ count \in Nat /\ i \in 1 .. count /\ kept \in 0 .. i - 1
  BY DEF LapInv, Flow
<1>2. Flow'
  BY <1>1 DEF LapInv, Flow
<1>3. Batch' = Batch
  BY DEF Batch
<1>4. ToCome = i .. count /\ Kept = 1 .. kept /\ ToCome' = i + 1 .. count /\ Kept' = 1 .. kept
  BY DEF ToCome, Kept
<1>5. \A k \in i + 1 .. count : k \in i .. count
  BY <1>1
<1>6. Sifted'
  <2>1. i \in ToCome /\ msgs[i] = inbox[msgs[i].id]
    BY <1>1, <1>4 DEF LapInv, Sifted
  <2>2. \A k \in i .. count : k = i \/ k \in i + 1 .. count
    BY <1>1
  <2>3. ASSUME NEW m \in Batch, ~ IsQuery(inbox[m])
        PROVE  \/ \E k \in i + 1 .. count : msgs[k].id = m
               \/ IsPage(inbox[m]) => \E k \in 1 .. kept : msgs[k].id = m
    <3>1. \/ \E k \in i .. count : msgs[k].id = m
          \/ IsPage(inbox[m]) => \E k \in 1 .. kept : msgs[k].id = m
      BY <1>4, <2>3 DEF LapInv, Sifted
    <3>2. CASE m = msgs[i].id
      BY <2>1, <3>2
    <3> QED
      BY <2>2, <3>1, <3>2
  <2> QED
    BY <1>3, <1>4, <1>5, <2>3 DEF LapInv, Sifted
<1>7. Deduped' /\ Walked'
  BY DEF Deduped, Walked
<1>8. Queued'
  BY QueuedFrame DEF LapInv
<1> QED
  BY <1>2, <1>6, <1>7, <1>8 DEF LapInv

LEMMA AnswersKeepLap ==
  ASSUME LapInv, AnswerCommand \/ ReplyLast
  PROVE  LapInv'
<1>1. CASE AnswerCommand
  BY <1>1, CommandGone DEF AnswerCommand, batch
<1>2. CASE ReplyLast
  <2>1. i <= count /\ ~ IsPage(msgs[i])
    BY <1>2 DEF ReplyLast, LapInv, Flow
  <2> QED
    BY <1>2, <2>1, CommandGone DEF ReplyLast, batch
<1> QED
  BY <1>1, <1>2

-----------------------------------------------------------------------------
(* build_last: how many pages it lists. *)
LEMMA WantIs ==
  ASSUME NEW n \in Nat, Len(queue) \in Nat \ {0}
  PROVE  Want(n) \in 1 .. Len(queue)
<1> DEFINE S == {IF n = 0 THEN LastDefault ELSE n, LastMax, Len(queue)}
<1>1. S \subseteq Nat \ {0} /\ Len(queue) \in S
  BY LapAssumption
<1>2. \E x \in S : \A y \in S : x <= y
  <2>1. \A a, b, c \in Nat \ {0} : \E x \in {a, b, c} : \A y \in {a, b, c} : x <= y
    OBVIOUS
  <2>2. (IF n = 0 THEN LastDefault ELSE n) \in Nat \ {0} /\ LastMax \in Nat \ {0}
    BY LapAssumption
  <2> QED
    BY <2>1, <2>2
<1>3. Want(n) = CHOOSE x \in S : \A y \in S : x <= y
  BY DEF Want, Min
<1> HIDE DEF S
<1>4. PICK w \in S : w = Want(n) /\ w <= Len(queue)
  BY <1>1, <1>2, <1>3
<1>5. w \in Nat \ {0}
  BY <1>1
<1> QED
  BY <1>4, <1>5

LEMMA BeginLastKeepsLap ==
  ASSUME LapInv, BeginLast
  PROVE  LapInv'
<1>1. /\ pc = "filter" /\ pc' = "last" /\ i <= count /\ ~ IsPage(msgs[i]) /\ queue # << >>
      /\ back' = Want(msgs[i].n) - 1 /\ window' = SubSeq(queue, Len(queue) - back', Len(queue))
      /\ listing' = << >>
      /\ UNCHANGED <<inbox, offset, saved, msgs, queries, count, i, kept, queue, crashes>>
  BY DEF BeginLast, loop, batch
<1>2. Flow'
  BY <1>1 DEF LapInv, Flow
<1>3. Batch' = Batch /\ ToCome' = ToCome /\ Kept' = Kept
  BY <1>1 DEF Batch, ToCome, Kept
<1>4. Sifted' /\ Queued'
  BY <1>1, <1>3, SiftedFrame, QueuedFrame DEF LapInv
<1>5. Deduped'
  BY <1>1 DEF Deduped
<1>6. /\ queue \in Seq(Int \X Nat) /\ Len(queue) \in Nat \ {0} /\ DOMAIN queue = 1 .. Len(queue)
      /\ \A j, k \in DOMAIN queue : queue[j] = queue[k] => j = k
  <2>1. /\ queue \in Seq(Int \X Nat)
        /\ \A j, k \in DOMAIN queue : queue[j] = queue[k] => j = k
    BY DEF LapInv, Queued
  <2>2. Len(queue) # 0
    BY <1>1, <2>1, EmptySeq
  <2> QED
    BY <2>1, <2>2
<1>7. PICK w \in 1 .. Len(queue) : w = Want(msgs[i].n)
  <2>1. msgs[i] \in Update
    BY <1>1 DEF LapInv, Flow
  <2> QED
    BY <1>6, <2>1, WantIs DEF Update
<1>8. PICK q \in Nat, m \in 1 .. Len(queue) :
        /\ q = Len(queue) /\ m = q - w + 1 /\ w \in 1 .. q /\ back' = w - 1
        /\ Len(queue) - back' = m
  <2>1. PICK q \in Nat : q = Len(queue)
    BY <1>6
  <2>2. w \in 1 .. q /\ q - w + 1 \in 1 .. q /\ q - (w - 1) = q - w + 1
    BY <2>1
  <2> QED
    BY <1>1, <1>7, <2>1, <2>2
<1>9. /\ window' \in Seq(Int \X Nat) /\ Len(window') = w /\ DOMAIN window' = 1 .. w
      /\ \A k \in 1 .. w : window'[k] = queue[q - w + k]
  <2>1. window' = SubSeq(queue, m, q)
    BY <1>1, <1>8
  <2>2. \A k \in m .. q : queue[k] \in Int \X Nat
    BY <1>6, <1>8
  <2>3. m \in Int /\ q \in Int /\ m <= q + 1 /\ (q - m) + 1 = w /\ \A k \in 1 .. w : m + k - 1 = q - w + k
    BY <1>8
  <2>4. /\ window' \in Seq(Int \X Nat) /\ Len(window') = w
        /\ \A k \in 1 .. w : window'[k] = queue[m + k - 1]
    BY <1>8, <2>1, <2>2, <2>3
  <2>5. DOMAIN window' = 1 .. w
    BY <2>4
  <2>6. ASSUME NEW k \in 1 .. w PROVE window'[k] = queue[q - w + k]
    <3>1. m + k - 1 = q - w + k
      BY <2>3
    <3> QED
      BY <2>4, <3>1, Zenon
  <2> QED
    BY <2>4, <2>5, <2>6
<1>10. Walked'
  <2>1. DOMAIN listing' = {} /\ listing' \in Seq(Int \X Nat)
    BY <1>1
  <2>2. \A j, k \in DOMAIN window' : window'[j] = window'[k] => j = k
    <3> SUFFICES ASSUME NEW j \in 1 .. w, NEW k \in 1 .. w, window'[j] = window'[k]
                 PROVE  j = k
      BY <1>9
    <3>1. PICK x \in 1 .. q, y \in 1 .. q : x = q - w + j /\ y = q - w + k
      <4>1. q - w + j \in 1 .. q /\ q - w + k \in 1 .. q
        BY <1>8
      <4> QED
        BY <4>1
    <3>2. queue[x] = queue[y] /\ x \in DOMAIN queue /\ y \in DOMAIN queue
      BY <1>6, <1>8, <1>9, <3>1
    <3>3. x = y
      BY <1>6, <3>2
    <3> QED
      BY <1>8, <3>1, <3>3
  <2>3. \A b \in 0 .. Len(window') - 1 : queue'[Len(queue') - b] = window'[Len(window') - b]
    <3> SUFFICES ASSUME NEW b \in 0 .. w - 1 PROVE queue[q - b] = window'[w - b]
      BY <1>1, <1>8, <1>9
    <3>1. PICK k \in 1 .. w : k = w - b /\ q - w + k = q - b
      BY <1>8
    <3> QED
      BY <1>9, <3>1
  <2>4. \E f \in [DOMAIN listing' -> 1 .. Len(window') - back' - 1] :
          /\ \A k \in DOMAIN listing' : listing'[k] = window'[f[k]]
          /\ \A j, k \in DOMAIN listing' : j < k => f[j] < f[k]
    <3>1. [k \in {} |-> 0] \in [DOMAIN listing' -> 1 .. Len(window') - back' - 1]
      BY <2>1
    <3> QED
      BY <2>1, <3>1
  <2>5. back' \in -1 .. Len(window') - 1 /\ back' + 1 .. Len(window') - 1 = {}
    <3>1. w - 1 \in -1 .. w - 1 /\ w - 1 + 1 .. w - 1 = {}
      BY <1>8
    <3> QED
      BY <1>8, <1>9, <3>1
  <2> QED
    BY <1>9, <2>1, <2>2, <2>3, <2>4, <2>5 DEF Walked
<1> QED
  BY <1>2, <1>4, <1>5, <1>10 DEF LapInv

(* One page of the listing. *)
LEMMA ListPageKeepsLap ==
  ASSUME LapInv, ListPage
  PROVE  LapInv'
<1>1. /\ pc = "last" /\ back >= 0 /\ back' = back - 1
      /\ back < Len(queue) => listing' = Append(listing, queue[Len(queue) - back])
      /\ ~ (back < Len(queue)) => listing' = listing
      /\ UNCHANGED <<inbox, offset, saved, pc, msgs, queries, count, i, kept, queue, window, crashes>>
  BY DEF ListPage, loop, batch
<1>2. Flow'
  BY <1>1 DEF LapInv, Flow
<1>3. Batch' = Batch /\ ToCome' = ToCome /\ Kept' = Kept
  BY <1>1 DEF Batch, ToCome, Kept
<1>4. Sifted' /\ Queued'
  BY <1>1, <1>3, SiftedFrame, QueuedFrame DEF LapInv
<1>5. Deduped'
  BY <1>1 DEF Deduped
<1>6. /\ window \in Seq(Int \X Nat) /\ back \in -1 .. Len(window) - 1
      /\ \A j, k \in DOMAIN window : window[j] = window[k] => j = k
      /\ \A b \in 0 .. Len(window) - 1 :
           b < Len(queue) => queue[Len(queue) - b] = window[Len(window) - b]
      /\ listing \in Seq(Int \X Nat)
      /\ \A b \in back + 1 .. Len(window) - 1 :
           b < Len(queue) => window[Len(window) - b] \in ToSet(listing)
  BY <1>1 DEF LapInv, Walked
<1>7. PICK f \in [DOMAIN listing -> 1 .. Len(window) - back - 1] :
        /\ \A k \in DOMAIN listing : listing[k] = window[f[k]]
        /\ \A j, k \in DOMAIN listing : j < k => f[j] < f[k]
  BY <1>1 DEF LapInv, Walked
<1>8. /\ Len(window) \in Nat /\ Len(queue) \in Nat /\ Len(listing) \in Nat /\ back \in Int
      /\ DOMAIN listing = 1 .. Len(listing) /\ back' \in -1 .. Len(window) - 1
      /\ Len(window) - back' - 1 = Len(window) - back /\ back \in 0 .. Len(window) - 1
      /\ Len(window) - back \in 1 .. Len(window)
  <2>1. /\ Len(window) \in Nat /\ Len(queue) \in Nat /\ Len(listing) \in Nat
        /\ DOMAIN listing = 1 .. Len(listing)
    BY <1>6 DEF LapInv, Queued
  <2>2. back \in Int /\ back <= Len(window) - 1
    BY <1>6, <2>1
  <2> QED
    BY <1>1, <2>1, <2>2
<1>9. CASE back < Len(queue)
  <2> DEFINE last == window[Len(window) - back]
             n == Len(listing)
             g == [k \in 1 .. n + 1 |-> IF k = n + 1 THEN Len(window) - back ELSE f[k]]
  <2>1. last \in Int \X Nat /\ queue[Len(queue) - back] = last
    <3>1. window[Len(window) - back] \in Int \X Nat
      BY <1>6, <1>8
    <3> QED
      BY <1>6, <1>8, <1>9, <3>1
  <2>2. listing' = Append(listing, last)
    BY <1>1, <1>9, <2>1
  <2> HIDE DEF last
  <2>3. /\ listing' \in Seq(Int \X Nat) /\ Len(listing') = n + 1 /\ DOMAIN listing' = 1 .. n + 1
        /\ \A k \in 1 .. n : listing'[k] = listing[k]
        /\ listing'[n + 1] = last
    BY <1>6, <2>1, <2>2, AppendProperties
  <2>4. ToSet(listing) \subseteq ToSet(listing') /\ last \in ToSet(listing')
    <3>1. \A k \in 1 .. n : k \in 1 .. n + 1
      BY <1>8
    <3>2. n + 1 \in 1 .. n + 1
      BY <1>8
    <3> QED
      BY <1>8, <2>3, <3>1, <3>2 DEF ToSet
  <2>5. g \in [1 .. n + 1 -> 1 .. Len(window) - back' - 1]
    <3>1. \A k \in 1 .. n + 1 : k # n + 1 => k \in 1 .. n
      BY <1>8
    <3>2. \A k \in 1 .. n : f[k] \in 1 .. Len(window) - back - 1
      BY <1>7, <1>8
    <3> QED
      BY <1>8, <3>1, <3>2
  <2>6. \A k \in 1 .. n + 1 : listing'[k] = window[g[k]]
    <3> SUFFICES ASSUME NEW k \in 1 .. n + 1 PROVE listing'[k] = window[g[k]]
      OBVIOUS
    <3>1. CASE k = n + 1
      BY <2>3, <3>1 DEF last
    <3>2. CASE k # n + 1
      <4>1. k \in 1 .. n
        BY <1>8, <3>2
      <4> QED
        BY <1>7, <1>8, <2>3, <3>2, <4>1
    <3> QED
      BY <3>1, <3>2
  <2>7. \A j, k \in 1 .. n + 1 : j < k => g[j] < g[k]
    <3> SUFFICES ASSUME NEW j \in 1 .. n + 1, NEW k \in 1 .. n + 1, j < k PROVE g[j] < g[k]
      OBVIOUS
    <3>1. j \in 1 .. n /\ g[j] = f[j] /\ f[j] \in 1 .. Len(window) - back - 1
      <4>1. j \in 1 .. n /\ j # n + 1
        BY <1>8
      <4> QED
        BY <1>7, <1>8, <4>1
    <3>2. CASE k = n + 1
      BY <1>8, <3>1, <3>2
    <3>3. CASE k # n + 1
      <4>1. k \in 1 .. n /\ g[k] = f[k]
        BY <1>8, <3>3
      <4> QED
        BY <1>7, <1>8, <3>1, <4>1
    <3> QED
      BY <3>2, <3>3
  <2>8. \A b \in back' + 1 .. Len(window) - 1 :
          b < Len(queue) => window[Len(window) - b] \in ToSet(listing')
    <3> SUFFICES ASSUME NEW b \in back' + 1 .. Len(window) - 1, b < Len(queue)
                 PROVE  window[Len(window) - b] \in ToSet(listing')
      OBVIOUS
    <3>1. CASE b = back
      BY <2>4, <3>1 DEF last
    <3>2. CASE b # back
      <4>1. b \in back + 1 .. Len(window) - 1
        BY <1>1, <1>8, <3>2
      <4> QED
        BY <1>6, <2>4, <4>1
    <3> QED
      BY <3>1, <3>2
  <2> HIDE DEF g, n
  <2>9. Walked'
    <3>1. \E h \in [DOMAIN listing' -> 1 .. Len(window') - back' - 1] :
            /\ \A k \in DOMAIN listing' : listing'[k] = window'[h[k]]
            /\ \A j, k \in DOMAIN listing' : j < k => h[j] < h[k]
      BY <1>1, <2>3, <2>5, <2>6, <2>7
    <3> QED
      BY <1>1, <1>6, <1>8, <2>3, <2>8, <3>1 DEF Walked
  <2> QED
    BY <1>2, <1>4, <1>5, <2>9 DEF LapInv
<1>10. CASE ~ (back < Len(queue))
  <2>1. f \in [DOMAIN listing -> 1 .. Len(window) - back' - 1]
    <3>1. \A k \in DOMAIN listing : f[k] \in 1 .. Len(window) - back' - 1
      BY <1>7, <1>8
    <3> QED
      BY <1>7, <3>1
  <2>2. \A b \in back' + 1 .. Len(window) - 1 :
          b < Len(queue) => window[Len(window) - b] \in ToSet(listing)
    <3> SUFFICES ASSUME NEW b \in back' + 1 .. Len(window) - 1, b < Len(queue)
                 PROVE  window[Len(window) - b] \in ToSet(listing)
      OBVIOUS
    <3>1. b \in Int /\ b > back
      <4>1. PICK c \in Int : c = back' /\ c = back - 1
        BY <1>1, <1>8
      <4>2. b \in Int /\ b >= back
        BY <1>8, <4>1
      <4> QED
        BY <1>8, <1>10, <4>2
    <3>2. b \in back + 1 .. Len(window) - 1
      BY <1>8, <3>1
    <3> QED
      BY <1>6, <3>2
  <2>3. listing' = listing /\ window' = window /\ queue' = queue
    BY <1>1, <1>10
  <2>4. \E h \in [DOMAIN listing' -> 1 .. Len(window') - back' - 1] :
          /\ \A k \in DOMAIN listing' : listing'[k] = window'[h[k]]
          /\ \A j, k \in DOMAIN listing' : j < k => h[j] < h[k]
    BY <1>7, <2>1, <2>3
  <2>5. Walked'
    BY <1>6, <1>8, <2>2, <2>3, <2>4 DEF Walked
  <2> QED
    BY <1>2, <1>4, <1>5, <2>5 DEF LapInv
<1> QED
  BY <1>9, <1>10

-----------------------------------------------------------------------------
(* What is left goes to push_batch. *)
LEMMA FilteredKeepsLap ==
  ASSUME LapInv, Filtered
  PROVE  LapInv'
<1>1. /\ pc = "filter" /\ pc' = "push" /\ i > count /\ count' = kept /\ i' = 1 /\ kept' = 0
      /\ UNCHANGED <<inbox, offset, saved, msgs, queries, queue, window, back, listing, crashes>>
  BY DEF Filtered, Start, walk
<1>2. count = Len(msgs) /\ count \in Nat /\ i \in 1 .. count + 1 /\ kept \in 0 .. i - 1
  BY <1>1 DEF LapInv, Flow
<1>3. Flow'
  BY <1>1, <1>2 DEF LapInv, Flow
<1>4. Batch' = Batch /\ ToCome' = ToCome /\ Kept' = Kept
  <2>1. i .. count = {}
    BY <1>1, <1>2
  <2> QED
    BY <1>1, <2>1 DEF Batch, ToCome, Kept
<1>5. Sifted' /\ Queued'
  BY <1>1, <1>4, SiftedFrame, QueuedFrame DEF LapInv
<1>6. Deduped' /\ Walked'
  BY <1>1 DEF Deduped, Walked
<1> QED
  BY <1>3, <1>5, <1>6 DEF LapInv

(* The queue without its oldest page. *)
LEMMA TailIs ==
  ASSUME LapInv, queue # << >>
  PROVE  /\ Tail(queue) \in Seq(Int \X Nat) /\ Len(Tail(queue)) = Len(queue) - 1
         /\ Len(queue) \in Nat \ {0} /\ DOMAIN queue = 1 .. Len(queue)
         /\ \A k \in 1 .. Len(queue) - 1 : Tail(queue)[k] = queue[k + 1]
<1>1. queue \in Seq(Int \X Nat)
  BY DEF LapInv, Queued
<1>2. Len(queue) # 0
  BY <1>1, EmptySeq
<1> QED
  BY <1>1, <1>2, HeadTailProperties

(* A page is pushed; a full queue drops its oldest. *)
LEMMA PushKeepsQueued ==
  ASSUME LapInv, PushPage
  PROVE  Queued'
<1>1. /\ pc = "push" /\ pc' = "push" /\ i <= count /\ i' = i + 1
      /\ queue' = Append(IF Len(queue) = Capacity THEN Tail(queue) ELSE queue,
                         <<msgs[i].id, crashes>>)
      /\ UNCHANGED <<saved, msgs, crashes>>
  BY DEF PushPage, batch
<1>2. /\ queue \in Seq(Int \X Nat) /\ Len(queue) <= Capacity /\ crashes \in Nat
      /\ DOMAIN queue = 1 .. Len(queue) /\ Len(queue) \in Nat /\ Capacity \in Nat \ {0}
      /\ \A j, k \in 1 .. Len(queue) : queue[j] = queue[k] => j = k
      /\ \A k \in 1 .. Len(queue) :
           \/ queue[k][2] < crashes
           \/ queue[k][2] = crashes /\ queue[k][1] < saved
           \/ \E j \in 1 .. i - 1 : queue[k] = <<msgs[j].id, crashes>>
  <2>1. queue \in Seq(Int \X Nat) /\ Len(queue) <= Capacity /\ crashes \in Nat
    BY DEF LapInv, Queued
  <2>2. DOMAIN queue = 1 .. Len(queue) /\ Len(queue) \in Nat
    BY <2>1
  <2>3. Capacity \in Nat \ {0}
    BY LapAssumption
  <2>4. \A j, k \in 1 .. Len(queue) : queue[j] = queue[k] => j = k
    BY <2>2, Zenon DEF LapInv, Queued
  <2>5. \A k \in 1 .. Len(queue) :
          \/ queue[k][2] < crashes
          \/ queue[k][2] = crashes /\ queue[k][1] < saved
          \/ \E j \in 1 .. i - 1 : queue[k] = <<msgs[j].id, crashes>>
    BY <2>2, Zenon DEF LapInv, Queued
  <2> QED
    BY <2>1, <2>2, <2>3, <2>4, <2>5
<1>3. /\ i \in 1 .. count /\ i \in Int /\ saved \in Int
      /\ \A j \in 1 .. count : msgs[j].id \in Int /\ saved <= msgs[j].id
      /\ \A j \in 1 .. i - 1 : msgs[j].id < msgs[i].id
  <2>1. /\ count \in Nat /\ i \in 1 .. count /\ saved \in Int /\ offset \in Int
        /\ \A j \in 1 .. i - 1 : j \in 1 .. count /\ j < i
    BY <1>1 DEF LapInv, Flow
  <2>2. Kept = 1 .. count /\ Batch = saved .. offset - 1
    BY <1>1 DEF Kept, Batch
  <2>3. \A j \in 1 .. count : msgs[j].id \in saved .. offset - 1
    BY <2>2 DEF LapInv, Sifted
  <2>4. \A j, k \in 1 .. count : j < k => msgs[j].id < msgs[k].id
    BY <2>2 DEF LapInv, Sifted
  <2> QED
    BY <2>1, <2>3, <2>4
<1>4. PICK id \in Int, p \in Int \X Nat : id = msgs[i].id /\ p = <<id, crashes>>
  BY <1>2, <1>3
<1>5. PICK rest \in Seq(Int \X Nat), d \in {0, 1} :
        /\ queue' = Append(rest, p) /\ Len(rest) \in Nat /\ Len(rest) < Capacity
        /\ \A k \in 1 .. Len(rest) : k + d \in 1 .. Len(queue) /\ rest[k] = queue[k + d]
  <2>1. CASE Len(queue) = Capacity
    <3>1. queue # << >>
      BY <1>2, <2>1
    <3>2. PICK t \in Seq(Int \X Nat) :
            /\ t = Tail(queue) /\ Len(t) = Len(queue) - 1
            /\ \A k \in 1 .. Len(queue) - 1 : t[k] = queue[k + 1]
      BY <3>1, TailIs
    <3>3. \A k \in 1 .. Len(t) : k + 1 \in 1 .. Len(queue) /\ t[k] = queue[k + 1]
      BY <1>2, <3>2
    <3>4. Len(t) \in Nat /\ Len(t) < Capacity /\ queue' = Append(t, p)
      BY <1>1, <1>2, <1>4, <2>1, <3>2
    <3> QED
      BY <3>3, <3>4
  <2>2. CASE Len(queue) # Capacity
    <3>1. \A k \in 1 .. Len(queue) : k + 0 \in 1 .. Len(queue) /\ queue[k] = queue[k + 0]
      BY <1>2
    <3>2. Len(queue) < Capacity
      <4>1. \A q, c \in Nat : q <= c /\ q # c => q < c
        OBVIOUS
      <4>2. Len(queue) \in Nat /\ Capacity \in Nat /\ Len(queue) <= Capacity
        BY <1>2, Zenon
      <4> QED
        BY <2>2, <4>1, <4>2, Zenon
    <3>3. queue' = Append(queue, p)
      BY <1>1, <1>4, <2>2, Zenon
    <3> QED
      BY <1>2, <3>1, <3>2, <3>3
  <2> QED
    BY <2>1, <2>2
<1> DEFINE n == Len(rest)
<1>6. /\ queue' \in Seq(Int \X Nat) /\ Len(queue') = n + 1 /\ DOMAIN queue' = 1 .. n + 1
      /\ \A k \in 1 .. n : queue'[k] = rest[k]
      /\ queue'[n + 1] = p
  BY <1>5, AppendProperties
<1>7. \A k \in 1 .. Len(queue) : queue[k] # p
  <2> SUFFICES ASSUME NEW k \in 1 .. Len(queue), queue[k] = p PROVE FALSE
    OBVIOUS
  <2>1. queue[k][1] = id /\ queue[k][2] = crashes
    BY <1>4
  <2>2. ~ (queue[k][1] < saved) /\ ~ (queue[k][2] < crashes)
    BY <1>2, <1>3, <1>4, <2>1
  <2>3. PICK j \in 1 .. i - 1 : queue[k] = <<msgs[j].id, crashes>>
    BY <1>2, <2>2, Zenon
  <2>4. msgs[j].id = id
    BY <2>1, <2>3
  <2> QED
    BY <1>3, <1>4, <2>4
<1>8. \A k \in 1 .. n : k # n + 1 /\ n + 1 \notin 1 .. n
  BY <1>5
<1>9. \A k \in 1 .. n + 1 : k \in 1 .. n \/ k = n + 1
  BY <1>5
<1>10. \A k \in 1 .. n : queue'[k] = queue[k + d] /\ k + d \in 1 .. Len(queue)
  BY <1>5, <1>6
<1>11. \A j, k \in DOMAIN queue' : queue'[j] = queue'[k] => j = k
  <2> SUFFICES ASSUME NEW j \in 1 .. n + 1, NEW k \in 1 .. n + 1, queue'[j] = queue'[k]
               PROVE  j = k
    BY <1>6
  <2>1. CASE j \in 1 .. n /\ k \in 1 .. n
    <3>1. j + d = k + d
      BY <1>2, <1>10, <2>1
    <3> QED
      BY <3>1
  <2>2. CASE j \in 1 .. n /\ k = n + 1
    BY <1>6, <1>7, <1>10, <2>2
  <2>3. CASE j = n + 1 /\ k \in 1 .. n
    BY <1>6, <1>7, <1>10, <2>3
  <2> QED
    BY <1>9, <2>1, <2>2, <2>3
<1>12. \A k \in DOMAIN queue' :
         \/ queue'[k][2] < crashes
         \/ queue'[k][2] = crashes /\ queue'[k][1] < saved
         \/ \E j \in 1 .. i : queue'[k] = <<msgs[j].id, crashes>>
  <2> SUFFICES ASSUME NEW k \in 1 .. n + 1
               PROVE  \/ queue'[k][2] < crashes
                      \/ queue'[k][2] = crashes /\ queue'[k][1] < saved
                      \/ \E j \in 1 .. i : queue'[k] = <<msgs[j].id, crashes>>
    BY <1>6
  <2>1. CASE k = n + 1
    <3>1. i \in 1 .. i
      BY <1>3
    <3> QED
      BY <1>4, <1>6, <2>1, <3>1
  <2>2. CASE k \in 1 .. n
    <3>1. PICK l \in 1 .. Len(queue) : queue'[k] = queue[l]
      BY <1>10, <2>2
    <3>2. \A j \in 1 .. i - 1 : j \in 1 .. i
      BY <1>3
    <3> QED
      BY <1>2, <3>1, <3>2
  <2> QED
    BY <1>9, <2>1, <2>2
<1>13. Len(queue') <= Capacity
  BY <1>2, <1>5, <1>6
<1>14. 1 .. i = 1 .. i' - 1 /\ pc' = "push" /\ crashes' = crashes /\ saved' = saved /\ msgs' = msgs
  BY <1>1, <1>3
<1> QED
  BY <1>2, <1>6, <1>11, <1>12, <1>13, <1>14 DEF Queued

LEMMA PushKeepsLap ==
  ASSUME LapInv, PushPage
  PROVE  LapInv'
<1>1. /\ pc = "push" /\ i <= count /\ i' = i + 1
      /\ UNCHANGED <<inbox, offset, saved, pc, msgs, queries, count, kept, crashes>>
  BY DEF PushPage, batch
<1>2. Flow'
  BY <1>1 DEF LapInv, Flow
<1>3. Batch' = Batch /\ ToCome' = ToCome /\ Kept' = Kept
  BY <1>1 DEF Batch, ToCome, Kept
<1>4. Sifted'
  BY <1>1, <1>3, SiftedFrame DEF LapInv
<1>5. Deduped' /\ Walked'
  BY <1>1 DEF Deduped, Walked
<1> QED
  BY <1>2, <1>4, <1>5, PushKeepsQueued DEF LapInv

(* The offset is saved: the batch is done. *)
LEMMA SaveKeepsLap ==
  ASSUME LapInv, SaveOffset
  PROVE  LapInv'
<1>1. /\ pc = "push" /\ pc' = "poll" /\ i > count /\ saved' = offset /\ msgs' = << >> /\ queries' = << >>
      /\ count' = 0 /\ i' = 1 /\ kept' = 0
      /\ UNCHANGED <<inbox, offset, queue, crashes>>
  BY DEF SaveOffset, Rest, walk
<1>2. /\ saved \in 1 .. Len(inbox) + 1 /\ offset \in saved .. Len(inbox) + 1 /\ Len(inbox) \in Nat
      /\ count \in Nat /\ i \in 1 .. count + 1
  BY <1>1 DEF LapInv, Flow
<1>3. Flow'
  <2>1. saved' \in 1 .. Len(inbox) + 1 /\ saved' .. Len(inbox) + 1 = offset .. Len(inbox) + 1
        /\ offset \in offset .. Len(inbox) + 1
    BY <1>1, <1>2
  <2>2. << >> \in Seq(Update) /\ 1 \in 1 .. 0 + 1 /\ 0 \in 0 .. 1 - 1 /\ 0 \in Nat
    OBVIOUS
  <2> QED
    BY <1>1, <2>1, <2>2 DEF LapInv, Flow
<1>4. Batch' = {} /\ ToCome' = {} /\ Kept' = {}
  BY <1>1 DEF Batch, ToCome, Kept
<1>5. Sifted' /\ Deduped' /\ Walked'
  BY <1>1, <1>4 DEF Sifted, Deduped, Walked
<1>6. Queued'
  <2>1. \A j \in 1 .. i - 1 : msgs[j].id \in saved .. offset - 1
    <3>1. Kept = 1 .. count /\ Batch = saved .. offset - 1
      BY <1>1 DEF Kept, Batch
    <3>2. \A j \in 1 .. i - 1 : j \in 1 .. count
      BY <1>2
    <3> QED
      BY <3>1, <3>2 DEF LapInv, Sifted
  <2>2. ASSUME NEW k \in DOMAIN queue
        PROVE  queue[k][2] < crashes \/ (queue[k][2] = crashes /\ queue[k][1] < offset)
    <3>1. queue[k] \in Int \X Nat
      BY DEF LapInv, Queued
    <3>2. CASE queue[k][2] = crashes /\ queue[k][1] < saved
      BY <1>2, <3>1, <3>2
    <3>3. CASE \E j \in 1 .. i - 1 : queue[k] = <<msgs[j].id, crashes>>
      <4>1. PICK j \in 1 .. i - 1 : queue[k] = <<msgs[j].id, crashes>>
        BY <3>3
      <4>2. msgs[j].id < offset
        BY <1>2, <2>1
      <4> QED
        BY <4>1, <4>2
    <3> QED
      BY <3>2, <3>3 DEF LapInv, Queued
  <2> QED
    BY <1>1, <2>2 DEF LapInv, Queued
<1> QED
  BY <1>3, <1>5, <1>6 DEF LapInv

-----------------------------------------------------------------------------
(* A reset ends the lap; the next boot starts from the saved offset. *)
LEMMA CrashKeepsLap ==
  ASSUME LapInv, Crash
  PROVE  LapInv'
<1>1. /\ pc' = "reset" /\ crashes' = crashes + 1 /\ msgs' = << >> /\ queries' = << >>
      /\ count' = 0 /\ i' = 1 /\ kept' = 0
      /\ UNCHANGED <<inbox, offset, saved, queue>>
  BY DEF Crash
<1>2. Flow'
  <2>1. << >> \in Seq(Update) /\ 1 \in 1 .. 0 + 1 /\ 0 \in 0 .. 1 - 1 /\ 0 \in Nat
    OBVIOUS
  <2> QED
    BY <1>1, <2>1 DEF LapInv, Flow
<1>3. Batch' = {} /\ ToCome' = {} /\ Kept' = {}
  BY <1>1 DEF Batch, ToCome, Kept
<1>4. Sifted' /\ Deduped' /\ Walked'
  BY <1>1, <1>3 DEF Sifted, Deduped, Walked
<1>5. Queued'
  <2>1. queue \in Seq(Int \X Nat) /\ crashes \in Nat
    BY DEF LapInv, Queued
  <2>2. ASSUME NEW k \in DOMAIN queue PROVE queue[k][2] < crashes + 1
    <3>1. queue[k] \in Int \X Nat
      BY <2>1
    <3>2. queue[k][2] < crashes \/ queue[k][2] = crashes
      BY DEF LapInv, Queued
    <3> QED
      BY <2>1, <3>1, <3>2
  <2> QED
    BY <1>1, <2>1, <2>2 DEF LapInv, Queued
<1> QED
  BY <1>2, <1>4, <1>5 DEF LapInv

LEMMA BootKeepsLap ==
  ASSUME LapInv, Boot
  PROVE  LapInv'
<1>1. /\ pc = "reset" /\ pc' = "poll" /\ offset' = saved
      /\ UNCHANGED <<inbox, saved, msgs, queries, count, i, kept, queue, crashes>>
  BY DEF Boot, batch, loop
<1>2. Flow'
  <2>1. saved \in saved .. Len(inbox) + 1
    BY DEF LapInv, Flow
  <2> QED
    BY <1>1, <2>1 DEF LapInv, Flow
<1>3. Batch' = {} /\ ToCome' = {} /\ Kept' = {}
  BY <1>1 DEF Batch, ToCome, Kept
<1>4. Sifted' /\ Deduped' /\ Walked'
  BY <1>1, <1>3 DEF Sifted, Deduped, Walked
<1>5. Queued'
  BY <1>1, QueuedFrame DEF LapInv
<1> QED
  BY <1>2, <1>4, <1>5 DEF LapInv

(* Someone writes between two polls. *)
LEMMA SendKeepsLap ==
  ASSUME LapInv, Send
  PROVE  LapInv'
<1>1. pc = "poll" /\ UNCHANGED <<offset, saved, pc, msgs, queries, count, i, kept, queue, crashes>>
  BY DEF Send, batch, loop
<1>2. PICK t \in Templates, s \in Steps, now \in Nat :
        inbox' = Append(inbox, [id |-> Len(inbox) + 1, kind |-> t.kind, chat |-> t.chat,
                                n |-> t.n, date |-> now + s])
  <2>1. PICK t \in Templates, s \in Steps :
          inbox' = Append(inbox, [id |-> Len(inbox) + 1, kind |-> t.kind, chat |-> t.chat, n |-> t.n,
                                  date |-> (IF inbox = << >> THEN 0 ELSE Last(inbox).date) + s])
    BY DEF Send
  <2>2. (IF inbox = << >> THEN 0 ELSE Last(inbox).date) \in Nat
    <3>1. CASE inbox # << >>
      <4>1. inbox \in Seq(Update)
        BY DEF LapInv, Flow
      <4>2. Len(inbox) \in DOMAIN inbox
        BY <3>1, <4>1, EmptySeq
      <4>3. inbox[Len(inbox)] \in Update
        BY <4>1, <4>2
      <4> QED
        BY <3>1, <4>3 DEF Last, Update
    <3> QED
      BY <3>1
  <2> QED
    BY <2>1, <2>2
<1>3. inbox \in Seq(Update) /\ Len(inbox) \in Nat /\ DOMAIN inbox = 1 .. Len(inbox)
  BY DEF LapInv, Flow
<1>4. PICK u \in Update : inbox' = Append(inbox, u) /\ u.id = Len(inbox) + 1
  <2>1. s \in Nat /\ t.kind \in Kinds /\ t.n \in Nat
    BY LapAssumption
  <2>2. [id |-> Len(inbox) + 1, kind |-> t.kind, chat |-> t.chat, n |-> t.n, date |-> now + s] \in Update
    BY <1>3, <2>1 DEF Update
  <2> QED
    BY <1>2, <2>2
<1>5. /\ inbox' \in Seq(Update) /\ Len(inbox') = Len(inbox) + 1
      /\ \A k \in DOMAIN inbox' : inbox'[k].id = k
  <2>1. /\ inbox' \in Seq(Update) /\ Len(inbox') = Len(inbox) + 1 /\ DOMAIN inbox' = 1 .. Len(inbox) + 1
        /\ \A k \in 1 .. Len(inbox) : inbox'[k] = inbox[k]
        /\ inbox'[Len(inbox) + 1] = u
    BY <1>3, <1>4, AppendProperties
  <2>2. \A k \in 1 .. Len(inbox) + 1 : k \in 1 .. Len(inbox) \/ k = Len(inbox) + 1
    BY <1>3
  <2>3. \A k \in 1 .. Len(inbox) : inbox[k].id = k
    BY <1>3 DEF LapInv, Flow
  <2> QED
    BY <1>4, <2>1, <2>2, <2>3
<1>6. Flow'
  <2>1. saved \in 1 .. Len(inbox') + 1 /\ offset \in saved .. Len(inbox') + 1
    BY <1>1, <1>3, <1>5 DEF LapInv, Flow
  <2> QED
    BY <1>1, <1>5, <2>1 DEF LapInv, Flow
<1>7. Batch' = {} /\ ToCome' = {} /\ Kept' = {}
  BY <1>1 DEF Batch, ToCome, Kept
<1>8. Sifted' /\ Deduped' /\ Walked'
  BY <1>1, <1>7 DEF Sifted, Deduped, Walked
<1>9. Queued'
  BY <1>1, QueuedFrame DEF LapInv
<1> QED
  BY <1>6, <1>8, <1>9 DEF LapInv

(* The key clears the oldest page, under the nose of the walk too. *)
LEMMA PopKeepsLap ==
  ASSUME LapInv, Pop
  PROVE  LapInv'
<1>1. /\ queue # << >> /\ queue' = Tail(queue)
      /\ UNCHANGED <<inbox, offset, saved, pc, msgs, queries, count, i, kept, window, back, listing,
                     crashes>>
  BY DEF Pop, batch, loop, walk
<1>2. Flow'
  BY <1>1 DEF LapInv, Flow
<1>3. Batch' = Batch /\ ToCome' = ToCome /\ Kept' = Kept /\ AsksToCome' = AsksToCome
      /\ AsksKept' = AsksKept
  BY <1>1 DEF Batch, ToCome, Kept, AsksToCome, AsksKept
<1>4. Sifted' /\ Deduped'
  BY <1>1, <1>3, SiftedFrame, DedupedFrame DEF LapInv
<1>5. PICK n \in Nat :
        /\ Len(queue) = n + 1 /\ DOMAIN queue = 1 .. n + 1
        /\ queue' \in Seq(Int \X Nat) /\ Len(queue') = n /\ DOMAIN queue' = 1 .. n
        /\ \A k \in 1 .. n : queue'[k] = queue[k + 1]
  <2>1. PICK n \in Nat : Len(queue) = n + 1
    <3>1. \A l \in Nat \ {0} : \E n \in Nat : l = n + 1
      <4>1. \A l \in Nat \ {0} : l - 1 \in Nat /\ l = (l - 1) + 1
        OBVIOUS
      <4> QED
        BY <4>1
    <3> QED
      BY <1>1, <3>1, TailIs
  <2>2. n + 1 - 1 = n
    OBVIOUS
  <2>3. /\ queue' \in Seq(Int \X Nat) /\ Len(queue') = n
        /\ \A k \in 1 .. n : queue'[k] = queue[k + 1]
    BY <1>1, <2>1, <2>2, TailIs
  <2> QED
    BY <1>1, <2>1, <2>3, TailIs
<1>6. \A k \in 1 .. n : k + 1 \in 1 .. n + 1
  OBVIOUS
<1>7. Queued'
  <2>1. Len(queue') <= Capacity /\ crashes \in Nat
    BY <1>5, LapAssumption DEF LapInv, Queued
  <2>2. \A j, k \in 1 .. n : queue'[j] = queue'[k] => j = k
    <3> SUFFICES ASSUME NEW j \in 1 .. n, NEW k \in 1 .. n, queue'[j] = queue'[k] PROVE j = k
      OBVIOUS
    <3>1. PICK x \in 1 .. n + 1, y \in 1 .. n + 1 :
            x = j + 1 /\ y = k + 1 /\ queue[x] = queue[y]
      BY <1>5, <1>6
    <3>2. x = y
      BY <1>5, <3>1 DEF LapInv, Queued
    <3> QED
      BY <3>1, <3>2
  <2>3. ASSUME NEW k \in 1 .. n
        PROVE  \/ queue'[k][2] < crashes
               \/ queue'[k][2] = crashes /\ queue'[k][1] < saved
               \/ pc = "push" /\ \E j \in 1 .. i - 1 : queue'[k] = <<msgs[j].id, crashes>>
    <3>1. PICK l \in DOMAIN queue : queue'[k] = queue[l]
      BY <1>5, <1>6
    <3> QED
      BY <3>1 DEF LapInv, Queued
  <2> QED
    BY <1>1, <1>5, <2>1, <2>2, <2>3 DEF Queued
<1>8. Walked'
  <2> SUFFICES ASSUME pc = "last" PROVE Walked'
    BY <1>1 DEF Walked
  <2>1. /\ window \in Seq(Int \X Nat) /\ back \in -1 .. Len(window) - 1 /\ Len(window) \in Nat
        /\ \A b \in 0 .. Len(window) - 1 : b < n + 1 => queue[n + 1 - b] = window[Len(window) - b]
        /\ \A b \in back + 1 .. Len(window) - 1 :
             b < n + 1 => window[Len(window) - b] \in ToSet(listing)
    <3>1. window \in Seq(Int \X Nat) /\ back \in -1 .. Len(window) - 1
      BY DEF LapInv, Walked
    <3>2. \A b \in 0 .. Len(window) - 1 : b < n + 1 => queue[n + 1 - b] = window[Len(window) - b]
      <4>1. Len(queue) = n + 1
        BY <1>5
      <4>2. \A b \in 0 .. Len(window) - 1 :
              b < Len(queue) => queue[Len(queue) - b] = window[Len(window) - b]
        BY Zenon DEF LapInv, Walked
      <4> QED
        BY <4>1, <4>2
    <3>3. \A b \in back + 1 .. Len(window) - 1 :
            b < n + 1 => window[Len(window) - b] \in ToSet(listing)
      BY <1>5, Zenon DEF LapInv, Walked
    <3>4. Len(window) \in Nat
      BY <3>1
    <3> QED
      BY <3>1, <3>2, <3>3, <3>4, Zenon
  <2>2. ASSUME NEW b \in 0 .. Len(window) - 1, b < n PROVE queue'[n - b] = window[Len(window) - b]
    <3>1. PICK k \in 1 .. n : k = n - b /\ k + 1 = n + 1 - b
      <4>1. n - b \in 1 .. n /\ n - b + 1 = n + 1 - b
        BY <2>1, <2>2
      <4> QED
        BY <4>1
    <3>2. b < n + 1
      BY <2>1, <2>2
    <3> QED
      BY <1>5, <2>1, <3>1, <3>2
  <2>3. ASSUME NEW b \in back + 1 .. Len(window) - 1, b < n
        PROVE  window[Len(window) - b] \in ToSet(listing)
    <3>1. b < n + 1
      BY <2>1, <2>3
    <3> QED
      BY <2>1, <3>1
  <2> QED
    BY <1>1, <1>5, <2>1, <2>2, <2>3 DEF LapInv, Walked
<1> QED
  BY <1>2, <1>4, <1>7, <1>8 DEF LapInv

LEMMA LapInvInit == Init => LapInv
<1> SUFFICES ASSUME Init PROVE LapInv
  OBVIOUS
<1>1. /\ inbox = << >> /\ offset = 1 /\ saved = 1 /\ pc = "poll" /\ msgs = << >> /\ queries = << >>
      /\ count = 0 /\ i = 1 /\ kept = 0 /\ crashes = 0
      /\ queue = [k \in 1 .. Waiting |-> <<k - Waiting, 0>>]
  BY DEF Init
<1>2. Flow
  <2>1. << >> \in Seq(Update) /\ Len(<< >>) = 0 /\ DOMAIN << >> = {} /\ 1 \in 1 .. 0 + 1
        /\ 0 \in 0 .. 1 - 1
    OBVIOUS
  <2> QED
    BY <1>1, <2>1 DEF Flow
<1>3. Batch = {} /\ ToCome = {} /\ Kept = {}
  BY <1>1 DEF Batch, ToCome, Kept
<1>4. Sifted /\ Deduped /\ Walked
  BY <1>1, <1>3 DEF Sifted, Deduped, Walked
<1>5. Queued
  <2>1. Waiting \in Nat /\ Waiting <= Capacity
    BY LapAssumption
  <2>2. \A k \in 1 .. Waiting : k - Waiting \in Int /\ k - Waiting < 1
    BY <2>1
  <2>3. \A k \in 1 .. Waiting : queue[k] = <<k - Waiting, 0>> /\ queue[k] \in Int \X Nat
    BY <1>1, <2>2
  <2>4. queue \in Seq(Int \X Nat) /\ Len(queue) = Waiting /\ DOMAIN queue = 1 .. Waiting
    <3>1. queue \in [1 .. Waiting -> Int \X Nat] /\ DOMAIN queue = 1 .. Waiting
      BY <1>1, <2>3
    <3> QED
      BY <2>1, <3>1
  <2>5. \A j, k \in 1 .. Waiting : queue[j] = queue[k] => j = k
    <3> SUFFICES ASSUME NEW j \in 1 .. Waiting, NEW k \in 1 .. Waiting, queue[j] = queue[k]
                 PROVE  j = k
      OBVIOUS
    <3>1. j - Waiting = k - Waiting
      BY <2>3
    <3> QED
      BY <2>1, <3>1
  <2>6. \A k \in 1 .. Waiting : queue[k][2] = crashes /\ queue[k][1] < saved
    BY <1>1, <2>2, <2>3
  <2>7. crashes \in Nat
    BY <1>1
  <2> QED
    BY <2>1, <2>4, <2>5, <2>6, <2>7 DEF Queued
<1> QED
  BY <1>2, <1>4, <1>5 DEF LapInv

LEMMA LapInvStep == LapInv /\ [Next]_vars => LapInv'
<1> SUFFICES ASSUME LapInv, [Next]_vars PROVE LapInv'
  OBVIOUS
<1>1. CASE UNCHANGED vars
  <2>1. UNCHANGED <<inbox, offset, saved, pc, msgs, queries, count, i, kept, queue, window, back,
                    listing, crashes>>
    BY <1>1 DEF vars, batch, loop, walk
  <2>2. Flow'
    BY <2>1 DEF LapInv, Flow
  <2>3. Batch' = Batch /\ ToCome' = ToCome /\ Kept' = Kept /\ AsksToCome' = AsksToCome
        /\ AsksKept' = AsksKept
    BY <2>1 DEF Batch, ToCome, Kept, AsksToCome, AsksKept
  <2>4. Sifted' /\ Deduped'
    BY <2>1, <2>3, SiftedFrame, DedupedFrame DEF LapInv
  <2>5. Queued' /\ Walked'
    BY <2>1 DEF LapInv, Queued, Walked
  <2> QED
    BY <2>2, <2>4, <2>5 DEF LapInv
<1>2. CASE Send \/ Pop \/ Crash \/ Boot
  BY <1>2, SendKeepsLap, PopKeepsLap, CrashKeepsLap, BootKeepsLap
<1>3. CASE LapStep
  BY <1>1, <1>3, PollKeepsLap, NotesKeepLap, DedupeKeepsLap, AnswerInlineKeepsLap, KeepPageKeepsLap,
     AnswersKeepLap, BeginLastKeepsLap, ListPageKeepsLap, FilteredKeepsLap, PushKeepsLap,
     SaveKeepsLap DEF LapStep, QuietPoll
<1> QED
  BY <1>1, <1>2, <1>3 DEF Next

(* Wherever the lap is, its arrays hold what their loops have done so far,  *)
(* the queue no page twice, and the walk of /last what still waits.         *)
THEOREM LapInvariant == Spec => []LapInv
<1> QED
  BY LapInvInit, LapInvStep, PTL DEF Spec

(* /last lists the newest pages in order and leaves out only what the key   *)
(* cleared while it walked the queue.                                       *)
THEOREM LapLastFaithful == Spec => []LastFaithful
<1>1. LapInv => LastFaithful
  <2> SUFFICES ASSUME LapInv, pc = "last", back < 0
               PROVE  /\ Sublist(listing, window)
                      /\ ToSet(window) \cap ToSet(queue) \subseteq ToSet(listing)
    BY DEF LastFaithful
  <2>1. PICK w \in Nat, q \in Nat :
          /\ w = Len(window) /\ DOMAIN window = 1 .. w
          /\ q = Len(queue) /\ DOMAIN queue = 1 .. q
    BY DEF LapInv, Walked, Queued
  <2>2. /\ back = -1
        /\ \A j, k \in 1 .. w : window[j] = window[k] => j = k
        /\ \A b \in 0 .. w - 1 : b < q => queue[q - b] = window[w - b]
        /\ \A b \in back + 1 .. w - 1 : b < q => window[w - b] \in ToSet(listing)
    <3>1. /\ back \in -1 .. w - 1
          /\ \A j, k \in 1 .. w : window[j] = window[k] => j = k
      BY <2>1 DEF LapInv, Walked
    <3>2. \A b \in 0 .. w - 1 : b < q => queue[q - b] = window[w - b]
      BY <2>1, Zenon DEF LapInv, Walked
    <3>3. \A b \in back + 1 .. w - 1 : b < q => window[w - b] \in ToSet(listing)
      BY <2>1, Zenon DEF LapInv, Walked
    <3> QED
      BY <3>1, <3>2, <3>3
  <2>3. PICK f \in [DOMAIN listing -> 1 .. w - back - 1] :
          /\ \A k \in DOMAIN listing : listing[k] = window[f[k]]
          /\ \A j, k \in DOMAIN listing : j < k => f[j] < f[k]
    BY <2>1 DEF LapInv, Walked
  <2>4. Sublist(listing, window)
    <3>1. w - back - 1 = w
      BY <2>2
    <3> QED
      BY <2>1, <2>3, <3>1 DEF Sublist
  <2>5. ASSUME NEW x \in ToSet(window), x \in ToSet(queue) PROVE x \in ToSet(listing)
    <3>1. PICK a \in 1 .. w, c \in 1 .. q : x = window[a] /\ x = queue[c]
      BY <2>1, <2>5 DEF ToSet
    <3>2. PICK b \in 0 .. w - 1, d \in 0 .. q - 1 :
            b = w - a /\ w - b = a /\ d = q - c /\ q - d = c /\ d < q
      <4>1. w - a \in 0 .. w - 1 /\ w - (w - a) = a /\ q - c \in 0 .. q - 1 /\ q - (q - c) = c
            /\ q - c < q
        OBVIOUS
      <4> QED
        BY <4>1
    <3>3. CASE b < q
      <4>1. b \in back + 1 .. w - 1
        BY <2>2
      <4> QED
        BY <2>2, <3>1, <3>2, <3>3, <4>1
    <3>4. CASE ~ (b < q)
      <4>1. d \in 0 .. w - 1
        BY <3>4
      <4>2. window[w - d] = window[a]
        BY <2>2, <3>1, <3>2, <4>1
      <4>3. PICK e \in 1 .. w : e = w - d
        BY <4>1
      <4>4. e = a
        BY <2>2, <4>2, <4>3
      <4> QED
        BY <3>2, <3>4, <4>3, <4>4
    <3> QED
      BY <3>3, <3>4
  <2> QED
    BY <2>4, <2>5
<1> QED
  BY <1>1, LapInvariant, PTL

(* What is left to page is every page of the poll, in order and stripped.   *)
THEOREM LapBatchSorted == Spec => []BatchSorted
<1>1. LapInv => BatchSorted
  <2> DEFINE Pages == {v \in Updates : ~ IsQuery(v) /\ IsPage(v)}
  <2> SUFFICES ASSUME LapInv, pc = "filter", i > count
               PROVE  Lists(msgs, kept, {Stripped(u) : u \in Pages})
    BY DEF BatchSorted
  <2>1. Batch = saved .. offset - 1 /\ Kept = 1 .. kept
    BY DEF Batch, Kept
  <2>2. ToCome = {}
    BY DEF ToCome, LapInv, Flow
  <2>3. \A k \in 1 .. kept : \E u \in Pages : msgs[k] = Stripped(u)
    BY <2>1 DEF LapInv, Sifted, Updates
  <2>4. \A u \in Pages : \E k \in 1 .. kept : msgs[k] = Stripped(u)
    <3> SUFFICES ASSUME NEW m \in Batch, ~ IsQuery(inbox[m]), IsPage(inbox[m])
                 PROVE  \E k \in 1 .. kept : msgs[k] = Stripped(inbox[m])
      BY <2>1 DEF Updates
    <3>1. PICK k \in 1 .. kept : msgs[k].id = m
      BY <2>1, <2>2 DEF LapInv, Sifted
    <3> QED
      BY <2>1, <3>1 DEF LapInv, Sifted
  <2>5. \A j, k \in 1 .. kept : j < k => msgs[j].id < msgs[k].id
    BY <2>1 DEF LapInv, Sifted
  <2> HIDE DEF Pages
  <2> QED
    BY <2>3, <2>4, <2>5 DEF Lists
<1> QED
  BY <1>1, LapInvariant, PTL

(* Of the queries of one user the last is answered, and no other.           *)
THEOREM LapLatestQueries == Spec => []LatestQueries
<1>1. LapInv => LatestQueries
  <2> DEFINE Due == {u \in Updates : IsQuery(u) /\
                         \A w \in Updates : IsQuery(w) /\ w.chat = u.chat => w.id <= u.id}
  <2> SUFFICES ASSUME LapInv, pc = "dedupe", i > count
               PROVE  Lists(queries, kept, Due)
    BY DEF LatestQueries
  <2>1. Batch = saved .. offset - 1 /\ AsksKept = 1 .. kept
    BY DEF Batch, AsksKept
  <2>2. AsksToCome = {}
    BY DEF AsksToCome, LapInv, Flow
  <2>3. \A m \in Batch : inbox[m] \in Updates /\ inbox[m].id = m
    <3>1. Batch \subseteq DOMAIN inbox
      BY <2>1 DEF LapInv, Flow
    <3> QED
      BY <2>1, <3>1 DEF Updates, LapInv, Flow
  <2>4. \A u \in Updates : \E m \in Batch : u = inbox[m]
    BY <2>1 DEF Updates
  <2>5. \A m \in Batch : IsQuery(inbox[m]) => (Latest(m) <=> inbox[m] \in Due)
    BY <2>3, <2>4 DEF Latest
  <2> HIDE DEF Due
  <2>6. \A k \in 1 .. kept : queries[k] \in Due
    BY <2>1, <2>5 DEF LapInv, Deduped
  <2>7. \A u \in Due : \E k \in 1 .. kept : queries[k] = u
    <3> SUFFICES ASSUME NEW m \in Batch, inbox[m] \in Due
                 PROVE  \E k \in 1 .. kept : queries[k] = inbox[m]
      BY <2>4 DEF Due
    <3>1. IsQuery(inbox[m]) /\ Latest(m)
      BY <2>5 DEF Due
    <3>2. PICK k \in 1 .. kept : queries[k].id = m
      BY <2>1, <2>2, <3>1 DEF LapInv, Deduped
    <3> QED
      BY <2>1, <3>2 DEF LapInv, Deduped
  <2>8. \A j, k \in 1 .. kept : j < k => queries[j].id < queries[k].id
    BY <2>1 DEF LapInv, Deduped
  <2> QED
    BY <2>6, <2>7, <2>8 DEF Lists
<1> QED
  BY <1>1, LapInvariant, PTL

-----------------------------------------------------------------------------
(* A set of numbers has a smallest. *)
LEMMA SmallestIs ==
  ASSUME NEW T \in SUBSET Nat, T # {}
  PROVE  \E x \in T : \A y \in T : x <= y
<1> DEFINE R == OpToRel(<, Nat)
<1>1. IsWellFoundedOn(R, Nat)
  BY NatLessThanWellFounded
<1>2. \A x, y \in Nat : <<y, x>> \in R <=> y < x
  BY DEF OpToRel
<1> HIDE DEF R
<1>3. PICK x \in T : \A y \in T : ~ (<<y, x>> \in R)
  BY <1>1, WFMin
<1>4. ASSUME NEW y \in T PROVE x <= y
  <2>1. x \in Nat /\ y \in Nat
    OBVIOUS
  <2>2. ~ (y < x)
    BY <1>2, <1>3, <2>1, Zenon
  <2> QED
    BY <2>1, <2>2
<1> QED
  BY <1>4

(* The entry a full table gives up has a stamp no later than any other. *)
LEMMA LeastRecentIs ==
  ASSUME TableInv, Stamped, DOMAIN contacts # {}
  PROVE  /\ LeastRecent \in DOMAIN contacts
         /\ \A k \in DOMAIN contacts : contacts[LeastRecent].seen <= contacts[k].seen
<1>1. PICK n \in Nat : DOMAIN contacts = 1 .. n
  BY TableShape, ContactsAssumption DEF TableInv
<1>2. \A k \in 1 .. n : contacts[k].seen \in Nat
  BY <1>1 DEF Stamped, StampsReal
<1>3. PICK s \in {contacts[k].seen : k \in 1 .. n} : \A k \in 1 .. n : s <= contacts[k].seen
  <2> DEFINE S == {contacts[k].seen : k \in 1 .. n}
  <2>1. S \in SUBSET Nat /\ S # {}
    BY <1>1, <1>2
  <2>2. \E s \in S : \A t \in S : s <= t
    <3> HIDE DEF S
    <3> QED
      BY <2>1, SmallestIs
  <2> QED
    BY <2>2
<1>4. s \in Nat
  BY <1>2
<1>5. PICK m \in {k \in 1 .. n : contacts[k].seen = s} :
        \A k \in {l \in 1 .. n : contacts[l].seen = s} : m <= k
  <2> DEFINE S == {k \in 1 .. n : contacts[k].seen = s}
  <2>1. S \in SUBSET Nat /\ S # {}
    BY <1>3
  <2>2. \E m \in S : \A k \in S : m <= k
    <3> HIDE DEF S
    <3> QED
      BY <2>1, SmallestIs
  <2> QED
    BY <2>2
<1> DEFINE First(j) == \A k \in DOMAIN contacts :
             contacts[j].seen < contacts[k].seen \/ (contacts[j].seen = contacts[k].seen /\ j <= k)
<1>6. m \in DOMAIN contacts /\ First(m)
  <2> SUFFICES ASSUME NEW k \in 1 .. n
               PROVE  contacts[m].seen < contacts[k].seen \/ (contacts[m].seen = contacts[k].seen /\ m <= k)
    BY <1>1
  <2>1. contacts[m].seen = s /\ s <= contacts[k].seen /\ contacts[k].seen \in Nat
    BY <1>2, <1>3
  <2>2. CASE contacts[k].seen = s
    BY <1>5, <2>1, <2>2
  <2>3. CASE contacts[k].seen # s
    BY <1>4, <2>1, <2>3
  <2> QED
    BY <2>2, <2>3
<1>7. LeastRecent \in DOMAIN contacts /\ First(LeastRecent)
  <2>1. LeastRecent = CHOOSE j \in DOMAIN contacts : First(j)
    BY DEF LeastRecent
  <2> HIDE DEF First
  <2> QED
    BY <1>6, <2>1
<1>8. ASSUME NEW k \in DOMAIN contacts PROVE contacts[LeastRecent].seen <= contacts[k].seen
  <2>1. PICK a \in Nat, b \in Nat : a = contacts[LeastRecent].seen /\ b = contacts[k].seen
    BY <1>1, <1>2, <1>7
  <2>2. a < b \/ a = b
    BY <1>7, <2>1
  <2>3. a <= b
    BY <2>2
  <2> QED
    BY <2>1, <2>3
<1> QED
  BY <1>7, <1>8

-----------------------------------------------------------------------------
(* What the device is done with.                                            *)
Bounded ==
  /\ Horizon \in Nat /\ saved \in Nat /\ 1 <= saved /\ saved <= Horizon
  /\ pc # "reset" => offset \in Nat /\ saved <= offset /\ Horizon <= offset
  /\ \A k \in 1 .. Horizon - 1 : k \in DOMAIN inbox /\ inbox[k].date \in Nat

LEMMA HorizonIs == LapInv => Bounded
<1> SUFFICES ASSUME LapInv PROVE Bounded
  OBVIOUS
<1>1. /\ inbox \in Seq(Update) /\ Len(inbox) \in Nat /\ saved \in 1 .. Len(inbox) + 1
      /\ pc # "reset" => offset \in saved .. Len(inbox) + 1
      /\ pc = "note" => count = Len(msgs)
      /\ count \in Nat /\ i \in 1 .. count + 1
      /\ \A k \in ToCome : msgs[k].id \in Batch
  BY DEF LapInv, Flow, Sifted
<1>0. \A k \in 1 .. Len(inbox) : k \in DOMAIN inbox /\ inbox[k].date \in Nat
  <2> SUFFICES ASSUME NEW k \in 1 .. Len(inbox) PROVE k \in DOMAIN inbox /\ inbox[k].date \in Nat
    OBVIOUS
  <2>1. k \in DOMAIN inbox /\ inbox[k] \in Update
    BY <1>1
  <2> QED
    BY <2>1 DEF Update
<1>2. CASE pc = "note" /\ i <= count
  <2>1. i \in ToCome /\ Batch = saved .. offset - 1
    BY <1>1, <1>2 DEF ToCome, Batch
  <2>2. Horizon = msgs[i].id /\ msgs[i].id \in saved .. offset - 1
    BY <1>1, <1>2, <2>1 DEF Horizon
  <2> QED
    BY <1>0, <1>1, <1>2, <2>2 DEF Bounded
<1>3. CASE ~ (pc = "note" /\ i <= count)
  <2>1. Horizon = saved \/ (pc # "reset" /\ Horizon = offset)
    BY <1>3 DEF Horizon
  <2>2. pc # "reset" => Horizon <= offset
    BY <1>1, <2>1
  <2>3. Horizon \in Nat /\ saved <= Horizon /\ Horizon <= Len(inbox) + 1
    BY <1>1, <2>1
  <2> QED
    BY <1>0, <1>1, <2>2, <2>3 DEF Bounded
<1> QED
  BY <1>2, <1>3

LEMMA HorizonNext == LapInv' => Bounded'
<1> QED
  BY HorizonIs, PTL

(* A poll puts every message of its answer where its sender will be noted.  *)
LEMMA PollBrings ==
  ASSUME LapInv, Poll
  PROVE  /\ ToNote' /\ inbox' = inbox /\ saved' = saved /\ Horizon = saved
         /\ pc' = "note" /\ i' = 1 /\ count' = Len(msgs') /\ Len(msgs') \in Nat
         /\ \A j, k \in 1 .. Len(msgs') : j < k => msgs'[j].id < msgs'[k].id
<1>1. /\ pc = "poll" /\ pc' = "note" /\ i' = 1 /\ count' = Len(msgs')
      /\ Answer # {} /\ offset' = LastSeen + 1
      /\ msgs' \in Those({k \in Answer : ~ IsQuery(inbox[k])})
      /\ UNCHANGED <<inbox, saved>>
  BY DEF Poll, Start
<1>2. Len(inbox) \in Nat /\ saved \in 1 .. Len(inbox) + 1 /\ offset = saved
  BY <1>1 DEF LapInv, Flow
<1>3. LastSeen \in Int /\ offset <= LastSeen /\ LastSeen <= Len(inbox)
  BY <1>1, <1>2, LapAssumption DEF Answer, LastSeen
<1>4. saved .. LastSeen = Answer /\ Answer \subseteq 1 .. Len(inbox)
  BY <1>2, <1>3 DEF Answer
<1> DEFINE Told == {k \in Answer : ~ IsQuery(inbox[k])}
<1>5. /\ Len(msgs') \in Nat
      /\ \A m \in Told : \E k \in 1 .. Len(msgs') : msgs'[k].id = m
      /\ \A j, k \in 1 .. Len(msgs') : j < k => msgs'[j].id < msgs'[k].id
  <2>1. Told \in SUBSET (1 .. Len(inbox)) /\ msgs' \in Those(Told)
    BY <1>1, <1>4
  <2> HIDE DEF Told
  <2> QED
    BY <2>1, ThoseIs DEF LapInv
<1>6. saved' .. offset' - 1 = Answer
  BY <1>1, <1>2, <1>3, <1>4
<1>7. ToNote'
  <2> SUFFICES ASSUME NEW m \in Answer, ~ IsQuery(inbox[m])
               PROVE  \E k \in 1 .. count' : msgs'[k].id = m
    BY <1>1, <1>6, Zenon DEF ToNote, IsQuery
  <2>1. m \in Told
    OBVIOUS
  <2> QED
    BY <1>1, <1>5, <2>1
<1> QED
  BY <1>1, <1>5, <1>7 DEF Horizon

(* Noting the sender of a message is all it takes to be done with it, and no *)
(* message done with is later.                                               *)
LEMMA NotedHeard ==
  ASSUME LapInv, LapInv', Stamped, NoteSender
  PROVE  /\ \A u \in Heard' : u \in Heard \/ u = msgs[i]
         /\ \A u \in Heard' : u.date \in Nat /\ u.date <= msgs[i].date
<1>1. /\ pc = "note" /\ i <= count /\ pc' = "note" /\ i' = i + 1
      /\ UNCHANGED <<inbox, offset, saved, msgs, count>>
  BY DEF NoteSender, batch
<1>2. /\ count = Len(msgs) /\ count \in Nat /\ i \in 1 .. count + 1
      /\ \A k \in 1 .. count : msgs[k].id \in saved .. offset - 1 /\ msgs[k] = inbox[msgs[k].id]
      /\ \A j, k \in 1 .. count : j < k => msgs[j].id < msgs[k].id
  <2>1. count = Len(msgs) /\ count \in Nat /\ i \in 1 .. count + 1
    BY <1>1 DEF LapInv, Flow
  <2>2. ToCome = 1 .. count /\ Batch = saved .. offset - 1
    BY <1>1, <2>1 DEF ToCome, Batch
  <2> QED
    BY <2>1, <2>2 DEF LapInv, Sifted
<1>3. /\ saved \in Nat /\ offset \in Nat
      /\ Horizon = msgs[i].id /\ Horizon \in Nat
      /\ Horizon' = IF i + 1 <= count THEN msgs[i + 1].id ELSE offset
  BY <1>1, <1>2, HorizonIs DEF Horizon, Bounded
<1>4. /\ Horizon' \in Nat
      /\ \A k \in 1 .. Horizon' - 1 : k \in DOMAIN inbox /\ inbox[k].date \in Nat
  <2>1. /\ Horizon' \in Nat
        /\ \A k \in 1 .. Horizon' - 1 : k \in DOMAIN inbox' /\ inbox'[k].date \in Nat
    BY HorizonNext DEF Bounded
  <2> QED
    BY <1>1, <2>1
<1>5. Horizon \in DOMAIN inbox
  <2>1. PICK h \in Nat : h = Horizon'
    BY <1>4
  <2>2. Horizon < h
    <3>1. i \in 1 .. count /\ msgs[i].id < offset
      BY <1>1, <1>2, <1>3
    <3>2. CASE i + 1 <= count
      BY <1>2, <1>3, <2>1, <3>1, <3>2
    <3>3. CASE ~ (i + 1 <= count)
      BY <1>3, <2>1, <3>1, <3>3
    <3> QED
      BY <3>2, <3>3
  <2>3. 1 <= Horizon
    BY <1>3, HorizonIs DEF Bounded
  <2> QED
    BY <1>3, <1>4, <2>1, <2>2, <2>3
<1>6. ASSUME NEW k \in 1 .. Horizon' - 1, ~ IsQuery(inbox[k]), k > Horizon PROVE FALSE
  <2>1. PICK h \in Nat : h = Horizon' /\ k < h /\ h <= offset
    <3>1. PICK h \in Nat : h = Horizon'
      BY <1>4
    <3>2. CASE i + 1 <= count
      <4>1. i + 1 \in 1 .. count
        BY <1>2, <3>2
      <4>2. msgs[i + 1].id \in saved .. offset - 1 /\ h = msgs[i + 1].id
        BY <1>2, <1>3, <3>1, <3>2, <4>1
      <4> QED
        BY <1>3, <1>6, <3>1, <4>2
    <3>3. CASE ~ (i + 1 <= count)
      BY <1>3, <1>6, <3>1, <3>3
    <3> QED
      BY <3>2, <3>3
  <2>2. k \in saved .. offset - 1
    <3>1. saved <= Horizon
      BY HorizonIs DEF Bounded
    <3>2. k \in Nat /\ saved <= k /\ k < offset
      BY <1>3, <1>4, <1>6, <2>1, <3>1
    <3> QED
      BY <1>3, <3>2
  <2>3. PICK j \in 1 .. count : msgs[j].id = k
    BY <1>1, <1>6, <2>2 DEF Stamped, ToNote
  <2>4. j = i \/ j < i \/ j > i
    BY <1>2
  <2>5. j # i /\ ~ (j < i)
    BY <1>1, <1>2, <1>3, <1>6, <2>3
  <2>6. i + 1 <= count /\ (j = i + 1 \/ i + 1 < j)
    BY <1>2, <2>4, <2>5
  <2>7. msgs[i + 1].id <= k
    BY <1>2, <2>3, <2>6
  <2> QED
    BY <1>3, <2>1, <2>6, <2>7
<1>7. ASSUME NEW k \in 1 .. Horizon' - 1, ~ IsQuery(inbox[k]), inbox[k].chat # NoChat
      PROVE  /\ inbox[k] \in Heard \/ inbox[k] = msgs[i]
             /\ inbox[k].date <= msgs[i].date
  <2>1. k <= Horizon
    BY <1>3, <1>4, <1>6, <1>7
  <2>2. msgs[i] = inbox[Horizon]
    BY <1>1, <1>2, <1>3
  <2>3. inbox[k].date <= inbox[Horizon].date
    BY <1>4, <1>5, <2>1 DEF Stamped, Dated
  <2>4. CASE k = Horizon
    BY <2>2, <2>3, <2>4
  <2>5. CASE k < Horizon
    <3>1. k \in 1 .. Horizon - 1
      BY <1>3, <1>4, <2>5
    <3> QED
      BY <1>7, <2>2, <2>3, <3>1 DEF Heard
  <2> QED
    BY <1>3, <1>4, <2>1, <2>4, <2>5
<1>8. ASSUME NEW u \in Heard'
      PROVE  \E k \in 1 .. Horizon' - 1 : u = inbox[k] /\ ~ IsQuery(inbox[k]) /\ inbox[k].chat # NoChat
  BY <1>1, Zenon DEF Heard, IsQuery
<1> QED
  BY <1>4, <1>7, <1>8

(* Nothing but noting a sender adds to it, and updates keep their order.    *)
LEMMA HeardFrame ==
  ASSUME UNCHANGED inbox, Horizon' \in Nat, Horizon \in Nat,
         \A k \in 1 .. Horizon' - 1 : ~ IsQuery(inbox[k]) => k < Horizon
  PROVE  Heard' \subseteq Heard
<1> SUFFICES ASSUME NEW u \in Heard' PROVE u \in Heard
  OBVIOUS
<1>1. PICK k \in 1 .. Horizon' - 1 : u = inbox[k] /\ ~ IsQuery(inbox[k]) /\ inbox[k].chat # NoChat
  BY Zenon DEF Heard, IsQuery
<1>2. k \in 1 .. Horizon - 1
  <2>1. PICK h \in Nat, g \in Nat : h = Horizon' /\ g = Horizon
    OBVIOUS
  <2>2. k \in 1 .. h - 1 /\ k < g
    BY <1>1, <2>1
  <2> QED
    BY <2>1, <2>2
<1> QED
  BY <1>1, <1>2 DEF Heard

LEMMA HeardSteps ==
  ASSUME LapInv, LapInv', Stamped, [Next]_vars, ~ NoteSender
  PROVE  Heard' \subseteq Heard /\ Dated' /\ ToNote'
<1>1. Horizon \in Nat /\ Horizon' \in Nat
  BY HorizonIs, HorizonNext DEF Bounded
<1>2. CASE Send
  <2>1. /\ pc = "poll" /\ pc' = "poll" /\ saved' = saved
        /\ \E r : /\ inbox' = Append(inbox, r)
                  /\ r.date >= IF inbox = << >> THEN 0 ELSE Last(inbox).date
    <3>1. \A s \in Steps : s \in Nat
      BY LapAssumption
    <3>2. inbox # << >> => Last(inbox).date \in Nat
      <4>1. inbox # << >> => inbox[Len(inbox)] \in Update
        BY DEF LapInv, Flow
      <4> QED
        BY <4>1 DEF Update, Last
    <3> QED
      BY <1>2, <3>1, <3>2 DEF Send
  <2>2. PICK r : /\ inbox' = Append(inbox, r)
                 /\ r.date >= IF inbox = << >> THEN 0 ELSE Last(inbox).date
    BY <2>1
  <2>3. PICK n \in Nat : n = Len(inbox) /\ DOMAIN inbox = 1 .. n
    BY DEF LapInv, Flow
  <2>4. /\ DOMAIN inbox' = 1 .. n + 1 /\ \A k \in 1 .. n : inbox'[k] = inbox[k]
        /\ inbox'[n + 1] = r
    <3>1. inbox' \in Seq(Update) /\ Len(inbox') \in Nat
      BY DEF LapInv, Flow
    <3> QED
      BY <2>2, <2>3 DEF LapInv, Flow
  <2>5. \A k \in 1 .. n : inbox[k].date \in Nat
    <3>1. \A k \in 1 .. n : inbox[k] \in Update
      BY <2>3 DEF LapInv, Flow
    <3> QED
      BY <3>1 DEF Update
  <2>6. Dated'
    <3> SUFFICES ASSUME NEW j \in 1 .. n + 1, NEW k \in 1 .. n + 1, j <= k
                 PROVE  inbox'[j].date <= inbox'[k].date
      BY <2>4 DEF Dated
    <3>1. CASE k \in 1 .. n
      BY <2>3, <2>4, <3>1 DEF Stamped, Dated
    <3>2. CASE j = n + 1
      <4>1. k = n + 1 /\ inbox'[k] \in Update
        BY <2>3, <2>4, <3>2 DEF LapInv, Flow
      <4> QED
        BY <3>2, <4>1 DEF Update
    <3>3. CASE k = n + 1 /\ j \in 1 .. n
      <4>1. inbox # << >> /\ Last(inbox) = inbox[n] /\ n \in 1 .. n
        BY <2>3, <3>3 DEF Last
      <4>2. inbox[j].date <= inbox[n].date
        BY <2>3, <3>3, <4>1 DEF Stamped, Dated
      <4>3. inbox'[k] \in Update
        BY <2>4 DEF LapInv, Flow
      <4>4. inbox[n].date <= r.date /\ r.date \in Nat
        BY <2>2, <2>4, <2>5, <3>3, <4>1, <4>3 DEF Update
      <4> QED
        BY <2>4, <2>5, <3>3, <4>2, <4>4
    <3> QED
      BY <2>3, <3>1, <3>2, <3>3
  <2>7. Heard' \subseteq Heard
    <3> SUFFICES ASSUME NEW u \in Heard' PROVE u \in Heard
      OBVIOUS
    <3>1. PICK k \in 1 .. Horizon' - 1 : u = inbox'[k] /\ ~ IsQuery(inbox'[k]) /\ inbox'[k].chat # NoChat
      BY Zenon DEF Heard, IsQuery
    <3>2. Horizon' = Horizon /\ Horizon <= n + 1
      BY <2>1, <2>3 DEF Horizon, LapInv, Flow
    <3>3. k \in 1 .. n /\ k \in 1 .. Horizon - 1
      BY <1>1, <2>3, <3>1, <3>2
    <3> QED
      BY <2>4, <3>1, <3>3 DEF Heard
  <2> QED
    BY <2>1, <2>6, <2>7 DEF ToNote
<1>3. ASSUME ~ Send PROVE inbox' = inbox
  BY <1>3, Zenon DEF Next, LapStep, Pop, Poll, QuietPoll, NoteSender, NotedAll, DedupeQuery,
     AnswerInline, KeepPage, AnswerCommand, BeginLast, ListPage, ReplyLast, Filtered, PushPage,
     SaveOffset, Crash, Boot, vars
<1>4. ASSUME ~ Send PROVE Dated'
  BY <1>3, <1>4, Zenon DEF Stamped, Dated
<1>5. CASE Poll
  <2>1. /\ ToNote' /\ inbox' = inbox /\ saved' = saved /\ Horizon = saved
        /\ pc' = "note" /\ i' = 1 /\ count' = Len(msgs') /\ Len(msgs') \in Nat
        /\ \A j, k \in 1 .. Len(msgs') : j < k => msgs'[j].id < msgs'[k].id
    BY <1>5, PollBrings
  <2>2. Horizon' = IF 1 <= count' THEN msgs'[1].id ELSE offset'
    BY <2>1 DEF Horizon
  <2>3. PICK h \in Nat : h = Horizon'
    BY <1>1
  <2>4. offset' \in Nat /\ saved' \in Nat /\ h <= offset'
    <3>1. pc' # "reset" => offset' \in Nat /\ saved' \in Nat /\ Horizon' <= offset'
      BY HorizonNext DEF Bounded
    <3> QED
      BY <2>1, <2>3, <3>1
  <2>5. ASSUME NEW k \in 1 .. h - 1, ~ IsQuery(inbox[k]), ~ (k < saved) PROVE FALSE
    <3>1. k \in saved' .. offset' - 1
      <4>1. PICK s \in Nat : s = saved /\ saved' = s
        BY <2>1, <2>4
      <4>2. PICK o \in Nat : o = offset' /\ h <= o
        BY <2>4
      <4>3. k \in Nat /\ k < h
        OBVIOUS
      <4>4. ~ (k < s)
        BY <2>5, <4>1
      <4>5. h <= o
        BY <4>2
      <4>6. k < o
        BY <4>3, <4>5
      <4>7. k \in s .. o - 1
        BY <4>3, <4>4, <4>6
      <4> QED
        BY <4>1, <4>2, <4>7
    <3>2. PICK j \in 1 .. count' : msgs'[j].id = k
      BY <2>1, <2>5, <3>1 DEF ToNote, IsQuery
    <3>3. 1 <= count' /\ h = msgs'[1].id
      BY <2>1, <2>2, <2>3, <3>2
    <3>4. j = 1 \/ 1 < j
      OBVIOUS
    <3> QED
      BY <2>1, <3>2, <3>3, <3>4
  <2>6. Heard' \subseteq Heard
    BY <1>1, <2>1, <2>3, <2>5, HeardFrame
  <2>7. ~ Send
    BY <2>1 DEF Send
  <2> QED
    BY <1>4, <2>1, <2>6, <2>7
<1>6. CASE ~ Send /\ ~ Poll
  <2>1. /\ Horizon' <= Horizon
        /\ pc' = "note" => pc = "note" /\ UNCHANGED <<offset, saved, msgs, count>>
    <3>1. saved \in Nat /\ saved <= Horizon
      BY HorizonIs DEF Bounded
    <3>2. CASE Horizon' = Horizon /\ (pc' = "note" => pc = "note" /\ UNCHANGED <<offset, saved, msgs, count>>)
      BY <1>1, <3>2
    <3>3. CASE Pop
      BY <3>2, <3>3 DEF Pop, batch, loop, Horizon
    <3>4. CASE QuietPoll \/ UNCHANGED vars
      BY <3>2, <3>4 DEF QuietPoll, vars, batch, loop, Horizon
    <3>5. CASE NotedAll
      <4>1. pc = "note" /\ ~ (i <= count) /\ pc' = "dedupe" /\ offset' = offset
        <5>1. i \in Int /\ count \in Int
          BY DEF LapInv, Flow
        <5> QED
          BY <3>5, <5>1 DEF NotedAll, Start
      <4> QED
        BY <3>2, <4>1 DEF Horizon
    <3>6. CASE DedupeQuery \/ AnswerInline \/ KeepPage \/ AnswerCommand \/ BeginLast \/ ListPage
               \/ ReplyLast \/ Filtered \/ PushPage
      <4>1. /\ pc \in {"dedupe", "filter", "last", "push"} /\ pc' \in {"dedupe", "filter", "last", "push"}
            /\ offset' = offset
        BY <3>6 DEF DedupeQuery, AnswerInline, KeepPage, AnswerCommand, BeginLast, ListPage,
           ReplyLast, Filtered, PushPage, Start, batch
      <4> QED
        BY <3>2, <4>1 DEF Horizon
    <3>7. CASE SaveOffset
      <4>1. pc = "push" /\ pc' = "poll" /\ saved' = offset
        BY <3>7 DEF SaveOffset, Rest
      <4> QED
        BY <3>2, <4>1 DEF Horizon
    <3>8. CASE Crash
      <4>1. pc' = "reset" /\ saved' = saved
        BY <3>8 DEF Crash
      <4> QED
        BY <3>1, <4>1 DEF Horizon
    <3>9. CASE Boot
      <4>1. pc = "reset" /\ pc' = "poll" /\ saved' = saved
        BY <3>9 DEF Boot
      <4> QED
        BY <3>2, <4>1 DEF Horizon
    <3> QED
      BY <1>6, <3>3, <3>4, <3>5, <3>6, <3>7, <3>8, <3>9, Zenon DEF Next, LapStep
  <2>2. ToNote'
    BY <1>3, <1>6, <2>1, Zenon DEF Stamped, ToNote, IsQuery
  <2>3. Heard' \subseteq Heard
    <3>1. PICK h \in Nat : h = Horizon'
      BY <1>1
    <3>2. PICK g \in Nat : g = Horizon
      BY <1>1
    <3>3. h <= g
      BY <2>1, <3>1, <3>2
    <3>4. \A k \in 1 .. h - 1 : k < g
      BY <3>3
    <3> QED
      BY <1>1, <1>3, <1>6, <3>1, <3>2, <3>4, HeardFrame
  <2> QED
    BY <1>4, <1>6, <2>2, <2>3
<1> QED
  BY <1>2, <1>5, <1>6

-----------------------------------------------------------------------------
(* The latest message of every chat only moves on. *)
LEMMA WroteGrows ==
  ASSUME \A d \in DOMAIN wrote : wrote[d] \in Nat, NEW c, NEW when \in Nat,
         wrote' = [d \in DOMAIN wrote \cup {c} |->
                     IF d # c THEN wrote[d]
                     ELSE IF d \in DOMAIN wrote /\ wrote[d] > when THEN wrote[d] ELSE when]
  PROVE  /\ \A d \in DOMAIN wrote' : wrote'[d] \in Nat
         /\ \A d \in DOMAIN wrote : d \in DOMAIN wrote' /\ wrote[d] <= wrote'[d]
         /\ c \in DOMAIN wrote' /\ when <= wrote'[c]
<1>1. ASSUME NEW d \in DOMAIN wrote' PROVE wrote'[d] \in Nat
  BY <1>1
<1>2. ASSUME NEW d \in DOMAIN wrote PROVE d \in DOMAIN wrote' /\ wrote[d] <= wrote'[d]
  <2>1. PICK w \in Nat : w = wrote[d]
    OBVIOUS
  <2>2. wrote'[d] = w \/ (wrote'[d] = when /\ ~ (w > when))
    BY <2>1
  <2> QED
    BY <2>1, <2>2
<1>3. c \in DOMAIN wrote' /\ when <= wrote'[c]
  <2>1. CASE c \in DOMAIN wrote
    <3>1. PICK w \in Nat : w = wrote[c]
      BY <2>1
    <3> QED
      BY <3>1
  <2>2. CASE c \notin DOMAIN wrote
    BY <2>2
  <2> QED
    BY <2>1, <2>2
<1> QED
  BY <1>1, <1>2, <1>3

(* What an entry that stays promises, after its chat's latest message moved. *)
LEMMA StaysReal ==
  ASSUME \A d \in DOMAIN wrote : wrote[d] \in Nat, \A d \in DOMAIN wrote' : wrote'[d] \in Nat,
         \A d \in DOMAIN wrote : d \in DOMAIN wrote' /\ wrote[d] <= wrote'[d],
         NEW e, e.seen \in Nat, e.chat \in DOMAIN wrote, e.seen <= wrote[e.chat]
  PROVE  e.chat \in DOMAIN wrote' /\ e.seen <= wrote'[e.chat]
<1>1. PICK s \in Nat, w \in Nat, v \in Nat : s = e.seen /\ w = wrote[e.chat] /\ v = wrote'[e.chat]
  OBVIOUS
<1>2. s <= w /\ w <= v
  BY <1>1
<1> QED
  BY <1>1, <1>2

(* The stamps of the first table are all that is known. *)
LEMMA StampsAre ==
  ASSUME NEW list, IsTable(list), \A k \in DOMAIN list : list[k].seen \in Nat
  PROVE  /\ Stamps(list) \in [Chats(list) -> Nat]
         /\ \A k \in DOMAIN list : Stamps(list)[list[k].chat] = list[k].seen
<1>1. ASSUME NEW k \in DOMAIN list
      PROVE  /\ list[k].chat \in Chats(list)
             /\ Stamps(list)[list[k].chat] = list[k].seen
  <2>1. list[k].chat \in Chats(list)
    BY DEF Chats
  <2>2. {j \in DOMAIN list : list[j].chat = list[k].chat} = {k}
    BY DEF IsTable
  <2>3. {list[j].seen : j \in {l \in DOMAIN list : list[l].chat = list[k].chat}} = {list[k].seen}
    BY <2>2
  <2>4. Max({list[k].seen}) = list[k].seen
    BY DEF Max
  <2>5. Stamps(list)[list[k].chat]
          = Max({list[j].seen : j \in {l \in DOMAIN list : list[l].chat = list[k].chat}})
    BY <2>1 DEF Stamps
  <2> QED
    BY <2>1, <2>3, <2>4, <2>5
<1>2. \A c \in Chats(list) : \E k \in DOMAIN list : c = list[k].chat
  BY DEF Chats
<1>3. \A c \in Chats(list) : Stamps(list)[c] \in Nat
  BY <1>1, <1>2
<1>4. Stamps(list) = [c \in Chats(list) |-> Stamps(list)[c]]
  BY DEF Stamps
<1> QED
  BY <1>1, <1>3, <1>4

(* What noting a sender leaves in the table: the entry written now, and      *)
(* entries it was no reason to change.                                       *)
LEMMA NoteLeaves ==
  ASSUME TableInv, NEW c, c # NoChat, NEW when \in Nat, Note(c, when),
         \A k \in DOMAIN contacts : contacts[k].seen \in Nat
  PROVE  /\ \A k \in DOMAIN contacts' :
              \/ contacts'[k] = Entry(c, when)
              \/ \E j \in DOMAIN contacts :
                   /\ contacts'[k] = contacts[j]
                   /\ contacts[j].chat # c \/ when <= contacts[j].seen + Touch
         /\ blob' = contacts' \/ blob' = blob
<1>1. CASE c \notin Chats(contacts) /\ Added(c, when)
  <2>1. blob' = contacts' \/ blob' = blob
    BY <1>1 DEF Added, Save
  <2>2. \A j \in DOMAIN contacts : contacts[j].chat # c
    BY <1>1 DEF Chats
  <2>3. PICK n \in 0 .. MaxContacts :
          /\ DOMAIN contacts = 1 .. n /\ Len(contacts) = n
          /\ contacts \in Seq(Range(contacts))
    BY TableShape DEF TableInv
  <2>4. CASE contacts' = [contacts EXCEPT ![LeastRecent] = Entry(c, when)]
    BY <2>1, <2>2, <2>4
  <2>5. CASE contacts' = Append(contacts, Entry(c, when))
    <3> DEFINE S == Range(contacts) \cup {Entry(c, when)}
    <3>1. contacts \in Seq(S) /\ Entry(c, when) \in S
      BY <2>3
    <3> HIDE DEF S
    <3>2. /\ DOMAIN contacts' = 1 .. n + 1
          /\ \A k \in 1 .. n : contacts'[k] = contacts[k]
          /\ contacts'[n + 1] = Entry(c, when)
      BY <2>3, <2>5, <3>1, AppendProperties
    <3>3. \A k \in 1 .. n + 1 : k \in 1 .. n \/ k = n + 1
      BY <2>3, ContactsAssumption
    <3> QED
      BY <2>1, <2>2, <2>3, <3>2, <3>3
  <2> QED
    BY <1>1, <2>4, <2>5 DEF Added
<1>2. ASSUME NEW l \in DOMAIN contacts, contacts[l].chat = c, Touched(l, when)
      PROVE  /\ \A k \in DOMAIN contacts' :
                  \/ contacts'[k] = Entry(c, when)
                  \/ \E j \in DOMAIN contacts : contacts'[k] = contacts[j] /\ contacts[j].chat # c
             /\ blob' = contacts' \/ blob' = blob
  <2>1. /\ \A k \in DOMAIN contacts : contacts[k].chat = c => k = l
        /\ contacts[l] = Entry(contacts[l].chat, contacts[l].seen)
    BY <1>2 DEF TableInv, IsTable
  <2> QED
    BY <1>2, <2>1 DEF Touched, Entry, Save
<1>3. ASSUME NEW l \in DOMAIN contacts, contacts[l].chat = c, Untouched(l, when)
      PROVE  /\ \A k \in DOMAIN contacts' :
                  \E j \in DOMAIN contacts :
                    /\ contacts'[k] = contacts[j]
                    /\ contacts[j].chat # c \/ when <= contacts[j].seen + Touch
             /\ blob' = contacts' \/ blob' = blob
  <2>1. \A k \in DOMAIN contacts : contacts[k].chat = c => k = l
    BY <1>3 DEF TableInv, IsTable
  <2> QED
    BY <1>3, <2>1 DEF Untouched, Save
<1> QED
  BY <1>1, <1>2, <1>3, Zenon DEF Note

(* The stamps keep their promise when a sender is noted, if no message done  *)
(* with is later than the one noted and only that one is newly done with.    *)
LEMMA NoteStamps ==
  ASSUME TableInv, Stamped, NEW c, c # NoChat, NEW when \in Nat, Note(c, when),
         \A u \in Heard' : (u \in Heard \/ u.chat = c) /\ u.date \in Nat /\ u.date <= when
  PROVE  /\ \A d \in DOMAIN wrote' : wrote'[d] \in Nat
         /\ StampsReal(contacts)' /\ StampsReal(blob)' /\ StampsLag'
<1>1. \A k \in DOMAIN contacts : contacts[k].seen \in Nat
  BY DEF Stamped, StampsReal
<1>2. /\ \A k \in DOMAIN contacts' :
           \/ contacts'[k] = Entry(c, when)
           \/ \E j \in DOMAIN contacts :
                /\ contacts'[k] = contacts[j]
                /\ contacts[j].chat # c \/ when <= contacts[j].seen + Touch
      /\ blob' = contacts' \/ blob' = blob
  BY <1>1, NoteLeaves
<1>3. /\ stale' = stale \ {c}
      /\ wrote' = [d \in DOMAIN wrote \cup {c} |->
                     IF d # c THEN wrote[d]
                     ELSE IF d \in DOMAIN wrote /\ wrote[d] > when THEN wrote[d] ELSE when]
  BY Zenon DEF Note
<1>4. /\ \A d \in DOMAIN wrote : wrote[d] \in Nat
      /\ \A d \in DOMAIN wrote' : wrote'[d] \in Nat
      /\ \A d \in DOMAIN wrote : d \in DOMAIN wrote' /\ wrote[d] <= wrote'[d]
      /\ c \in DOMAIN wrote' /\ when <= wrote'[c]
  <2>1. \A d \in DOMAIN wrote : wrote[d] \in Nat
    BY DEF Stamped
  <2> QED
    BY <1>3, <2>1, WroteGrows
<1>5. StampsReal(contacts)'
  <2> SUFFICES ASSUME NEW k \in DOMAIN contacts'
               PROVE  /\ contacts'[k].seen \in Nat
                      /\ contacts'[k].chat \in DOMAIN wrote'
                      /\ contacts'[k].seen <= wrote'[contacts'[k].chat]
    BY DEF StampsReal
  <2>1. CASE contacts'[k] = Entry(c, when)
    BY <1>4, <2>1 DEF Entry
  <2>2. CASE \E j \in DOMAIN contacts : contacts'[k] = contacts[j]
    <3>1. PICK j \in DOMAIN contacts : contacts'[k] = contacts[j]
      BY <2>2
    <3>2. PICK e : e = contacts[j]
      OBVIOUS
    <3>3. e.seen \in Nat /\ e.chat \in DOMAIN wrote /\ e.seen <= wrote[e.chat]
      BY <3>2 DEF Stamped, StampsReal
    <3>4. e.chat \in DOMAIN wrote' /\ e.seen <= wrote'[e.chat]
      BY <1>4, <3>3, StaysReal
    <3> QED
      BY <3>1, <3>2, <3>3, <3>4
  <2> QED
    BY <1>2, <2>1, <2>2
<1>6. StampsReal(blob)'
  <2>1. CASE blob' = contacts'
    BY <1>5, <2>1 DEF StampsReal
  <2>2. CASE blob' = blob
    <3> SUFFICES ASSUME NEW k \in DOMAIN blob
                 PROVE  /\ blob[k].seen \in Nat
                        /\ blob[k].chat \in DOMAIN wrote' /\ blob[k].seen <= wrote'[blob[k].chat]
      BY <2>2 DEF StampsReal
    <3>1. PICK e : e = blob[k]
      OBVIOUS
    <3>2. e.seen \in Nat /\ e.chat \in DOMAIN wrote /\ e.seen <= wrote[e.chat]
      BY <3>1 DEF Stamped, StampsReal
    <3>3. e.chat \in DOMAIN wrote' /\ e.seen <= wrote'[e.chat]
      BY <1>4, <3>2, StaysReal
    <3> QED
      BY <3>1, <3>2, <3>3
  <2> QED
    BY <1>2, <2>1, <2>2
<1>7. StampsLag'
  <2> SUFFICES ASSUME NEW k \in DOMAIN contacts', contacts'[k].chat \notin stale',
                      NEW u \in Heard', u.chat = contacts'[k].chat
               PROVE  u.date <= contacts'[k].seen + Touch
    BY Zenon DEF StampsLag
  <2>1. u.date \in Nat /\ u.date <= when
    OBVIOUS
  <2>2. CASE contacts'[k] = Entry(c, when)
    BY <2>1, <2>2, ContactsAssumption DEF Entry
  <2>3. CASE \E j \in DOMAIN contacts :
               /\ contacts'[k] = contacts[j]
               /\ contacts[j].chat # c \/ when <= contacts[j].seen + Touch
    <3>1. PICK j \in DOMAIN contacts :
            /\ contacts'[k] = contacts[j]
            /\ contacts[j].chat # c \/ when <= contacts[j].seen + Touch
      BY <2>3
    <3>2. CASE contacts[j].chat # c
      <4>1. u \in Heard /\ contacts[j].chat \notin stale /\ u.chat = contacts[j].chat
        BY <1>3, <3>1, <3>2
      <4>2. u.date <= contacts[j].seen + Touch
        BY <4>1 DEF Stamped, StampsLag
      <4> QED
        BY <3>1, <4>2
    <3>3. CASE when <= contacts[j].seen + Touch
      BY <1>1, <2>1, <3>1, <3>3, ContactsAssumption
    <3> QED
      BY <3>1, <3>2, <3>3
  <2> QED
    BY <1>2, <2>2, <2>3
<1> QED
  BY <1>4, <1>5, <1>6, <1>7

LEMMA StampedInit == Init => Stamped
<1> SUFFICES ASSUME Init PROVE Stamped
  OBVIOUS
<1>1. /\ contacts = Known /\ blob = Known /\ wrote = Stamps(Known)
      /\ inbox = << >> /\ pc = "poll" /\ saved = 1
  BY DEF Init
<1>2. IsTable(Known) /\ \A k \in DOMAIN Known : Known[k].seen \in Nat
  BY LapAssumption, Zenon DEF IsTable
<1>3. /\ Stamps(Known) \in [Chats(Known) -> Nat]
      /\ \A k \in DOMAIN Known : Stamps(Known)[Known[k].chat] = Known[k].seen
  BY <1>2, StampsAre
<1>4. StampsReal(contacts) /\ StampsReal(blob) /\ \A c \in DOMAIN wrote : wrote[c] \in Nat
  BY <1>1, <1>2, <1>3 DEF StampsReal, Chats
<1>5. Heard = {}
  BY <1>1 DEF Heard, Horizon
<1>6. StampsLag /\ Dated /\ ToNote
  BY <1>1, <1>5 DEF StampsLag, Dated, ToNote
<1> QED
  BY <1>4, <1>6 DEF Stamped

LEMMA StampedStep ==
  TableInv /\ LapInv /\ LapInv' /\ Stamped /\ [Next]_vars => Stamped'
<1> SUFFICES ASSUME TableInv, LapInv, LapInv', Stamped, [Next]_vars PROVE Stamped'
  OBVIOUS
<1>1. ASSUME UNCHANGED table, Heard' \subseteq Heard, Dated', ToNote' PROVE Stamped'
  <2>1. UNCHANGED <<contacts, blob, wrote, stale>>
    BY <1>1, Zenon DEF table
  <2>2. StampsLag'
    BY <1>1, <2>1, Zenon DEF Stamped, StampsLag
  <2>3. /\ \A c \in DOMAIN wrote' : wrote'[c] \in Nat
        /\ StampsReal(contacts)' /\ StampsReal(blob)'
    BY <2>1, Zenon DEF Stamped, StampsReal
  <2> QED
    BY <1>1, <2>2, <2>3, Zenon DEF Stamped
<1>2. CASE NoteSender
  <2>1. PICK c, when : c = msgs[i].chat /\ when = msgs[i].date
    OBVIOUS
  <2>2. when \in Nat /\ Note(c, when)
    <3>1. msgs[i] \in Update
      BY <1>2 DEF NoteSender, LapInv, Flow
    <3> QED
      BY <1>2, <2>1, <3>1 DEF NoteSender, Update
  <2>3. \A u \in Heard' : (u \in Heard \/ u.chat = c) /\ u.date \in Nat /\ u.date <= when
    BY <1>2, <2>1, NotedHeard
  <2>4. /\ UNCHANGED <<inbox, offset, saved, msgs, count>> /\ pc = "note" /\ pc' = "note"
    BY <1>2 DEF NoteSender, batch
  <2>5. Dated' /\ ToNote'
    BY <2>4, Zenon DEF Stamped, Dated, ToNote, IsQuery
  <2>6. CASE c = NoChat
    <3>1. Heard' \subseteq Heard
      BY <2>3, <2>6 DEF Heard
    <3>2. UNCHANGED table
      BY <2>2, <2>6, Zenon DEF Note
    <3> QED
      BY <1>1, <2>5, <3>1, <3>2
  <2>7. CASE c # NoChat
    <3>1. /\ \A d \in DOMAIN wrote' : wrote'[d] \in Nat
          /\ StampsReal(contacts)' /\ StampsReal(blob)' /\ StampsLag'
      BY <2>2, <2>3, <2>7, NoteStamps
    <3> QED
      BY <2>5, <3>1, Zenon DEF Stamped
  <2> QED
    BY <2>6, <2>7
<1>3. CASE Boot
  <2>1. /\ contacts' = blob \/ contacts' = << >>
        /\ stale' = stale \cup
             {blob[k].chat : k \in {j \in DOMAIN blob : blob[j] \notin Range(contacts)}}
        /\ UNCHANGED <<blob, wrote>>
    BY <1>3 DEF Boot, Restore
  <2>2. ~ NoteSender
    BY <1>3 DEF Boot, NoteSender
  <2>3. Heard' \subseteq Heard /\ Dated' /\ ToNote'
    BY <2>2, HeardSteps
  <2>4. /\ \A c \in DOMAIN wrote' : wrote'[c] \in Nat
        /\ StampsReal(contacts)' /\ StampsReal(blob)'
    BY <2>1 DEF Stamped, StampsReal
  <2>5. StampsLag'
    <3> SUFFICES ASSUME NEW k \in DOMAIN contacts', contacts'[k].chat \notin stale',
                        NEW u \in Heard, u.chat = contacts'[k].chat
                 PROVE  u.date <= contacts'[k].seen + Touch
      BY <2>3, Zenon DEF StampsLag
    <3>1. k \in DOMAIN blob /\ contacts'[k] = blob[k]
      BY <2>1
    <3>2. blob[k] \in Range(contacts) /\ blob[k].chat \notin stale
      BY <2>1, <3>1
    <3>3. PICK j \in DOMAIN contacts : contacts[j] = blob[k]
      BY <3>2 DEF Range
    <3> QED
      BY <3>1, <3>2, <3>3 DEF Stamped, StampsLag
  <2> QED
    BY <2>3, <2>4, <2>5, Zenon DEF Stamped
<1>4. CASE UNCHANGED table /\ ~ NoteSender
  BY <1>1, <1>4, HeardSteps
<1> QED
  BY <1>2, <1>3, <1>4, TableSteps

(* Every stamp is of a message its chat sent, and what is done with is noted.*)
LEMMA LapStamped == Spec => []Stamped
<1> QED
  BY StampedInit, StampedStep, LapTableInvariant, LapInvariant, PTL DEF Spec

(* A stamp in the table lags by no more than Touch behind any message of its *)
(* chat the device is done with, whatever resets and failing writes came in  *)
(* between, unless a failed write kept it from flash before a reset and the  *)
(* chat has not written since.                                               *)
THEOREM LapStampsLag == Spec => []StampsLag
<1>1. Stamped => StampsLag
  BY DEF Stamped
<1> QED
  BY <1>1, LapStamped, PTL

(* A full table forgets a chat that has been silent as long as any it keeps,*)
(* give or take the Touch by which a stamp may lag.                         *)
THEOREM LapEvictsStalest == Spec => EvictsStalest
<1> DEFINE Fair == pc # "reset" =>
             \A c \in (Chats(contacts) \ Chats(contacts')) \ stale :
               \A d \in Chats(contacts) \cap Chats(contacts') :
                 \A u \in Heard : u.chat = c => u.date <= wrote[d] + Touch
<1>1. TableInv /\ LapInv /\ Stamped /\ [Next]_vars => Fair
  <2> SUFFICES ASSUME TableInv, LapInv, Stamped, [Next]_vars, pc # "reset",
                      NEW c \in (Chats(contacts) \ Chats(contacts')) \ stale,
                      NEW d \in Chats(contacts) \cap Chats(contacts'),
                      NEW u \in Heard, u.chat = c
               PROVE  u.date <= wrote[d] + Touch
    OBVIOUS
  <2>1. contacts' # contacts
    OBVIOUS
  <2>2. PICK a, when : Note(a, when)
    <3>1. NoteSender
      BY <2>1, TableSteps, Zenon DEF Boot, table
    <3> QED
      BY <3>1 DEF NoteSender
  <2>3. PICK n \in Nat : /\ DOMAIN contacts = 1 .. n /\ Len(contacts) = n
                         /\ contacts \in Seq(Range(contacts))
    BY TableShape, ContactsAssumption DEF TableInv
  <2>4. ~ (contacts' = Append(contacts, Entry(a, when)))
    <3> SUFFICES ASSUME contacts' = Append(contacts, Entry(a, when)) PROVE FALSE
      OBVIOUS
    <3> DEFINE S == Range(contacts) \cup {Entry(a, when)}
    <3>1. contacts \in Seq(S) /\ Entry(a, when) \in S
      BY <2>3
    <3> HIDE DEF S
    <3>2. DOMAIN contacts' = 1 .. n + 1 /\ \A k \in 1 .. n : contacts'[k] = contacts[k]
      BY <2>3, <3>1, AppendProperties
    <3>3. \A k \in 1 .. n : k \in 1 .. n + 1
      OBVIOUS
    <3> QED
      BY <2>3, <3>2, <3>3 DEF Chats
  <2>5. \A l \in DOMAIN contacts : ~ Touched(l, when)
    <3> SUFFICES ASSUME NEW l \in DOMAIN contacts, Touched(l, when) PROVE FALSE
      OBVIOUS
    <3>1. /\ DOMAIN contacts' = DOMAIN contacts
          /\ \A k \in DOMAIN contacts : contacts'[k].chat = contacts[k].chat
      <4>1. contacts' = [contacts EXCEPT ![l].seen = when]
        BY DEF Touched
      <4>2. contacts[l] = Entry(contacts[l].chat, contacts[l].seen)
        BY DEF TableInv, IsTable
      <4> QED
        BY <4>1, <4>2 DEF Entry
    <3> QED
      BY <3>1 DEF Chats
  <2>6. contacts' = [contacts EXCEPT ![LeastRecent] = Entry(a, when)]
    BY <2>1, <2>2, <2>4, <2>5, Zenon DEF Note, Added, Untouched, table
  <2>7. /\ LeastRecent \in DOMAIN contacts
        /\ \A k \in DOMAIN contacts : contacts[LeastRecent].seen <= contacts[k].seen
    <3>1. DOMAIN contacts # {}
      BY DEF Chats
    <3> QED
      BY <3>1, LeastRecentIs
  <2>8. PICK j \in DOMAIN contacts : contacts[j].chat = c
    BY DEF Chats
  <2>9. j = LeastRecent
    BY <2>6, <2>8 DEF Chats
  <2>10. PICK k \in DOMAIN contacts : contacts[k].chat = d
    BY DEF Chats
  <2>11. PICK x \in Nat, y \in Nat, w \in Nat :
           /\ x = contacts[j].seen /\ y = contacts[k].seen
           /\ w = wrote[d] /\ y <= w
    BY <2>10 DEF Stamped, StampsReal
  <2>12. u.date \in Nat
    BY HorizonIs DEF Heard, Bounded
  <2>13. u.date <= x + Touch
    BY <2>8, <2>11 DEF Stamped, StampsLag
  <2>14. x <= y
    BY <2>7, <2>9, <2>11
  <2> QED
    BY <2>11, <2>12, <2>13, <2>14, ContactsAssumption
<1> QED
  BY <1>1, LapTableInvariant, LapInvariant, LapStamped, PTL DEF Spec, EvictsStalest
=============================================================================
