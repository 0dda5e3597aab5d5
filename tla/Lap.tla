--------------------------------- MODULE Lap ---------------------------------
(***************************************************************************)
(* What a lap of the pager task does with the updates of a poll before it  *)
(* pages any: it notes who wrote, drops superseded inline queries, answers *)
(* the commands (commands.c) and closes the gaps they leave in the batch.  *)
(* The button task pops pages meanwhile, in the middle of /last's walk     *)
(* over the queue too.  The chip may reset at any step, which replays the  *)
(* batch.                                                                  *)
(***************************************************************************)
EXTENDS Contacts, SequencesExt

CONSTANTS
  Templates,    \* what may be sent: [kind, chat, n]
  MaxUpdates,   \* bound on updates
  Steps,        \* seconds between one update and the next
  Limit,        \* APP_UPDATES_PER_POLL
  Capacity,     \* APP_MSG_QUEUE_LEN
  LastDefault,  \* APP_LAST_DEFAULT_PAGES
  LastMax,      \* APP_LAST_MAX_PAGES
  Waiting,      \* how many pages are queued already
  MaxCrashes,   \* bound on resets
  Known         \* the table already there

Kinds == {"text",   \* an ordinary message
          "pager",  \* "/pager <text>"
          "ask",    \* "/ping", "/status", a bare "/pager", "/last" misused
          "last",   \* "/last" with its argument, 0 for none
          "query"}  \* an inline query; its chat is the user who types

ASSUME LapAssumption ==
  /\ \A t \in Templates : t.kind \in Kinds /\ t.n \in Nat
  /\ \A t \in Templates : t.kind = "query" => t.chat # NoChat
  /\ MaxUpdates \in Nat /\ Steps \subseteq Nat /\ Limit \in Nat \ {0}
  /\ Capacity \in Nat \ {0} /\ Waiting \in 0 .. Capacity /\ MaxCrashes \in Nat
  /\ LastDefault \in Nat \ {0} /\ LastMax \in Nat \ {0}
  /\ \E n \in 0 .. MaxContacts : Known \in [1 .. n -> Range(Known)]
  /\ \A k \in DOMAIN Known :
       Known[k] = Entry(Known[k].chat, Known[k].seen) /\ Known[k].seen \in Nat
  /\ \A j, k \in DOMAIN Known : Known[j].chat = Known[k].chat => j = k

VARIABLES
  inbox,          \* the updates sent: [id, kind, chat, n, date]
  offset, saved,  \* s_offset; the one in NVS
  pc,             \* where the pager task is in its lap
  msgs, queries,  \* the two arrays of the batch
  count,          \* how many entries of the array at hand are filled
  i, kept,        \* the loop index, and the entries kept so far
  queue,          \* the pages waiting, oldest first: <<id, resets before the push>>
  window,         \* history: the pages the listing is about
  back,           \* the loop index of build_last
  listing,        \* s_last: the pages listed
  crashes

batch == <<msgs, queries, count>>
loop == <<i, kept>>
walk == <<window, back, listing>>
vars == <<table, inbox, offset, saved, pc, batch, loop, queue, walk, crashes>>

Start(pcs) == pc' = pcs /\ i' = 1 /\ kept' = 0
Rest == pc' = "poll" /\ msgs' = << >> /\ queries' = << >> /\ count' = 0

Init ==
  /\ inbox = << >> /\ offset = 1 /\ saved = 1
  /\ pc = "poll" /\ msgs = << >> /\ queries = << >> /\ count = 0 /\ i = 1 /\ kept = 0
  /\ contacts = Known /\ blob = contacts /\ behind = FALSE
  /\ wrote = Stamps(contacts) /\ stale = {}
  /\ queue = [k \in 1 .. Waiting |-> <<k - Waiting, 0>>]
  /\ window = << >> /\ back = -1 /\ listing = << >> /\ crashes = 0

(* Someone writes.  Only a poll reads the inbox: it may as well fill before. *)
Send ==
  /\ pc = "poll" /\ Len(inbox) < MaxUpdates
  /\ \E t \in Templates, s \in Steps :
       LET now == IF inbox = << >> THEN 0 ELSE Last(inbox).date
       IN  inbox' = Append(inbox, [id |-> Len(inbox) + 1, kind |-> t.kind, chat |-> t.chat,
                                   n |-> t.n, date |-> now + s])
  /\ UNCHANGED <<table, offset, saved, pc, batch, loop, queue, walk, crashes>>

(* The button task acknowledges the oldest page. *)
Pop ==
  /\ pc # "reset" /\ queue # << >>
  /\ queue' = Tail(queue)
  /\ UNCHANGED <<table, inbox, offset, saved, pc, batch, loop, walk, crashes>>

-----------------------------------------------------------------------------
(* telegram_poll sorts the updates into the two arrays.                      *)
LastSeen == IF Len(inbox) < offset + Limit THEN Len(inbox) ELSE offset + Limit - 1
Answer == offset .. LastSeen
IsQuery(u) == u.kind = "query"

\* The updates with the ids of K, in the order they came.
Those(K) ==
  {s \in [1 .. Cardinality(K) -> {inbox[k] : k \in K}] :
     ToSet(s) = {inbox[k] : k \in K} /\ \A j, k \in DOMAIN s : j < k => s[j].id < s[k].id}

Poll ==
  /\ pc = "poll" /\ Answer # {}
  /\ offset' = LastSeen + 1
  /\ msgs' \in Those({k \in Answer : ~ IsQuery(inbox[k])})
  /\ queries' \in Those({k \in Answer : IsQuery(inbox[k])})
  /\ count' = Len(msgs')
  /\ Start("note")
  /\ UNCHANGED <<table, inbox, saved, queue, walk, crashes>>

\* A poll that brings nothing leaves everything alone.
QuietPoll == pc = "poll" /\ Answer = {} /\ UNCHANGED vars

NoteSender ==
  /\ pc = "note" /\ i <= count
  /\ Note(msgs[i].chat, msgs[i].date)
  /\ i' = i + 1
  /\ UNCHANGED <<inbox, offset, saved, pc, batch, kept, queue, walk, crashes>>

NotedAll ==
  /\ pc = "note" /\ i > count
  /\ count' = Len(queries) /\ Start("dedupe")
  /\ UNCHANGED <<table, inbox, offset, saved, msgs, queries, queue, walk, crashes>>

-----------------------------------------------------------------------------
(* dedupe_queries, in place. *)
SupersededByAny == \E j \in 1 .. count : j # i /\ queries[j].chat = queries[i].chat
Superseded == \E j \in i + 1 .. count : queries[j].chat = queries[i].chat

DedupeQuery ==
  /\ pc = "dedupe" /\ i <= count
  /\ IF Superseded THEN UNCHANGED <<queries, kept>>
     ELSE queries' = [queries EXCEPT ![kept + 1] = queries[i]] /\ kept' = kept + 1
  /\ i' = i + 1
  /\ UNCHANGED <<table, inbox, offset, saved, pc, msgs, count, queue, walk, crashes>>

\* Those kept are answered; an answer that fails is not tried again.
AnswerInline ==
  /\ pc = "dedupe" /\ i > count
  /\ queries' = SubSeq(queries, 1, kept)
  /\ count' = Len(msgs) /\ Start("filter")
  /\ UNCHANGED <<table, inbox, offset, saved, msgs, queue, walk, crashes>>

-----------------------------------------------------------------------------
(* filter_commands, in place, over commands_try_handle. *)
IsPage(m) == m.kind \in {"text", "pager"} \/ m.chat = NoChat
\* "/pager " is stripped off the text, of an inline page too.
Stripped(m) == IF m.kind = "pager" THEN [m EXCEPT !.kind = "text"] ELSE m

KeepPageHole ==
  /\ pc = "filter" /\ i <= count /\ IsPage(msgs[i])
  /\ msgs' = [msgs EXCEPT ![i] = Stripped(msgs[i])]
  /\ kept' = kept + 1 /\ i' = i + 1
  /\ UNCHANGED <<table, inbox, offset, saved, pc, queries, count, queue, walk, crashes>>

KeepPage ==
  /\ pc = "filter" /\ i <= count /\ IsPage(msgs[i])
  /\ msgs' = [msgs EXCEPT ![i] = Stripped(msgs[i]), ![kept + 1] = Stripped(msgs[i])]
  /\ kept' = kept + 1 /\ i' = i + 1
  /\ UNCHANGED <<table, inbox, offset, saved, pc, queries, count, queue, walk, crashes>>

\* Answered or not, the command is gone from the batch.
AnswerCommand ==
  /\ pc = "filter" /\ i <= count /\ ~ IsPage(msgs[i])
  /\ msgs[i].kind = "ask" \/ (msgs[i].kind = "last" /\ queue = << >>)
  /\ i' = i + 1
  /\ UNCHANGED <<table, inbox, offset, saved, pc, batch, kept, queue, walk, crashes>>

-----------------------------------------------------------------------------
(* build_last: one critical section to count, one for each page.             *)
Want(n) == Min({IF n = 0 THEN LastDefault ELSE n, LastMax, Len(queue)})

BeginLast ==
  /\ pc = "filter" /\ i <= count /\ ~ IsPage(msgs[i]) /\ msgs[i].kind = "last"
  /\ queue # << >>
  /\ back' = Want(msgs[i].n) - 1
  /\ window' = SubSeq(queue, Len(queue) - back', Len(queue))
  /\ listing' = << >>
  /\ pc' = "last"
  /\ UNCHANGED <<table, inbox, offset, saved, batch, loop, queue, crashes>>

\* msg_queue_peek_recent counts from the newest page.
ListFromOldest ==
  /\ pc = "last" /\ back >= 0
  /\ LET at == Len(window) - back
     IN  listing' = IF at <= Len(queue) THEN Append(listing, queue[at]) ELSE listing
  /\ back' = back - 1
  /\ UNCHANGED <<table, inbox, offset, saved, pc, batch, loop, queue, window, crashes>>

ListPage ==
  /\ pc = "last" /\ back >= 0
  /\ listing' = IF back < Len(queue) THEN Append(listing, queue[Len(queue) - back])
                ELSE listing
  /\ back' = back - 1
  /\ UNCHANGED <<table, inbox, offset, saved, pc, batch, loop, queue, window, crashes>>

ReplyLast ==
  /\ pc = "last" /\ back < 0
  /\ pc' = "filter" /\ i' = i + 1
  /\ window' = << >> /\ listing' = << >>
  /\ UNCHANGED <<table, inbox, offset, saved, batch, kept, queue, back, crashes>>

-----------------------------------------------------------------------------
(* What is left is paged; then the offset is saved.                          *)
Filtered ==
  /\ pc = "filter" /\ i > count
  /\ count' = kept /\ Start("push")
  /\ UNCHANGED <<table, inbox, offset, saved, msgs, queries, queue, walk, crashes>>

PushPage ==
  /\ pc = "push" /\ i <= count
  /\ queue' = Append(IF Len(queue) = Capacity THEN Tail(queue) ELSE queue,
                     <<msgs[i].id, crashes>>)
  /\ i' = i + 1
  /\ UNCHANGED <<table, inbox, offset, saved, pc, batch, kept, walk, crashes>>

SaveOffset ==
  /\ pc = "push" /\ i > count
  /\ saved' = offset
  /\ Rest /\ i' = 1 /\ kept' = 0
  /\ UNCHANGED <<table, inbox, offset, queue, walk, crashes>>

Crash ==
  /\ pc # "reset" /\ crashes < MaxCrashes
  /\ crashes' = crashes + 1
  /\ pc' = "reset" /\ msgs' = << >> /\ queries' = << >> /\ count' = 0 /\ i' = 1 /\ kept' = 0
  /\ window' = << >> /\ back' = -1 /\ listing' = << >>
  /\ UNCHANGED <<table, inbox, offset, saved, queue>>

Boot ==
  /\ pc = "reset" /\ pc' = "poll"
  /\ offset' = saved
  /\ Restore
  /\ UNCHANGED <<inbox, saved, batch, loop, queue, walk, crashes>>

LapStep ==
  \/ Poll \/ QuietPoll \/ NoteSender \/ NotedAll \/ DedupeQuery \/ AnswerInline
  \/ KeepPage \/ AnswerCommand \/ BeginLast \/ ListPage \/ ReplyLast
  \/ Filtered \/ PushPage \/ SaveOffset
Next == Send \/ Pop \/ LapStep \/ Crash \/ Boot

Spec == Init /\ [][Next]_vars
=============================================================================
