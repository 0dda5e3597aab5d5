------------------------------ MODULE PagerProps ------------------------------
(***************************************************************************)
(* What is claimed of the pager task, the button task, the queue between   *)
(* them and the server beyond.                                             *)
(***************************************************************************)
EXTENDS Pager

Stage == {"drain", "ack", "poll", "push", "commit", "peek", "paint", "deliver", "save"}

(* Every variable has its type; both queues stay within their length. *)
TypeOK ==
  /\ arrived \in 0 .. LastUpdate /\ confirmed \in 1 .. LastUpdate + 1
  /\ mark \in [Paged -> {"none", "delivered", "read"}]
  /\ on \in BOOLEAN /\ pc \in Stage
  /\ offset \in 0 .. LastUpdate + 1 /\ flashOffset \in 0 .. LastUpdate + 1
  /\ batch \in Seq(Paged) /\ Len(batch) <= Limit /\ next \in 1 .. Limit + 1
  /\ ack \in Paged \cup {None} /\ attempt \in 1 .. MaxAttempts
  /\ ackQueue \in Seq(Paged) /\ Len(ackQueue) <= AckCapacity
  /\ view \in [{"pager", "button"} -> Paged \cup {None}] /\ shown \in Paged \cup {None}
  /\ bpc \in {"idle", "commit", "peek", "paint", "send"} /\ pressed \in Paged \cup {None}
  /\ queue \in Seq(Paged) /\ Len(queue) <= Capacity
  /\ stored \in Seq(Paged) /\ Len(stored) <= Capacity
  /\ drops \in Nat /\ storedDrops \in Nat
  /\ op \in {"none", "push", "torn", "pop"}
  /\ popped \subseteq Paged /\ evicted \subseteq Paged /\ lostAcks \subseteq Paged
  /\ copies \in [Paged -> Nat] /\ crashes \in 0 .. MaxCrashes

Held == ToSet(stored) \cup popped \cup evicted

(* Once Telegram has forgotten a page, the page is in the stored queue, or   *)
(* someone acknowledged it, or a full queue evicted it: no reset at any step *)
(* loses it.  This is what saving the offset last in the lap is for          *)
(* (pager_task.c:414-419).                                                   *)
NoPageLost == \A u \in Paged : u < confirmed => u \in Held

(* A mark in the chat never runs ahead of the device: a page marked         *)
(* delivered outlives a power cut, one marked read was acknowledged.         *)
MarksHonest ==
  \A u \in Paged : /\ mark[u] = "delivered" => u \in Held
                   /\ mark[u] = "read" => u \in popped

(* A page is pushed a second time only by a reset that came before the       *)
(* offset behind it was saved: each reset replays at most the lap in flight, *)
(* and without one nothing is queued twice.                                  *)
NeverRequeued ==
  [][\A u \in Paged : copies'[u] > copies[u] =>
        u >= flashOffset /\ copies'[u] <= 1 + crashes]_vars

(* "Read" never falls back to "delivered", although the button task may pop  *)
(* a page while the pager task still owes its delivery mark: the read        *)
(* receipt waits in s_ack_queue for the next lap.  (A page queued a second   *)
(* time after a reset is the exception.)                                     *)
ReadSticks ==
  [][\A u \in Paged : mark[u] = "read" /\ copies[u] = 1 => mark'[u] = "read"]_vars

(* Every acknowledgement is eventually reported to the chat or given up      *)
(* (attempts exhausted, receipt queue full, reset), long poll or not.        *)
AcksResolved ==
  \A u \in Paged : u \in {pressed, ack} \cup ToSet(ackQueue) ~>
                    (mark[u] = "read" \/ u \in lostAcks)

(* Every update sent to the bot is eventually handled and confirmed, those   *)
(* that are no pages too: the offset never stalls on one and never makes     *)
(* Telegram replay the same batch for ever (telegram.c:255-256).             *)
OffsetNeverStalls == \A u \in Update : arrived >= u ~> confirmed > u

(* So it is unless the answer Telegram has for the device is for ever one    *)
(* above the limit: nothing else stalls the offset.                          *)
UpdatesHandled == []<>Fits => OffsetNeverStalls

(* An acknowledged page never comes back to the glass: the two tasks repaint *)
(* it from heads they peeked before they took the LVGL lock, and whichever   *)
(* paints last, what the key cleared stays off it (ui.c:180-184).  Not so    *)
(* for a page a full queue evicts between the peek and the paint, nor for    *)
(* one that a reset has put back into the queue.                             *)
AckedPageGone ==
  on /\ bpc = "idle" => shown \notin popped \ (evicted \cup ToSet(queue))

-----------------------------------------------------------------------------
(* The inductive invariant behind the safety properties.  Whose turn it is:  *)
(* which task the operation on the queue belongs to, what the pager task has *)
(* in hand and which receipts are under way.                                 *)
Turns ==
  /\ pc = "commit" <=> op \in {"push", "torn"}
  /\ bpc = "commit" <=> op = "pop"
  /\ op = "push" => queue # << >>
  /\ ~ on => /\ pc = "peek" /\ bpc = "idle" /\ op = "none" /\ queue = << >>
             /\ batch = << >> /\ offset = 0
  /\ pc \in {"push", "commit"} => next <= Len(batch)
  /\ pc \in {"drain", "ack", "poll"} => batch = << >>
  /\ pc = "ack" => ack # None
  /\ bpc # "idle" => pressed # None
  /\ {ack, pressed} \cup ToSet(ackQueue) \subseteq popped \cup {None}

(* The stored queue lags by the operation under way, and what it loses was   *)
(* popped or evicted; nothing is in a queue that was not pushed.             *)
Mirror ==
  /\ on /\ op = "none" => stored = queue
  /\ op = "push" /\ Fifo!Full(stored) => stored[1] \in evicted
  /\ on => ToSet(stored) \subseteq ToSet(queue) \cup popped \cup evicted
  /\ \A u \in ToSet(queue) \cup ToSet(stored) \cup popped : copies[u] >= 1

(* How far the lap is with the i-th page of its batch.                       *)
Pushed(i) ==
  pc \in {"peek", "paint", "deliver", "save"} \/ i < next \/ (i = next /\ pc = "commit")
Stowed(i) == pc \in {"peek", "paint", "deliver", "save"} \/ i < next

(* A page below any of the three offsets is held, but for those the lap has  *)
(* still to stow.                                                            *)
Kept ==
  /\ \A u \in Paged : u < confirmed \/ u < flashOffset => u \in Held
  /\ \A u \in Paged : u < offset =>
       u \in Held \/ \E i \in DOMAIN batch : batch[i] = u /\ ~ Stowed(i)
  /\ \A i \in DOMAIN batch : Stowed(i) => batch[i] \in Held
  /\ pc = "commit" => batch[next] \in ToSet(queue)
  /\ MarksHonest

(* A page is pushed once a boot: what is not yet pushed has a copy for each  *)
(* reset at most, and a page of the lap was marked read for an earlier copy. *)
Replays ==
  /\ on => flashOffset <= offset
  /\ \A i \in DOMAIN batch : flashOffset <= batch[i] /\ batch[i] < offset
  /\ \A i, j \in DOMAIN batch : i # j => batch[i] # batch[j]
  /\ \A u \in Paged : copies[u] <= 1 + crashes /\ (u >= offset => copies[u] <= crashes)
  /\ \A i \in DOMAIN batch : ~ Pushed(i) => copies[batch[i]] <= crashes
  /\ \A i \in DOMAIN batch : Pushed(i) /\ mark[batch[i]] = "read" => copies[batch[i]] >= 2

(* A page gone for good is on the glass, or on its way there, only while the *)
(* button task still has to paint over it.                                   *)
Gone(u) == u \in popped \ (evicted \cup ToSet(queue))
GlassTrue ==
  /\ bpc \in {"idle", "send"} => ~ Gone(shown)
  /\ pc = "paint" /\ Gone(view["pager"]) => bpc \in {"commit", "peek", "paint"}
  /\ bpc = "paint" => ~ Gone(view["button"])

PagerInv == TypeOK /\ Turns /\ Mirror /\ Kept /\ Replays /\ GlassTrue
=============================================================================
