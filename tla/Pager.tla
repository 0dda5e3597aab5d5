-------------------------------- MODULE Pager --------------------------------
(***************************************************************************)
(* pager_task.c and telegram_poll(): the pager task polls Telegram, queues *)
(* the pages of a batch, paints the glass, reports delivery and saves the  *)
(* update offset; the button task pops the page a press acknowledges and   *)
(* hands its read receipt back to the pager task over s_ack_queue.         *)
(*                                                                         *)
(* The page queue is PageFifo, which MsgQueue implements; a page is named  *)
(* by its update_id.  Telegram is an external server that keeps an update  *)
(* until a poll names a higher offset.  The chip may reset at any step.    *)
(***************************************************************************)
EXTENDS Integers, Sequences, FiniteSets, SequencesExt

CONSTANTS
  LastUpdate,    \* updates are 1 .. LastUpdate
  Request,       \* those answered on the spot: commands, inline queries, taps
  Mute,          \* pages with neither a chat nor an inline handle to report to
  Large,         \* updates of a length of which an answer holds only
  LargeFit,      \* so many within APP_HTTP_MAX_RESPONSE
  Limit,         \* APP_UPDATES_PER_POLL
  Capacity,      \* APP_MSG_QUEUE_LEN
  AckCapacity,   \* the length of s_ack_queue
  MaxAttempts,   \* APP_ACK_MAX_ATTEMPTS
  MaxCrashes,    \* bound on resets
  None           \* no page

ASSUME PagerAssumption ==
  /\ LastUpdate \in Nat /\ Limit \in Nat \ {0} /\ Capacity \in Nat \ {0}
  /\ AckCapacity \in Nat \ {0} /\ MaxAttempts \in Nat \ {0} /\ MaxCrashes \in Nat
  /\ Request \subseteq 1 .. LastUpdate
  /\ Mute \subseteq (1 .. LastUpdate) \ Request
  /\ Large \subseteq 1 .. LastUpdate /\ LargeFit \in Nat
  /\ None \notin 1 .. LastUpdate

Update == 1 .. LastUpdate
Paged == Update \ Request

VARIABLES
  arrived,      \* Telegram has received updates 1 .. arrived
  confirmed,    \* and forgotten those below confirmed
  mark,         \* the bot's mark on each page: "none", "delivered" or "read"
  on,           \* the device runs
  pc,           \* where the pager task is
  offset,       \* s_offset
  flashOffset,  \* the offset in NVS, and s_saved_offset
  batch,        \* the pages of the poll being handled
  next,         \* the loop index into batch
  ack,          \* the receipt drain_acks is sending
  attempt,
  ackQueue,     \* s_ack_queue
  view,         \* the page each task has peeked and not yet painted
  shown,        \* the page on the glass
  bpc,          \* where the button task is
  pressed,      \* the page it popped
  queue, drops, stored, storedDrops, op,   \* PageFifo
  popped, evicted, lostAcks,  \* history: pages acknowledged, pages pushed out
                              \* of a full queue, receipts given up
  copies,       \* history: how often each page was pushed
  crashes

server == <<arrived, confirmed, mark>>
acks == <<ack, attempt, ackQueue>>
glass == <<view, shown>>
fifo == <<queue, drops, stored, storedDrops, op>>
button == <<bpc, pressed>>
history == <<popped, evicted, lostAcks, copies, crashes>>
vars == <<server, on, pc, offset, flashOffset, batch, next, acks, glass, fifo,
          button, history>>

Fifo == INSTANCE PageFifo WITH Page <- Paged, up <- on

Init ==
  /\ arrived = 0 /\ confirmed = 1 /\ mark = [u \in Paged |-> "none"]
  /\ Fifo!Init
  /\ pc = "peek" /\ offset = 0 /\ flashOffset = 0 /\ batch = << >> /\ next = 1
  /\ ack = None /\ attempt = 1 /\ ackQueue = << >>
  /\ view = [t \in {"pager", "button"} |-> None] /\ shown = None
  /\ bpc = "idle" /\ pressed = None
  /\ popped = {} /\ evicted = {} /\ lostAcks = {}
  /\ copies = [u \in Paged |-> 0] /\ crashes = 0

(* Someone writes to the bot. *)
Arrive ==
  /\ arrived < LastUpdate
  /\ arrived' = arrived + 1
  /\ UNCHANGED <<confirmed, mark, on, pc, offset, flashOffset, batch, next, acks,
                 glass, fifo, button, history>>

-----------------------------------------------------------------------------
(* drain_acks: take a receipt, try it up to MaxAttempts times.  A call that *)
(* fails may have reached Telegram all the same.                            *)
TakeAck ==
  /\ on /\ pc = "drain" /\ ackQueue # << >>
  /\ pc' = "ack"
  /\ ack' = Head(ackQueue) /\ ackQueue' = Tail(ackQueue) /\ attempt' = 1
  /\ UNCHANGED <<server, on, offset, flashOffset, batch, next, glass, fifo, button,
                 history>>

Reads(u) == mark' = [mark EXCEPT ![u] = "read"]

AckSent ==
  /\ on /\ pc = "ack" /\ ack \notin Mute
  /\ Reads(ack)
  /\ pc' = "drain" /\ ack' = None
  /\ UNCHANGED <<arrived, confirmed, on, offset, flashOffset, batch, next, attempt,
                 ackQueue, glass, fifo, button, history>>

AckFailedForever ==
  /\ on /\ pc = "ack"
  /\ UNCHANGED vars

AckFailed ==
  /\ on /\ pc = "ack"
  /\ UNCHANGED mark \/ (ack \notin Mute /\ Reads(ack))
  /\ \/ /\ attempt < MaxAttempts
        /\ attempt' = attempt + 1
        /\ UNCHANGED <<pc, ack, lostAcks>>
     \/ /\ attempt = MaxAttempts
        /\ lostAcks' = lostAcks \cup {ack}
        /\ pc' = "drain" /\ ack' = None
        /\ UNCHANGED attempt
  /\ UNCHANGED <<arrived, confirmed, on, offset, flashOffset, batch, next, ackQueue,
                 glass, fifo, button, popped, evicted, copies, crashes>>

DrainDone ==
  /\ on /\ pc = "drain" /\ ackQueue = << >>
  /\ pc' = "poll"
  /\ UNCHANGED <<server, on, offset, flashOffset, batch, next, acks, glass, fifo,
                 button, history>>

(* telegram_poll.  Reaching Telegram confirms every update below the offset *)
(* sent; the answer holds the first Limit updates from there on.            *)
First == IF offset > confirmed THEN offset ELSE confirmed
LastSeen == IF arrived < First + Limit THEN arrived ELSE First + Limit - 1
Answer == First .. LastSeen
Confirm == confirmed' = First
Fits == Cardinality(Answer \cap Large) <= LargeFit

\* The offset moves past every update seen, the ones not paged too.
NextOffsetRepeats == IF Answer # {} /\ LastSeen > offset THEN LastSeen + 1 ELSE offset
NextOffsetOfPages ==
  IF Answer \cap Paged = {} THEN offset
  ELSE 1 + (CHOOSE u \in Answer \cap Paged : \A v \in Answer \cap Paged : v <= u)
NextOffset == IF Answer = {} THEN offset ELSE LastSeen + 1

\* The updates of S as an answer lists them.
InOrder(S) ==
  {b \in [1 .. Cardinality(S) -> S] :
     ToSet(b) = S /\ \A i, j \in DOMAIN b : i < j => b[i] < b[j]}

PollOkSavesEarly ==
  /\ on /\ pc = "poll" /\ Fits
  /\ Confirm
  /\ offset' = NextOffset
  /\ flashOffset' = offset'
  /\ batch' \in InOrder(Answer \cap Paged) /\ next' = 1
  /\ pc' = IF batch' = << >> THEN "save" ELSE "push"
  /\ UNCHANGED <<arrived, mark, on, acks, glass, fifo, button, history>>

(* An answer: the offset moves past all of it, answer_inline and            *)
(* filter_commands answer what asks about the device and keep the pages.    *)
PollOk ==
  /\ on /\ pc = "poll" /\ Fits
  /\ Confirm
  /\ offset' = NextOffset
  /\ batch' \in InOrder(Answer \cap Paged) /\ next' = 1
  /\ pc' = IF batch' = << >> THEN "save" ELSE "push"
  /\ UNCHANGED <<arrived, mark, on, flashOffset, acks, glass, fifo, button, history>>

(* An answer above the limit is refused before any update of it is read: the *)
(* next poll asks for the same one.                                          *)
PollRefused ==
  /\ on /\ pc = "poll" /\ ~ Fits
  /\ Confirm
  /\ pc' = "drain"
  /\ UNCHANGED <<arrived, mark, on, offset, flashOffset, batch, next, acks, glass, fifo,
                 button, history>>

(* poll_should_abort cut the wait short, or the exchange failed. *)
PollAborted ==
  /\ on /\ pc = "poll" /\ ackQueue # << >>
  /\ Confirm \/ UNCHANGED confirmed
  /\ pc' = "drain"
  /\ UNCHANGED <<arrived, mark, on, offset, flashOffset, batch, next, acks, glass, fifo,
                 button, history>>

PollFailed ==
  /\ on /\ pc = "poll"
  /\ Confirm \/ UNCHANGED confirmed
  /\ pc' = "drain"
  /\ UNCHANGED <<arrived, mark, on, offset, flashOffset, batch, next, acks, glass, fifo,
                 button, history>>

-----------------------------------------------------------------------------
(* handle_new_messages: push every page, repaint, report every delivery.    *)
Push ==
  /\ on /\ pc = "push"
  /\ Fifo!Push(batch[next])
  /\ pc' = "commit"
  /\ evicted' = IF Fifo!Full(queue) THEN evicted \cup {Head(queue)} ELSE evicted
  /\ copies' = [copies EXCEPT ![batch[next]] = @ + 1]
  /\ UNCHANGED <<server, offset, flashOffset, batch, next, acks, glass, button,
                 popped, lostAcks, crashes>>

PushTears ==
  /\ on /\ pc = "commit" /\ Fifo!Torn
  /\ UNCHANGED <<server, pc, offset, flashOffset, batch, next, acks, glass, button,
                 history>>

PushUnsaved ==
  /\ on /\ pc = "commit" /\ op \in {"push", "torn"} /\ op' = "none"
  /\ next' = IF next < Len(batch) THEN next + 1 ELSE 1
  /\ pc' = IF next < Len(batch) THEN "push" ELSE "peek"
  /\ UNCHANGED <<server, on, offset, flashOffset, batch, acks, glass, queue, drops,
                 stored, storedDrops, button, history>>

PushCommits ==
  /\ on /\ pc = "commit" /\ Fifo!Commit
  /\ next' = IF next < Len(batch) THEN next + 1 ELSE 1
  /\ pc' = IF next < Len(batch) THEN "push" ELSE "peek"
  /\ UNCHANGED <<server, offset, flashOffset, batch, acks, glass, button, history>>

(* ui_render_queue reads the head of the queue, then takes the LVGL lock     *)
(* and paints what it read.                                                  *)
Peek(task) ==
  /\ op = "none"
  /\ view' = [view EXCEPT ![task] = IF queue = << >> THEN None ELSE Head(queue)]
  /\ UNCHANGED shown
Paint(task) ==
  /\ shown' = view[task]
  /\ view' = [view EXCEPT ![task] = None]

PagerPeek ==
  /\ on /\ pc = "peek" /\ Peek("pager")
  /\ pc' = "paint"
  /\ UNCHANGED <<server, on, offset, flashOffset, batch, next, acks, fifo, button,
                 history>>

PagerPaint ==
  /\ on /\ pc = "paint" /\ Paint("pager")
  /\ pc' = "deliver"
  /\ UNCHANGED <<server, on, offset, flashOffset, batch, next, acks, fifo, button,
                 history>>

Deliver ==
  /\ on /\ pc = "deliver" /\ next <= Len(batch)
  /\ \/ UNCHANGED mark
     \/ batch[next] \notin Mute /\ mark' = [mark EXCEPT ![batch[next]] = "delivered"]
  /\ next' = next + 1
  /\ UNCHANGED <<arrived, confirmed, on, pc, offset, flashOffset, batch, acks, glass,
                 fifo, button, history>>

DeliverDone ==
  /\ on /\ pc = "deliver" /\ next > Len(batch)
  /\ pc' = "save"
  /\ UNCHANGED <<server, on, offset, flashOffset, batch, next, acks, glass, fifo,
                 button, history>>

(* The last thing in the lap. *)
SaveOffset ==
  /\ on /\ pc = "save"
  /\ flashOffset' = offset
  /\ batch' = << >> /\ next' = 1
  /\ pc' = "drain"
  /\ UNCHANGED <<server, on, offset, acks, glass, fifo, button, history>>

-----------------------------------------------------------------------------
(* One core, and the button task has the lower priority: once the pager task *)
(* is ready to render, nothing of the button task comes between but the pop  *)
(* it waits for, and the LVGL lock goes to the pager task first.             *)
ButtonRuns == on /\ pc # "peek"

(* on_button_press on a lit screen.  A press on a dark one only wakes it,   *)
(* and one with nothing queued only changes the footer.                     *)
PressMarksAtOnce ==
  /\ ButtonRuns /\ bpc = "idle"
  /\ Fifo!Pop
  /\ bpc' = "commit" /\ pressed' = Head(queue)
  /\ popped' = popped \cup {Head(queue)}
  /\ Reads(Head(queue))
  /\ UNCHANGED <<arrived, confirmed, pc, offset, flashOffset, batch, next, acks, glass,
                 evicted, lostAcks, copies, crashes>>

Press ==
  /\ ButtonRuns /\ bpc = "idle"
  /\ Fifo!Pop
  /\ bpc' = "commit" /\ pressed' = Head(queue)
  /\ popped' = popped \cup {Head(queue)}
  /\ UNCHANGED <<server, pc, offset, flashOffset, batch, next, acks, glass, evicted,
                 lostAcks, copies, crashes>>

PopUnpainted ==
  /\ on /\ bpc = "commit" /\ Fifo!Commit
  /\ bpc' = "send"
  /\ UNCHANGED <<server, pc, offset, flashOffset, batch, next, acks, glass, pressed,
                 history>>

PopCommits ==
  /\ on /\ bpc = "commit" /\ Fifo!Commit
  /\ bpc' = "peek"
  /\ UNCHANGED <<server, pc, offset, flashOffset, batch, next, acks, glass, pressed,
                 history>>

ButtonPeek ==
  /\ ButtonRuns /\ bpc = "peek" /\ Peek("button")
  /\ bpc' = "paint"
  /\ UNCHANGED <<server, on, pc, offset, flashOffset, batch, next, acks, fifo, pressed,
                 history>>

ButtonPaint ==
  /\ ButtonRuns /\ pc # "paint" /\ bpc = "paint" /\ Paint("button")
  /\ bpc' = "send"
  /\ UNCHANGED <<server, on, pc, offset, flashOffset, batch, next, acks, fifo, pressed,
                 history>>

SendAckUnbounded ==
  /\ ButtonRuns /\ bpc = "send"
  /\ ackQueue' = Append(ackQueue, pressed)
  /\ bpc' = "idle" /\ pressed' = None
  /\ UNCHANGED <<server, on, pc, offset, flashOffset, batch, next, ack, attempt, glass,
                 fifo, history>>

(* Queue the receipt; a full queue drops it. *)
SendAck ==
  /\ ButtonRuns /\ bpc = "send"
  /\ IF Len(ackQueue) < AckCapacity
     THEN ackQueue' = Append(ackQueue, pressed) /\ UNCHANGED lostAcks
     ELSE lostAcks' = lostAcks \cup {pressed} /\ UNCHANGED ackQueue
  /\ bpc' = "idle" /\ pressed' = None
  /\ UNCHANGED <<server, on, pc, offset, flashOffset, batch, next, ack, attempt, glass,
                 fifo, popped, evicted, copies, crashes>>

-----------------------------------------------------------------------------
(* A reset loses RAM, the receipts in it too; msg_queue_init and pager_start *)
(* then restore the queue and the offset, and the task starts with a repaint.*)
Crash ==
  /\ on /\ crashes < MaxCrashes
  /\ Fifo!Crash
  /\ crashes' = crashes + 1
  /\ pc' = "peek" /\ offset' = 0 /\ batch' = << >> /\ next' = 1
  /\ ack' = None /\ attempt' = 1 /\ ackQueue' = << >>
  /\ view' = [t \in DOMAIN view |-> None] /\ shown' = None
  /\ bpc' = "idle" /\ pressed' = None
  /\ lostAcks' = lostAcks \cup {u \in popped : mark[u] # "read"}
  /\ UNCHANGED <<server, flashOffset, popped, evicted, copies>>

Boot ==
  /\ Fifo!Recover
  /\ offset' = flashOffset
  /\ UNCHANGED <<server, pc, flashOffset, batch, next, acks, glass, button, history>>

PagerStep ==
  \/ TakeAck \/ AckSent \/ AckFailed \/ DrainDone
  \/ PollOk \/ PollRefused \/ PollAborted \/ PollFailed
  \/ Push \/ PushTears \/ PushCommits \/ PagerPeek \/ PagerPaint
  \/ Deliver \/ DeliverDone \/ SaveOffset
ButtonStep == PopCommits \/ ButtonPeek \/ ButtonPaint \/ SendAck

Next == Arrive \/ PagerStep \/ Press \/ ButtonStep \/ Crash \/ Boot

(* Both tasks run, and the link works now and then: a poll whose answer fits *)
(* gets it.                                                                  *)
Fairness ==
  /\ WF_vars(PagerStep) /\ WF_vars(ButtonStep) /\ WF_vars(Boot)
  /\ SF_vars(PollOk)

Spec == Init /\ [][Next]_vars
FairSpec == Spec /\ Fairness
=============================================================================
