------------------------------ MODULE PagerProofs ------------------------------
(***************************************************************************)
(* Proofs about the pager task, the button task and the queue between them, *)
(* for every stream of updates, every capacity and any number of resets.    *)
(***************************************************************************)
EXTENDS PagerProps, FiniteSetTheorems, SequenceTheorems, TLAPS

(* What the operations on a queue do to the set of its pages. *)
LEMMA ToSetIs ==
  ASSUME NEW S, NEW s \in Seq(S)
  PROVE  ToSet(s) = {s[i] : i \in 1 .. Len(s)} /\ ToSet(s) \subseteq S
BY DEF ToSet

LEMMA ToSetAppend ==
  ASSUME NEW S, NEW s \in Seq(S), NEW x \in S
  PROVE  /\ Append(s, x) \in Seq(S) /\ Len(Append(s, x)) = Len(s) + 1
         /\ ToSet(Append(s, x)) = ToSet(s) \cup {x}
<1>1. /\ Append(s, x) \in Seq(S) /\ Len(Append(s, x)) = Len(s) + 1
      /\ \A i \in 1 .. Len(s) : Append(s, x)[i] = s[i]
      /\ Append(s, x)[Len(s) + 1] = x
  BY AppendProperties
<1>2. ToSet(s) = {s[i] : i \in 1 .. Len(s)}
  BY ToSetIs
<1>3. ToSet(Append(s, x)) = {Append(s, x)[i] : i \in 1 .. Len(s) + 1}
  BY <1>1, ToSetIs
<1> QED
  BY <1>1, <1>2, <1>3

LEMMA ToSetTail ==
  ASSUME NEW S, NEW s \in Seq(S), s # << >>
  PROVE  /\ Head(s) \in S /\ Tail(s) \in Seq(S) /\ Len(Tail(s)) = Len(s) - 1 /\ Len(s) > 0
         /\ ToSet(s) = {Head(s)} \cup ToSet(Tail(s))
         /\ Head(s) = s[1]
<1>1. /\ Head(s) \in S /\ Tail(s) \in Seq(S) /\ Len(Tail(s)) = Len(s) - 1
      /\ \A i \in 1 .. Len(Tail(s)) : Tail(s)[i] = s[i + 1]
  BY HeadTailProperties
<1>2. Len(s) \in Nat /\ Len(s) > 0 /\ Head(s) = s[1]
  BY EmptySeq
<1>3. ToSet(s) = {s[i] : i \in 1 .. Len(s)}
  BY ToSetIs
<1>4. ToSet(Tail(s)) = {Tail(s)[i] : i \in 1 .. Len(s) - 1}
  BY <1>1, <1>2, ToSetIs
<1>5. ASSUME NEW i \in 1 .. Len(s) PROVE s[i] \in {Head(s)} \cup ToSet(Tail(s))
  <2>1. CASE i = 1
    BY <1>2, <2>1
  <2>2. CASE i # 1
    <3>1. i - 1 \in 1 .. Len(s) - 1 /\ (i - 1) + 1 = i
      BY <1>2, <2>2
    <3>2. Tail(s)[i - 1] = s[i]
      BY <1>1, <3>1
    <3> QED
      BY <1>4, <3>1, <3>2
  <2> QED
    BY <2>1, <2>2
<1>6. ASSUME NEW i \in 1 .. Len(s) - 1 PROVE Tail(s)[i] \in ToSet(s)
  <2>1. i + 1 \in 1 .. Len(s) /\ Tail(s)[i] = s[i + 1]
    BY <1>1, <1>2
  <2> QED
    BY <1>3, <2>1
<1>7. Head(s) \in ToSet(s)
  BY <1>2, <1>3
<1>8. ToSet(s) = {Head(s)} \cup ToSet(Tail(s))
  BY <1>3, <1>4, <1>5, <1>6, <1>7
<1> QED
  BY <1>1, <1>2, <1>8

LEMMA ToSetReplaced ==
  ASSUME NEW S, NEW s \in Seq(S), NEW x \in S, NEW t \in Seq(S), Len(s) > 0, Len(t) = Len(s),
         \A i \in 1 .. Len(s) : t[i] = IF i = 1 THEN x ELSE s[i]
  PROVE  /\ ToSet(t) \subseteq ToSet(s) \cup {x} /\ x \in ToSet(t)
         /\ ToSet(s) \subseteq ToSet(t) \cup {s[1]}
<1>1. Len(s) \in Nat /\ 1 \in 1 .. Len(s)
  OBVIOUS
<1>2. ToSet(s) = {s[i] : i \in 1 .. Len(s)}
  BY ToSetIs
<1>3. ToSet(t) = {t[i] : i \in 1 .. Len(s)}
  BY ToSetIs
<1>4. x \in ToSet(t)
  BY <1>1, <1>3
<1>5. ASSUME NEW i \in 1 .. Len(s)
      PROVE  t[i] \in ToSet(s) \cup {x} /\ s[i] \in ToSet(t) \cup {s[1]}
  BY <1>2, <1>3
<1> QED
  BY <1>2, <1>3, <1>4, <1>5

LEMMA ToSetEmpty == ToSet(<< >>) = {}
BY DEF ToSet

LEMMA ToSetHasEach ==
  ASSUME NEW S, NEW s \in Seq(S)
  PROVE  /\ \A i \in 1 .. Len(s) : s[i] \in ToSet(s) /\ s[i] \in S
         /\ \A x \in ToSet(s) : \E i \in 1 .. Len(s) : s[i] = x
         /\ DOMAIN s = 1 .. Len(s)
BY DEF ToSet

(* An answer's pages, in order. *)
LEMMA InOrderIs ==
  ASSUME NEW S \in SUBSET Update, NEW m \in Nat, NEW n \in Nat, S \subseteq m .. m + n - 1,
         NEW b \in InOrder(S)
  PROVE  /\ b \in Seq(S) /\ Len(b) <= n /\ ToSet(b) = S
         /\ \A i, j \in DOMAIN b : i # j => b[i] # b[j]
<1>1. IsFiniteSet(m .. m + n - 1) /\ Cardinality(m .. m + n - 1) = n
  BY FS_Interval
<1>2. IsFiniteSet(S) /\ Cardinality(S) <= n /\ Cardinality(S) \in Nat
  BY <1>1, FS_Subset, FS_CardinalityType
<1>3. /\ b \in [1 .. Cardinality(S) -> S] /\ ToSet(b) = S
      /\ \A i, j \in DOMAIN b : i < j => b[i] < b[j]
  BY DEF InOrder
<1>4. b \in Seq(S) /\ Len(b) = Cardinality(S) /\ DOMAIN b = 1 .. Cardinality(S)
  BY <1>2, <1>3
<1>5. \A i, j \in DOMAIN b : i # j => b[i] # b[j]
  <2> TAKE i, j \in DOMAIN b
  <2>1. i \in Int /\ j \in Int
    BY <1>2, <1>4
  <2>2. b[i] \in Int /\ b[j] \in Int
    <3>1. b[i] \in Update /\ b[j] \in Update
      BY <1>3, <1>4
    <3> QED
      BY <3>1, PagerAssumption DEF Update
  <2>3. CASE i < j
    BY <1>3, <2>2, <2>3
  <2>4. CASE j < i
    BY <1>3, <2>2, <2>4
  <2> QED
    BY <2>1, <2>3, <2>4
<1> QED
  BY <1>2, <1>3, <1>4, <1>5

-----------------------------------------------------------------------------
(* What the four operations on the queue do. *)
LEMMA PushFacts ==
  ASSUME TypeOK, NEW p \in Paged, Fifo!Push(p)
  PROVE  /\ queue' \in Seq(Paged) /\ Len(queue') <= Capacity /\ drops' \in Nat /\ queue' # << >>
         /\ ToSet(queue') \subseteq ToSet(queue) \cup {p} /\ p \in ToSet(queue')
         /\ Fifo!Full(queue) => /\ Head(queue) \in Paged
                                /\ ToSet(queue) \subseteq ToSet(queue') \cup {Head(queue)}
         /\ ~ Fifo!Full(queue) => ToSet(queue) \subseteq ToSet(queue')
<1> USE PagerAssumption
<1>1. queue \in Seq(Paged) /\ Len(queue) <= Capacity /\ Len(queue) \in Nat /\ drops \in Nat
  BY DEF TypeOK
<1>2. drops' \in Nat
  BY <1>1 DEF Fifo!Push
<1>3. CASE Fifo!Full(queue)
  <2>1. queue # << >> /\ Len(queue) = Capacity
    BY <1>1, <1>3 DEF Fifo!Full
  <2>2. /\ Head(queue) \in Paged /\ Tail(queue) \in Seq(Paged) /\ Len(Tail(queue)) = Capacity - 1
        /\ ToSet(queue) = {Head(queue)} \cup ToSet(Tail(queue))
    BY <1>1, <2>1, ToSetTail
  <2>3. queue' = Append(Tail(queue), p)
    BY <1>3 DEF Fifo!Push
  <2>4. /\ queue' \in Seq(Paged) /\ Len(queue') = Capacity
        /\ ToSet(queue') = ToSet(Tail(queue)) \cup {p}
    <3>1. \A s \in Seq(Paged) : /\ Append(s, p) \in Seq(Paged) /\ Len(Append(s, p)) = Len(s) + 1
                               /\ ToSet(Append(s, p)) = ToSet(s) \cup {p}
      BY ToSetAppend
    <3>2. PICK t \in Seq(Paged) : t = Tail(queue)
      BY <2>2
    <3>3. /\ queue' \in Seq(Paged) /\ Len(queue') = Len(t) + 1
          /\ ToSet(queue') = ToSet(t) \cup {p}
      BY <2>3, <3>1, <3>2
    <3> QED
      BY <2>2, <3>2, <3>3
  <2>5. queue' # << >>
    BY <2>4
  <2> QED
    BY <1>2, <1>3, <2>2, <2>4, <2>5
<1>4. CASE ~ Fifo!Full(queue)
  <2>1. queue' = Append(queue, p)
    BY <1>4 DEF Fifo!Push
  <2>2. /\ queue' \in Seq(Paged) /\ Len(queue') = Len(queue) + 1
        /\ ToSet(queue') = ToSet(queue) \cup {p}
    BY <1>1, <2>1, ToSetAppend
  <2>3. Len(queue) # Capacity
    BY <1>4 DEF Fifo!Full
  <2>4. queue' # << >> /\ Len(queue') <= Capacity
    BY <1>1, <2>2, <2>3
  <2> QED
    BY <1>2, <1>4, <2>2, <2>4
<1> QED
  BY <1>3, <1>4

LEMMA TornFacts ==
  ASSUME TypeOK, Turns, Fifo!Torn
  PROVE  /\ stored' \in Seq(Paged) /\ Len(stored') <= Capacity
         /\ ToSet(stored') \subseteq ToSet(stored) \cup ToSet(queue)
         /\ ToSet(stored) \subseteq ToSet(stored') \cup {stored[1]}
<1>1. /\ queue \in Seq(Paged) /\ queue # << >> /\ stored \in Seq(Paged) /\ Len(stored) = Capacity
  BY DEF TypeOK, Turns, Fifo!Torn, Fifo!Full
<1>2. Len(queue) \in 1 .. Len(queue) /\ Len(stored) > 0
  BY <1>1, EmptySeq, PagerAssumption
<1>3. queue[Len(queue)] \in ToSet(queue) /\ queue[Len(queue)] \in Paged
  BY <1>1, <1>2, ToSetHasEach
<1>4. stored' = [stored EXCEPT ![1] = queue[Len(queue)]]
  BY DEF Fifo!Torn, Fifo!Last
<1>5. PICK x \in Paged : x = queue[Len(queue)]
  BY <1>3
<1>6. stored' = [stored EXCEPT ![1] = x]
  BY <1>4, <1>5
<1>7. /\ stored' \in Seq(Paged) /\ Len(stored') = Len(stored)
      /\ ToSet(stored') \subseteq ToSet(stored) \cup {x}
      /\ ToSet(stored) \subseteq ToSet(stored') \cup {stored[1]}
  <2>1. \A s, t \in Seq(Paged) :
          Len(s) > 0 /\ Len(t) = Len(s) /\ (\A i \in 1 .. Len(s) : t[i] = IF i = 1 THEN x ELSE s[i])
          => /\ ToSet(t) \subseteq ToSet(s) \cup {x}
             /\ ToSet(s) \subseteq ToSet(t) \cup {s[1]}
    BY ToSetReplaced
  <2>2. /\ stored' \in Seq(Paged) /\ Len(stored') = Len(stored)
        /\ \A i \in 1 .. Len(stored) : stored'[i] = IF i = 1 THEN x ELSE stored[i]
    <3>1. 1 \in 1 .. Len(stored)
      BY <1>1, <1>2
    <3> QED
      BY <1>1, <1>6, <3>1, ExceptSeq
  <2> QED
    BY <1>1, <1>2, <2>1, <2>2
<1> QED
  BY <1>1, <1>3, <1>5, <1>7, PagerAssumption

LEMMA PopFacts ==
  ASSUME TypeOK, Fifo!Pop
  PROVE  /\ queue' \in Seq(Paged) /\ Len(queue') <= Capacity
         /\ Head(queue) \in Paged /\ Head(queue) \in ToSet(queue)
         /\ ToSet(queue) = {Head(queue)} \cup ToSet(queue')
<1>1. queue \in Seq(Paged) /\ queue # << >> /\ Len(queue) <= Capacity /\ queue' = Tail(queue)
  BY DEF TypeOK, Fifo!Pop
<1>2. /\ Head(queue) \in Paged /\ Tail(queue) \in Seq(Paged) /\ Len(Tail(queue)) = Len(queue) - 1
      /\ ToSet(queue) = {Head(queue)} \cup ToSet(Tail(queue))
  BY <1>1, ToSetTail
<1>3. Len(queue) \in Nat
  BY <1>1
<1> QED
  BY <1>1, <1>2, <1>3, PagerAssumption

(* A part of the invariant survives a step that leaves its state alone, or    *)
(* moves it the safe way.                                                    *)
LEMMA MirrorFrame ==
  ASSUME Mirror, UNCHANGED <<on, op, stored, queue, evicted, popped, copies>>
  PROVE  Mirror'
BY DEF Mirror, Fifo!Full

LEMMA KeptGrows ==
  ASSUME Kept, UNCHANGED <<confirmed, flashOffset, offset, batch>>,
         Held \subseteq Held', popped \subseteq popped',
         \A u \in Paged : \/ mark'[u] = mark[u]
                          \/ mark'[u] = "delivered" /\ u \in Held'
                          \/ mark'[u] = "read" /\ u \in popped',
         \A i \in DOMAIN batch : Stowed(i)' => Stowed(i) \/ batch[i] \in Held',
         pc' = "commit" => batch[next'] \in ToSet(queue')
  PROVE  Kept'
<1>1. \A u \in Paged : u < confirmed' \/ u < flashOffset' => u \in Held'
  BY DEF Kept
<1>2. \A u \in Paged : u < offset' =>
        u \in Held' \/ \E i \in DOMAIN batch' : batch'[i] = u /\ ~ Stowed(i)'
  BY DEF Kept
<1>3. \A i \in DOMAIN batch' : Stowed(i)' => batch'[i] \in Held'
  BY DEF Kept
<1>4. MarksHonest'
  BY DEF Kept, MarksHonest
<1> QED
  BY <1>1, <1>2, <1>3, <1>4 DEF Kept

LEMMA ReplaysFrame ==
  ASSUME Replays, UNCHANGED <<on, flashOffset, offset, batch, copies, crashes>>,
         \A i \in DOMAIN batch : Pushed(i)' <=> Pushed(i),
         \A i \in DOMAIN batch : mark'[batch[i]] = "read" => mark[batch[i]] = "read"
  PROVE  Replays'
BY DEF Replays

LEMMA GlassFrame ==
  ASSUME GlassTrue, UNCHANGED <<shown, view, bpc>>, pc' = "paint" => pc = "paint",
         popped' = popped, evicted \cup ToSet(queue) \subseteq evicted' \cup ToSet(queue')
  PROVE  GlassTrue'
<1>1. \A u : u \in popped' \ (evicted' \cup ToSet(queue')) => u \in popped \ (evicted \cup ToSet(queue))
  OBVIOUS
<1> QED
  BY <1>1 DEF GlassTrue, Gone

-----------------------------------------------------------------------------
(* drain_acks. *)
LEMMA ReceiptsKeepInv ==
  ASSUME PagerInv, TakeAck \/ AckSent \/ AckFailed \/ DrainDone
  PROVE  PagerInv'
<1>1. /\ on /\ pc \in {"drain", "ack"} /\ pc' \in {"drain", "ack", "poll"}
      /\ UNCHANGED <<arrived, confirmed, on, offset, flashOffset, batch, next, view, shown, queue, drops,
                     stored, storedDrops, op, bpc, pressed, popped, evicted, copies, crashes>>
  BY DEF TakeAck, AckSent, AckFailed, DrainDone, server, acks, glass, fifo, button, history
<1>2. DOMAIN batch = {} /\ batch = << >>
  BY <1>1 DEF PagerInv, Turns
<1>3. /\ ack' \in Paged \cup {None} /\ (pc' = "ack" => ack' # None) /\ attempt' \in 1 .. MaxAttempts
      /\ ackQueue' \in Seq(Paged) /\ Len(ackQueue') <= AckCapacity /\ lostAcks' \subseteq Paged
      /\ {ack'} \cup ToSet(ackQueue') \subseteq {ack, None} \cup ToSet(ackQueue)
  <2>1. /\ ack \in Paged \cup {None} /\ attempt \in 1 .. MaxAttempts /\ MaxAttempts \in Nat \ {0}
        /\ ackQueue \in Seq(Paged) /\ Len(ackQueue) <= AckCapacity /\ lostAcks \subseteq Paged
        /\ (pc = "ack" => ack # None) /\ None \notin Paged
    BY PagerAssumption DEF PagerInv, TypeOK, Turns, Paged, Update
  <2>2. CASE TakeAck
    <3>1. /\ ackQueue # << >> /\ ack' = Head(ackQueue) /\ ackQueue' = Tail(ackQueue)
          /\ attempt' = 1 /\ lostAcks' = lostAcks
      BY <2>2 DEF TakeAck, history
    <3>2. /\ Head(ackQueue) \in Paged /\ Tail(ackQueue) \in Seq(Paged)
          /\ Len(Tail(ackQueue)) = Len(ackQueue) - 1
          /\ ToSet(ackQueue) = {Head(ackQueue)} \cup ToSet(Tail(ackQueue))
      BY <2>1, <3>1, ToSetTail
    <3>3. Len(ackQueue') <= AckCapacity
      BY <2>1, <3>1, <3>2, PagerAssumption
    <3>4. 1 \in 1 .. MaxAttempts
      BY <2>1
    <3> QED
      BY <2>1, <3>1, <3>2, <3>3, <3>4
  <2>3. CASE AckSent \/ AckFailed
    <3>1. /\ ackQueue' = ackQueue /\ ack' \in {ack, None} /\ pc = "ack"
          /\ pc' = "ack" => ack' = ack
      BY <2>3 DEF AckSent, AckFailed
    <3>2. attempt' = attempt \/ (attempt < MaxAttempts /\ attempt' = attempt + 1)
      BY <2>3 DEF AckSent, AckFailed
    <3>3. lostAcks' \subseteq lostAcks \cup {ack}
      BY <2>3 DEF AckSent, AckFailed, history
    <3>4. attempt' \in 1 .. MaxAttempts
      BY <2>1, <3>2
    <3> QED
      BY <2>1, <3>1, <3>3, <3>4
  <2>4. CASE DrainDone
    BY <2>1, <2>4 DEF DrainDone, acks, history
  <2> QED
    BY <2>2, <2>3, <2>4
<1>4. mark' = mark \/ (ack \in Paged /\ ack \in popped /\ mark' = [mark EXCEPT ![ack] = "read"])
  <2>1. mark' = mark \/ (pc = "ack" /\ mark' = [mark EXCEPT ![ack] = "read"])
    BY DEF TakeAck, AckSent, AckFailed, DrainDone, server, Reads
  <2>2. pc = "ack" => ack \in Paged /\ ack \in popped
    BY DEF PagerInv, TypeOK, Turns
  <2> QED
    BY <2>1, <2>2
<1>5. mark \in [Paged -> {"none", "delivered", "read"}] /\ mark' \in [Paged -> {"none", "delivered", "read"}]
  BY <1>4 DEF PagerInv, TypeOK
<1>6. TypeOK'
  BY <1>1, <1>3, <1>5 DEF PagerInv, TypeOK, Stage
<1>7. Turns'
  BY <1>1, <1>2, <1>3 DEF PagerInv, Turns
<1>8. Mirror'
  BY <1>1, MirrorFrame DEF PagerInv
<1>9. Kept'
  <2>1. Held' = Held
    BY <1>1 DEF Held
  <2>2. \A u \in Paged : mark'[u] = mark[u] \/ (mark'[u] = "read" /\ u \in popped')
    BY <1>1, <1>4, <1>5
  <2> QED
    BY <1>1, <1>2, <2>1, <2>2, KeptGrows DEF PagerInv
<1>10. Replays'
  BY <1>1, <1>2, ReplaysFrame DEF PagerInv
<1>11. GlassTrue'
  BY <1>1, GlassFrame DEF PagerInv
<1> QED
  BY <1>6, <1>7, <1>8, <1>9, <1>10, <1>11 DEF PagerInv

-----------------------------------------------------------------------------
(* telegram_poll. *)
LEMMA AnswerIs ==
  ASSUME TypeOK
  PROVE  /\ First \in 1 .. LastUpdate + 1 /\ First >= offset /\ First >= confirmed
         /\ LastSeen \in Int /\ LastSeen <= LastUpdate /\ Answer \subseteq Update
         /\ Answer \subseteq First .. First + Limit - 1
         /\ NextOffset \in 0 .. LastUpdate + 1 /\ NextOffset >= offset
         /\ \A u \in Answer : offset <= u /\ u < NextOffset
         /\ \A u \in Update : u < NextOffset => u < First \/ u \in Answer
<1> USE PagerAssumption
<1>1. /\ arrived \in 0 .. LastUpdate /\ confirmed \in 1 .. LastUpdate + 1
      /\ offset \in 0 .. LastUpdate + 1 /\ LastUpdate \in Nat /\ Limit \in Nat \ {0}
  BY DEF TypeOK
<1>2. First \in 1 .. LastUpdate + 1 /\ First >= offset /\ First >= confirmed
  BY <1>1 DEF First
<1>3. LastSeen \in Int /\ LastSeen <= LastUpdate /\ LastSeen <= First + Limit - 1
  BY <1>1, <1>2 DEF LastSeen
<1>4. Answer \subseteq Update /\ Answer \subseteq First .. First + Limit - 1
  BY <1>1, <1>2, <1>3 DEF Answer, Update
<1>5. CASE Answer = {}
  BY <1>1, <1>2, <1>3, <1>4, <1>5 DEF NextOffset, Update
<1>6. CASE Answer # {}
  <2>1. First <= LastSeen
    BY <1>2, <1>3, <1>6 DEF Answer
  <2>2. NextOffset = LastSeen + 1
    BY <1>6 DEF NextOffset
  <2> QED
    BY <1>1, <1>2, <1>3, <1>4, <2>1, <2>2 DEF Answer, Update
<1> QED
  BY <1>5, <1>6

LEMMA PollOkKeepsInv ==
  ASSUME PagerInv, PollOk
  PROVE  PagerInv'
<1> USE PagerAssumption
<1>1. /\ on /\ pc = "poll" /\ next' = 1 /\ confirmed' = First /\ offset' = NextOffset
      /\ pc' = IF batch' = << >> THEN "save" ELSE "push"
      /\ UNCHANGED <<arrived, mark, on, flashOffset, ack, attempt, ackQueue, view, shown, queue, drops,
                     stored, storedDrops, op, bpc, pressed, popped, evicted, lostAcks, copies, crashes>>
  BY DEF PollOk, Confirm, acks, glass, fifo, button, history
<1>2. /\ First \in 1 .. LastUpdate + 1 /\ First >= offset /\ First >= confirmed
      /\ Answer \subseteq Update /\ Answer \subseteq First .. First + Limit - 1
      /\ NextOffset \in 0 .. LastUpdate + 1 /\ NextOffset >= offset
      /\ \A u \in Answer : offset <= u /\ u < NextOffset
      /\ \A u \in Update : u < NextOffset => u < First \/ u \in Answer
  BY AnswerIs DEF PagerInv
<1>3. /\ batch' \in Seq(Answer \cap Paged) /\ Len(batch') <= Limit /\ ToSet(batch') = Answer \cap Paged
      /\ \A i, j \in DOMAIN batch' : i # j => batch'[i] # batch'[j]
  <2>1. First \in Nat /\ Limit \in Nat
    BY <1>2
  <2>3. /\ Answer \cap Paged \in SUBSET Update
        /\ Answer \cap Paged \subseteq First .. First + Limit - 1
    BY <1>2, Zenon
  <2>2. batch' \in InOrder(Answer \cap Paged)
    BY DEF PollOk
  <2> QED
    BY <2>1, <2>2, <2>3, InOrderIs
<1>4. /\ batch' \in Seq(Paged) /\ Len(batch') \in Nat /\ DOMAIN batch' = 1 .. Len(batch')
      /\ batch' # << >> => Len(batch') >= 1
      /\ \A i \in DOMAIN batch' : batch'[i] \in Answer /\ batch'[i] \in Paged
  <2>1. batch' \in Seq(Paged) /\ Len(batch') \in Nat
    BY <1>3
  <2>2. /\ \A i \in 1 .. Len(batch') : batch'[i] \in Answer \cap Paged
        /\ DOMAIN batch' = 1 .. Len(batch')
    BY <1>3, ToSetHasEach
  <2>3. batch' # << >> => Len(batch') # 0
    BY <2>1, EmptySeq
  <2> QED
    BY <2>1, <2>2, <2>3
<1>5. offset \in 0 .. LastUpdate + 1 /\ confirmed \in 1 .. LastUpdate + 1
      /\ flashOffset \in 0 .. LastUpdate + 1 /\ Paged \subseteq Update /\ Update \subseteq Int
  BY DEF PagerInv, TypeOK, Paged, Update
<1>6. TypeOK'
  BY <1>1, <1>2, <1>3, <1>4 DEF PagerInv, TypeOK, Stage
<1>7. Turns'
  BY <1>1, <1>4 DEF PagerInv, Turns
<1>8. Mirror'
  BY <1>1, MirrorFrame DEF PagerInv
<1>9. \A i \in DOMAIN batch' : ~ Stowed(i)' /\ ~ Pushed(i)'
  <2>1. \A i \in DOMAIN batch' : batch' # << >> /\ ~ (i < 1)
    BY <1>4
  <2> QED
    BY <1>1, <2>1 DEF Stowed, Pushed
<1>10. Held' = Held /\ MarksHonest'
  BY <1>1 DEF Held, PagerInv, Kept, MarksHonest
<1>11. \A u \in Paged : u < First => u \in Held
  <2>1. DOMAIN batch = {}
    BY <1>1 DEF PagerInv, Turns
  <2>2. \A u \in Paged : u < offset \/ u < confirmed => u \in Held
    BY <2>1 DEF PagerInv, Kept
  <2> QED
    BY <1>5, <2>2 DEF First
<1>12. Kept'
  <2>1. \A u \in Paged : u < confirmed' \/ u < flashOffset' => u \in Held'
    BY <1>1, <1>10, <1>11 DEF PagerInv, Kept
  <2>2. ASSUME NEW u \in Paged, u < offset', u \notin Held'
        PROVE  \E i \in DOMAIN batch' : batch'[i] = u /\ ~ Stowed(i)'
    <3>1. u \in Answer \cap Paged
      BY <1>1, <1>2, <1>5, <1>10, <1>11, <2>2
    <3>2. \A x \in ToSet(batch') : \E i \in 1 .. Len(batch') : batch'[i] = x
      BY <1>4, ToSetHasEach
    <3> QED
      BY <1>3, <1>4, <1>9, <3>1, <3>2
  <2> QED
    BY <1>1, <1>9, <1>10, <2>1, <2>2 DEF Kept
<1>13. Replays'
  <2>1. flashOffset' <= offset'
    BY <1>1, <1>2, <1>5 DEF PagerInv, Replays
  <2>2. \A i \in DOMAIN batch' : flashOffset' <= batch'[i] /\ batch'[i] < offset'
    <3> TAKE i \in DOMAIN batch'
    <3>1. offset <= batch'[i] /\ batch'[i] < NextOffset /\ batch'[i] \in Int
      BY <1>2, <1>4, <1>5
    <3>2. flashOffset <= offset
      BY <1>1 DEF PagerInv, Replays
    <3> QED
      BY <1>1, <1>5, <3>1, <3>2
  <2>3. \A u \in Paged : copies'[u] <= 1 + crashes' /\ (u >= offset' => copies'[u] <= crashes')
    BY <1>1, <1>2, <1>5 DEF PagerInv, Replays
  <2>4. \A i \in DOMAIN batch' : copies'[batch'[i]] <= crashes'
    BY <1>1, <1>2, <1>4, <1>5 DEF PagerInv, Replays
  <2> QED
    BY <1>3, <1>9, <2>1, <2>2, <2>3, <2>4 DEF Replays
<1>14. GlassTrue'
  BY <1>1, GlassFrame DEF PagerInv
<1> QED
  BY <1>6, <1>7, <1>8, <1>12, <1>13, <1>14 DEF PagerInv

LEMMA PollEndsKeepInv ==
  ASSUME PagerInv, PollRefused \/ PollAborted \/ PollFailed
  PROVE  PagerInv'
<1>1. /\ on /\ pc = "poll" /\ pc' = "drain" /\ confirmed' \in {confirmed, First}
      /\ UNCHANGED <<arrived, mark, on, offset, flashOffset, batch, next, ack, attempt, ackQueue, view,
                     shown, queue, drops, stored, storedDrops, op, bpc, pressed, popped, evicted,
                     lostAcks, copies, crashes>>
  BY DEF PollRefused, PollAborted, PollFailed, Confirm, acks, glass, fifo, button, history
<1>2. First \in 1 .. LastUpdate + 1
  BY AnswerIs DEF PagerInv
<1>3. DOMAIN batch = {}
  BY <1>1 DEF PagerInv, Turns
<1>4. TypeOK'
  BY <1>1, <1>2 DEF PagerInv, TypeOK, Stage
<1>5. Turns'
  BY <1>1 DEF PagerInv, Turns
<1>6. Mirror'
  BY <1>1, MirrorFrame DEF PagerInv
<1>7. Kept'
  <2>1. \A u \in Paged : u < offset \/ u < confirmed \/ u < flashOffset => u \in Held
    BY <1>3 DEF PagerInv, Kept
  <2>2. \A u \in Paged : u < confirmed' \/ u < flashOffset' \/ u < offset' => u \in Held'
    BY <1>1, <2>1 DEF First, Held
  <2>3. MarksHonest'
    BY <1>1 DEF PagerInv, Kept, MarksHonest, Held
  <2> QED
    BY <1>1, <1>3, <2>2, <2>3 DEF Kept
<1>8. Replays'
  BY <1>1, <1>3, ReplaysFrame DEF PagerInv
<1>9. GlassTrue'
  BY <1>1, GlassFrame DEF PagerInv
<1> QED
  BY <1>4, <1>5, <1>6, <1>7, <1>8, <1>9 DEF PagerInv

-----------------------------------------------------------------------------
(* handle_new_messages: the pushes. *)
LEMMA PushKeepsInv ==
  ASSUME PagerInv, Push
  PROVE  PagerInv'
<1>1. /\ on /\ pc = "push" /\ pc' = "commit" /\ op = "none" /\ op' = "push"
      /\ Fifo!Push(batch[next]) /\ copies' = [copies EXCEPT ![batch[next]] = @ + 1]
      /\ evicted' = IF Fifo!Full(queue) THEN evicted \cup {Head(queue)} ELSE evicted
      /\ UNCHANGED <<arrived, confirmed, mark, on, offset, flashOffset, batch, next, ack, attempt,
                     ackQueue, view, shown, stored, storedDrops, bpc, pressed, popped, lostAcks, crashes>>
  BY DEF Push, Fifo!Push, server, acks, glass, button
<1>2. /\ batch \in Seq(Paged) /\ next \in 1 .. Len(batch) /\ DOMAIN batch = 1 .. Len(batch)
      /\ \A i \in DOMAIN batch : batch[i] \in Paged
      /\ \A i \in DOMAIN batch : i \in Int
  <2>1. batch \in Seq(Paged) /\ next \in 1 .. Len(batch) /\ Len(batch) \in Nat
    BY <1>1 DEF PagerInv, TypeOK, Turns
  <2> QED
    BY <2>1, ToSetHasEach
<1> DEFINE p == batch[next]
<1>3. /\ p \in Paged
      /\ queue' \in Seq(Paged) /\ Len(queue') <= Capacity /\ drops' \in Nat /\ queue' # << >>
      /\ ToSet(queue') \subseteq ToSet(queue) \cup {p} /\ p \in ToSet(queue')
      /\ Fifo!Full(queue) => /\ Head(queue) \in Paged
                             /\ ToSet(queue) \subseteq ToSet(queue') \cup {Head(queue)}
      /\ ~ Fifo!Full(queue) => ToSet(queue) \subseteq ToSet(queue')
  BY <1>1, <1>2, PushFacts DEF PagerInv
<1>4. /\ evicted \subseteq evicted' /\ evicted' \subseteq Paged
      /\ ToSet(queue) \subseteq ToSet(queue') \cup evicted'
  BY <1>1, <1>3 DEF PagerInv, TypeOK
<1>5. /\ copies \in [Paged -> Nat] /\ copies' \in [Paged -> Nat] /\ copies'[p] = copies[p] + 1
      /\ \A u \in Paged : u # p => copies'[u] = copies[u]
  <2>1. copies \in [Paged -> Nat]
    BY DEF PagerInv, TypeOK
  <2>2. copies[p] \in Nat
    BY <1>3, <2>1
  <2>3. PICK n \in Nat : n = copies[p] + 1
    BY <2>2
  <2>4. copies' = [copies EXCEPT ![p] = n]
    BY <1>1, <2>3
  <2> HIDE DEF p
  <2> QED
    BY <1>3, <2>1, <2>3, <2>4
<1> HIDE DEF p
<1>6. TypeOK'
  BY <1>1, <1>3, <1>4, <1>5 DEF PagerInv, TypeOK, Stage
<1>7. Turns'
  BY <1>1, <1>3 DEF PagerInv, Turns
<1>8. Mirror'
  <2>1. stored = queue
    BY <1>1 DEF PagerInv, Mirror
  <2>2. Fifo!Full(stored) => stored[1] \in evicted'
    <3> SUFFICES ASSUME Fifo!Full(queue) PROVE queue[1] \in evicted'
      BY <2>1
    <3>1. queue \in Seq(Paged) /\ queue # << >>
      BY PagerAssumption DEF PagerInv, TypeOK, Fifo!Full
    <3>2. Head(queue) = queue[1]
      BY <3>1, ToSetTail
    <3> QED
      BY <1>1, <3>2
  <2>3. ToSet(stored') \subseteq ToSet(queue') \cup popped' \cup evicted'
    BY <1>1, <1>4, <2>1
  <2>4. \A u \in ToSet(queue') \cup ToSet(stored') \cup popped' : copies'[u] >= 1
    <3> TAKE u \in ToSet(queue') \cup ToSet(stored') \cup popped'
    <3>1. CASE u = p
      BY <1>3, <1>5, <3>1
    <3>2. CASE u # p
      <4>1. u \in ToSet(queue) \cup ToSet(stored) \cup popped
        BY <1>1, <1>3, <3>2
      <4>2. u \in Paged /\ copies[u] >= 1
        BY <4>1, ToSetIs DEF PagerInv, Mirror, TypeOK
      <4> QED
        BY <1>5, <3>2, <4>2
    <3> QED
      BY <3>1, <3>2
  <2>5. Fifo!Full(stored') => Fifo!Full(stored)
    BY <1>1 DEF Fifo!Full
  <2> QED
    BY <1>1, <2>2, <2>3, <2>4, <2>5 DEF Mirror
<1>9. Kept'
  <2>1. Held \subseteq Held'
    BY <1>1, <1>4 DEF Held
  <2>2. \A i \in DOMAIN batch : Stowed(i)' = Stowed(i)
    BY <1>1 DEF Stowed
  <2>3. batch[next'] \in ToSet(queue')
    BY <1>1, <1>3 DEF p
  <2> QED
    BY <1>1, <2>1, <2>2, <2>3, KeptGrows DEF PagerInv
<1>10. Replays'
  <2>1. \A i \in DOMAIN batch : /\ Pushed(i) <=> i < next
                                /\ Pushed(i)' <=> i <= next
    BY <1>1, <1>2 DEF Pushed
  <2>2. copies[p] <= crashes /\ p < offset /\ crashes \in Nat /\ next \in DOMAIN batch
    <3>1. next \in DOMAIN batch /\ next \in Int
      BY <1>2
    <3>2. ~ Pushed(next)
      BY <2>1, <3>1
    <3>3. copies[p] <= crashes /\ p < offset
      BY <3>1, <3>2 DEF p, PagerInv, Replays
    <3>4. crashes \in Nat
      BY PagerAssumption DEF PagerInv, TypeOK
    <3> QED
      BY <3>1, <3>3, <3>4
  <2>3. \A u \in Paged : copies'[u] <= 1 + crashes /\ (u >= offset => copies'[u] <= crashes)
    <3> TAKE u \in Paged
    <3>1. CASE u = p
      <4>1. p \in Int /\ offset \in Int
        BY <1>3, PagerAssumption DEF Paged, Update, PagerInv, TypeOK
      <4> QED
        BY <1>5, <2>2, <3>1, <4>1
    <3>2. CASE u # p
      BY <1>5, <3>2 DEF PagerInv, Replays
    <3> QED
      BY <3>1, <3>2
  <2>4. \A i \in DOMAIN batch : ~ Pushed(i)' => copies'[batch[i]] <= crashes
    <3> SUFFICES ASSUME NEW i \in DOMAIN batch, ~ Pushed(i)' PROVE copies'[batch[i]] <= crashes
      OBVIOUS
    <3>1. ~ Pushed(i) /\ i # next
      BY <1>2, <2>1
    <3>2. batch[i] # p /\ batch[i] \in Paged /\ copies[batch[i]] <= crashes
      BY <1>2, <2>2, <3>1 DEF p, PagerInv, Replays
    <3> QED
      BY <1>5, <3>2
  <2>5. \A i \in DOMAIN batch : Pushed(i)' /\ mark[batch[i]] = "read" => copies'[batch[i]] >= 2
    <3> SUFFICES ASSUME NEW i \in DOMAIN batch, Pushed(i)', mark[batch[i]] = "read"
                 PROVE  copies'[batch[i]] >= 2
      OBVIOUS
    <3>1. CASE i = next
      <4>1. p \in popped
        BY <1>3, <3>1 DEF p, PagerInv, Kept, MarksHonest
      <4>2. copies[p] >= 1
        BY <4>1 DEF PagerInv, Mirror
      <4> QED
        BY <1>3, <1>5, <3>1, <4>2 DEF p
    <3>2. CASE i # next
      <4>1. Pushed(i)
        BY <1>2, <2>1, <3>2
      <4>2. batch[i] # p /\ batch[i] \in Paged /\ copies[batch[i]] >= 2
        BY <1>2, <2>2, <3>2, <4>1 DEF p, PagerInv, Replays
      <4> QED
        BY <1>5, <4>2
    <3> QED
      BY <3>1, <3>2
  <2> QED
    BY <1>1, <2>3, <2>4, <2>5 DEF PagerInv, Replays
<1>11. GlassTrue'
  BY <1>1, <1>4, GlassFrame DEF PagerInv
<1> QED
  BY <1>6, <1>7, <1>8, <1>9, <1>10, <1>11 DEF PagerInv

LEMMA PushTearsKeepsInv ==
  ASSUME PagerInv, PushTears
  PROVE  PagerInv'
<1>1. /\ on /\ pc = "commit" /\ op = "push" /\ op' = "torn" /\ Fifo!Torn
      /\ UNCHANGED <<arrived, confirmed, mark, on, pc, offset, flashOffset, batch, next, ack, attempt,
                     ackQueue, view, shown, queue, drops, storedDrops, bpc, pressed, popped, evicted,
                     lostAcks, copies, crashes>>
  BY DEF PushTears, Fifo!Torn, server, acks, glass, button, history
<1>2. /\ stored' \in Seq(Paged) /\ Len(stored') <= Capacity
      /\ ToSet(stored') \subseteq ToSet(stored) \cup ToSet(queue)
      /\ ToSet(stored) \subseteq ToSet(stored') \cup {stored[1]}
  BY <1>1, TornFacts DEF PagerInv
<1>3. stored[1] \in evicted
  BY <1>1 DEF PagerInv, Mirror, Fifo!Torn
<1>4. TypeOK'
  BY <1>1, <1>2 DEF PagerInv, TypeOK
<1>5. Turns'
  BY <1>1 DEF PagerInv, Turns
<1>6. Mirror'
  BY <1>1, <1>2 DEF PagerInv, Mirror
<1>7. Kept'
  <2>1. Held \subseteq Held'
    BY <1>1, <1>2, <1>3 DEF Held
  <2>2. \A i \in DOMAIN batch : Stowed(i)' = Stowed(i)
    BY <1>1 DEF Stowed
  <2>3. batch[next'] \in ToSet(queue')
    BY <1>1 DEF PagerInv, Kept
  <2> QED
    BY <1>1, <2>1, <2>2, <2>3, KeptGrows DEF PagerInv
<1>8. Replays'
  <2>1. \A i \in DOMAIN batch : (Pushed(i)' <=> Pushed(i))
    BY <1>1 DEF Pushed
  <2> QED
    BY <1>1, <2>1, ReplaysFrame DEF PagerInv
<1>9. GlassTrue'
  BY <1>1, GlassFrame DEF PagerInv
<1> QED
  BY <1>4, <1>5, <1>6, <1>7, <1>8, <1>9 DEF PagerInv

LEMMA PushCommitsKeepsInv ==
  ASSUME PagerInv, PushCommits
  PROVE  PagerInv'
<1>1. /\ on /\ pc = "commit" /\ op \in {"push", "torn"} /\ op' = "none"
      /\ stored' = queue /\ storedDrops' = drops
      /\ next' = IF next < Len(batch) THEN next + 1 ELSE 1
      /\ pc' = IF next < Len(batch) THEN "push" ELSE "peek"
      /\ UNCHANGED <<arrived, confirmed, mark, on, offset, flashOffset, batch, ack, attempt,
                     ackQueue, view, shown, queue, drops, bpc, pressed, popped, evicted,
                     lostAcks, copies, crashes>>
  BY DEF PushCommits, Fifo!Commit, server, acks, glass, button, history, PagerInv, Turns
<1>2. /\ batch \in Seq(Paged) /\ next \in 1 .. Len(batch) /\ Len(batch) \in Nat
      /\ DOMAIN batch = 1 .. Len(batch) /\ Len(batch) <= Limit
  <2>1. batch \in Seq(Paged) /\ next \in 1 .. Len(batch) /\ Len(batch) \in Nat /\ Len(batch) <= Limit
    BY <1>1 DEF PagerInv, TypeOK, Turns
  <2> QED
    BY <2>1
<1>3. next' \in 1 .. Limit + 1
  BY <1>1, <1>2, PagerAssumption
<1>4. TypeOK'
  BY <1>1, <1>3 DEF PagerInv, TypeOK, Stage
<1>5. pc' = "push" => next' <= Len(batch)
  BY <1>1, <1>2
<1>6. Turns'
  BY <1>1, <1>5 DEF PagerInv, Turns
<1>7. Mirror'
  BY <1>1 DEF PagerInv, Mirror
<1>8. \A i \in DOMAIN batch : /\ Stowed(i) <=> i < next
                              /\ Pushed(i) <=> i <= next
                              /\ Stowed(i)' <=> i <= next
                              /\ Pushed(i)' <=> i <= next
  <2> TAKE i \in DOMAIN batch
  <2>1. i \in 1 .. Len(batch)
    BY <1>2
  <2>2. CASE next < Len(batch)
    BY <1>1, <1>2, <2>1, <2>2 DEF Stowed, Pushed
  <2>3. CASE ~ (next < Len(batch))
    BY <1>1, <1>2, <2>1, <2>3 DEF Stowed, Pushed
  <2> QED
    BY <2>2, <2>3
<1>9. Kept'
  <2>1. Held \subseteq Held'
    BY <1>1 DEF Held, PagerInv, Mirror
  <2>2. batch[next] \in Held'
    BY <1>1 DEF Held, PagerInv, Kept
  <2>3. \A i \in DOMAIN batch : Stowed(i)' => Stowed(i) \/ batch[i] \in Held'
    <3> TAKE i \in DOMAIN batch
    <3>1. i \in Int /\ next \in Int
      BY <1>2
    <3> QED
      BY <1>8, <2>2, <3>1
  <2> QED
    BY <1>1, <2>1, <2>3, KeptGrows DEF PagerInv
<1>10. Replays'
  <2>1. \A i \in DOMAIN batch : Pushed(i)' <=> Pushed(i)
    BY <1>8
  <2> QED
    BY <1>1, <2>1, ReplaysFrame DEF PagerInv
<1>11. GlassTrue'
  BY <1>1, GlassFrame DEF PagerInv
<1> QED
  BY <1>4, <1>6, <1>7, <1>9, <1>10, <1>11 DEF PagerInv

-----------------------------------------------------------------------------
(* The repaints. *)
LEMMA PeekedNotGone ==
  ASSUME TypeOK, NEW u, u = IF queue = << >> THEN None ELSE Head(queue)
  PROVE  u \in Paged \cup {None} /\ ~ Gone(u)
<1>1. queue \in Seq(Paged) /\ popped \subseteq Paged /\ None \notin Paged
  BY PagerAssumption DEF TypeOK, Paged, Update
<1>2. CASE queue = << >>
  BY <1>1, <1>2 DEF Gone
<1>3. CASE queue # << >>
  <2>1. Head(queue) \in Paged /\ ToSet(queue) = {Head(queue)} \cup ToSet(Tail(queue))
    BY <1>1, <1>3, ToSetTail
  <2> QED
    BY <1>3, <2>1 DEF Gone
<1> QED
  BY <1>2, <1>3

(* A repaint touches the glass alone.                                        *)
LEMMA RepaintKeepsRest ==
  ASSUME PagerInv,
         UNCHANGED <<arrived, confirmed, mark, on, offset, flashOffset, batch, next, ack, attempt, ackQueue,
                     queue, drops, stored, storedDrops, op, pressed, popped, evicted, lostAcks, copies,
                     crashes>>,
         on, pc' \in Stage, bpc' \in {"idle", "commit", "peek", "paint", "send"},
         pc' # pc => {pc, pc'} \subseteq {"peek", "paint", "deliver", "save"},
         bpc' # bpc => {bpc, bpc'} \subseteq {"peek", "paint", "send"},
         view' \in [{"pager", "button"} -> Paged \cup {None}], shown' \in Paged \cup {None}
  PROVE  TypeOK' /\ Turns' /\ Mirror' /\ Kept' /\ Replays'
<1>1. TypeOK'
  BY DEF PagerInv, TypeOK
<1>2. Turns'
  BY DEF PagerInv, Turns, Stage
<1>3. Mirror'
  BY MirrorFrame DEF PagerInv
<1>4. \A i \in DOMAIN batch : (Pushed(i)' <=> Pushed(i)) /\ (Stowed(i)' <=> Stowed(i))
  BY DEF Pushed, Stowed
<1>5. Kept'
  <2>1. Held' = Held
    BY DEF Held
  <2>2. pc' = "commit" => batch[next'] \in ToSet(queue')
    BY DEF PagerInv, Kept
  <2> QED
    BY <1>4, <2>1, <2>2, KeptGrows DEF PagerInv
<1>6. Replays'
  BY <1>4, ReplaysFrame DEF PagerInv
<1> QED
  BY <1>1, <1>2, <1>3, <1>5, <1>6

LEMMA PagerPaintsKeepInv ==
  ASSUME PagerInv, PagerPeek \/ PagerPaint
  PROVE  PagerInv'
<1>1. UNCHANGED <<arrived, confirmed, mark, on, offset, flashOffset, batch, next, ack, attempt, ackQueue,
                  queue, drops, stored, storedDrops, op, bpc, pressed, popped, evicted, lostAcks, copies,
                  crashes>>
  BY DEF PagerPeek, PagerPaint, server, acks, fifo, button, history
<1>2. /\ on /\ view \in [{"pager", "button"} -> Paged \cup {None}] /\ shown \in Paged \cup {None}
      /\ bpc \in {"idle", "commit", "peek", "paint", "send"}
  BY DEF PagerPeek, PagerPaint, PagerInv, TypeOK
<1>3. \A u : Gone(u)' = Gone(u)
  BY <1>1 DEF Gone
<1>4. CASE PagerPeek
  <2>1. PICK u : u = IF queue = << >> THEN None ELSE Head(queue)
    OBVIOUS
  <2>2. pc = "peek" /\ pc' = "paint" /\ shown' = shown /\ view' = [view EXCEPT !["pager"] = u]
    BY <1>4, <2>1 DEF PagerPeek, Peek
  <2>3. u \in Paged \cup {None} /\ ~ Gone(u)
    BY <2>1, PeekedNotGone DEF PagerInv
  <2>4. /\ view' \in [{"pager", "button"} -> Paged \cup {None}]
        /\ view'["pager"] = u /\ view'["button"] = view["button"]
    BY <1>2, <2>2, <2>3
  <2>5. GlassTrue'
    BY <1>1, <1>3, <2>2, <2>3, <2>4 DEF PagerInv, GlassTrue
  <2> QED
    BY <1>1, <1>2, <2>2, <2>4, <2>5, RepaintKeepsRest DEF PagerInv, Stage
<1>5. CASE PagerPaint
  <2>1. /\ pc = "paint" /\ pc' = "deliver" /\ shown' = view["pager"]
        /\ view' = [view EXCEPT !["pager"] = None]
    BY <1>5 DEF PagerPaint, Paint
  <2>2. /\ view' \in [{"pager", "button"} -> Paged \cup {None}] /\ shown' \in Paged \cup {None}
        /\ view'["button"] = view["button"]
    BY <1>2, <2>1
  <2>3. GlassTrue'
    BY <1>1, <1>3, <2>1, <2>2 DEF PagerInv, GlassTrue
  <2> QED
    BY <1>1, <1>2, <2>1, <2>2, <2>3, RepaintKeepsRest DEF PagerInv, Stage
<1> QED
  BY <1>4, <1>5

LEMMA ButtonPaintsKeepInv ==
  ASSUME PagerInv, ButtonPeek \/ ButtonPaint
  PROVE  PagerInv'
<1>1. UNCHANGED <<arrived, confirmed, mark, on, pc, offset, flashOffset, batch, next, ack, attempt,
                  ackQueue, queue, drops, stored, storedDrops, op, pressed, popped, evicted, lostAcks,
                  copies, crashes>>
  BY DEF ButtonPeek, ButtonPaint, server, acks, fifo, history
<1>2. /\ on /\ view \in [{"pager", "button"} -> Paged \cup {None}] /\ shown \in Paged \cup {None}
      /\ pc \in Stage
  BY DEF ButtonPeek, ButtonPaint, ButtonRuns, PagerInv, TypeOK
<1>3. \A u : Gone(u)' = Gone(u)
  BY <1>1 DEF Gone
<1>4. CASE ButtonPeek
  <2>1. PICK u : u = IF queue = << >> THEN None ELSE Head(queue)
    OBVIOUS
  <2>2. bpc = "peek" /\ bpc' = "paint" /\ shown' = shown /\ view' = [view EXCEPT !["button"] = u]
    BY <1>4, <2>1 DEF ButtonPeek, Peek
  <2>3. u \in Paged \cup {None} /\ ~ Gone(u)
    BY <2>1, PeekedNotGone DEF PagerInv
  <2>4. /\ view' \in [{"pager", "button"} -> Paged \cup {None}]
        /\ view'["button"] = u /\ view'["pager"] = view["pager"]
    BY <1>2, <2>2, <2>3
  <2>5. GlassTrue'
    BY <1>1, <1>3, <2>2, <2>3, <2>4 DEF PagerInv, GlassTrue
  <2> QED
    BY <1>1, <1>2, <2>2, <2>4, <2>5, RepaintKeepsRest DEF PagerInv
<1>5. CASE ButtonPaint
  <2>1. /\ pc # "paint" /\ bpc = "paint" /\ bpc' = "send" /\ shown' = view["button"]
        /\ view' = [view EXCEPT !["button"] = None]
    BY <1>5 DEF ButtonPaint, Paint
  <2>2. view' \in [{"pager", "button"} -> Paged \cup {None}] /\ shown' \in Paged \cup {None}
    BY <1>2, <2>1
  <2>3. GlassTrue'
    BY <1>1, <1>3, <2>1 DEF PagerInv, GlassTrue
  <2> QED
    BY <1>1, <1>2, <2>1, <2>2, <2>3, RepaintKeepsRest DEF PagerInv
<1> QED
  BY <1>4, <1>5

-----------------------------------------------------------------------------
(* The delivery marks, and the offset saved last. *)
LEMMA DeliveriesKeepInv ==
  ASSUME PagerInv, Deliver \/ DeliverDone
  PROVE  PagerInv'
<1>1. /\ on /\ pc = "deliver" /\ pc' \in {"deliver", "save"}
      /\ UNCHANGED <<arrived, confirmed, on, offset, flashOffset, batch, ack, attempt, ackQueue, view,
                     shown, queue, drops, stored, storedDrops, op, bpc, pressed, popped, evicted,
                     lostAcks, copies, crashes>>
  BY DEF Deliver, DeliverDone, server, acks, glass, fifo, button, history
<1>2. batch \in Seq(Paged) /\ Len(batch) \in Nat /\ DOMAIN batch = 1 .. Len(batch)
      /\ Len(batch) <= Limit /\ next \in 1 .. Limit + 1 /\ Limit \in Nat
  BY PagerAssumption DEF PagerInv, TypeOK
<1>3. next' \in 1 .. Limit + 1
  <2>1. next' = next \/ (next <= Len(batch) /\ next' = next + 1)
    BY DEF Deliver, DeliverDone
  <2> QED
    BY <1>2, <2>1
<1>4. \/ mark' = mark
      \/ \E u \in Paged : u \in Held /\ mark' = [mark EXCEPT ![u] = "delivered"]
  <2>1. \/ mark' = mark
        \/ next <= Len(batch) /\ mark' = [mark EXCEPT ![batch[next]] = "delivered"]
    BY DEF Deliver, DeliverDone, server
  <2>2. next <= Len(batch) => next \in DOMAIN batch
    BY <1>2
  <2>3. next \in DOMAIN batch => batch[next] \in Paged /\ batch[next] \in Held
    BY <1>1, <1>2 DEF PagerInv, Kept, Stowed
  <2> QED
    BY <2>1, <2>2, <2>3
<1>5. /\ mark \in [Paged -> {"none", "delivered", "read"}]
      /\ mark' \in [Paged -> {"none", "delivered", "read"}]
      /\ \A u \in Paged : mark'[u] = mark[u] \/ (mark'[u] = "delivered" /\ u \in Held)
  <2>1. mark \in [Paged -> {"none", "delivered", "read"}]
    BY DEF PagerInv, TypeOK
  <2> QED
    BY <1>4, <2>1
<1>6. TypeOK'
  BY <1>1, <1>3, <1>5 DEF PagerInv, TypeOK, Stage
<1>7. Turns'
  BY <1>1 DEF PagerInv, Turns
<1>8. Mirror'
  BY <1>1, MirrorFrame DEF PagerInv
<1>9. Held' = Held
  BY <1>1 DEF Held
<1>10. \A i \in DOMAIN batch : Stowed(i) /\ (Pushed(i)' <=> Pushed(i))
  BY <1>1 DEF Stowed, Pushed
<1>11. Kept'
  BY <1>1, <1>5, <1>9, <1>10, KeptGrows DEF PagerInv
<1>12. Replays'
  <2>1. \A i \in DOMAIN batch : mark'[batch[i]] = "read" => mark[batch[i]] = "read"
    BY <1>2, <1>5
  <2> QED
    BY <1>1, <1>10, <2>1, ReplaysFrame DEF PagerInv
<1>13. GlassTrue'
  BY <1>1, GlassFrame DEF PagerInv
<1> QED
  BY <1>6, <1>7, <1>8, <1>11, <1>12, <1>13 DEF PagerInv

LEMMA SaveOffsetKeepsInv ==
  ASSUME PagerInv, SaveOffset
  PROVE  PagerInv'
<1>1. /\ on /\ pc = "save" /\ pc' = "drain" /\ flashOffset' = offset /\ batch' = << >> /\ next' = 1
      /\ UNCHANGED <<arrived, confirmed, mark, on, offset, ack, attempt, ackQueue, view, shown, queue,
                     drops, stored, storedDrops, op, bpc, pressed, popped, evicted, lostAcks, copies,
                     crashes>>
  BY DEF SaveOffset, server, acks, glass, fifo, button, history
<1>2. batch' \in Seq(Paged) /\ Len(batch') = 0 /\ DOMAIN batch' = {}
  BY <1>1
<1>3. TypeOK'
  <2>1. Len(batch') <= Limit /\ next' \in 1 .. Limit + 1
    BY <1>1, <1>2, PagerAssumption
  <2>2. offset \in 0 .. LastUpdate + 1
    BY DEF PagerInv, TypeOK
  <2> QED
    BY <1>1, <1>2, <2>1, <2>2 DEF PagerInv, TypeOK, Stage
<1>4. Turns'
  BY <1>1 DEF PagerInv, Turns
<1>5. Mirror'
  BY <1>1, MirrorFrame DEF PagerInv
<1>6. Kept'
  <2>1. \A u \in Paged : u < confirmed \/ u < offset => u \in Held
    BY <1>1 DEF PagerInv, Kept, Stowed
  <2>2. \A u \in Paged : u < confirmed' \/ u < flashOffset' \/ u < offset' => u \in Held'
    BY <1>1, <2>1 DEF Held
  <2>3. MarksHonest'
    BY <1>1 DEF PagerInv, Kept, MarksHonest, Held
  <2> QED
    BY <1>1, <1>2, <2>2, <2>3 DEF Kept
<1>7. Replays'
  <2>1. offset \in Int
    BY PagerAssumption DEF PagerInv, TypeOK
  <2> QED
    BY <1>1, <1>2, <2>1 DEF PagerInv, Replays
<1>8. GlassTrue'
  BY <1>1, GlassFrame DEF PagerInv
<1> QED
  BY <1>3, <1>4, <1>5, <1>6, <1>7, <1>8 DEF PagerInv

-----------------------------------------------------------------------------
(* on_button_press. *)
LEMMA PressKeepsInv ==
  ASSUME PagerInv, Press
  PROVE  PagerInv'
<1>1. /\ on /\ pc # "peek" /\ bpc = "idle" /\ bpc' = "commit" /\ op = "none" /\ op' = "pop"
      /\ Fifo!Pop /\ pressed' = Head(queue) /\ popped' = popped \cup {Head(queue)}
      /\ UNCHANGED <<arrived, confirmed, mark, on, pc, offset, flashOffset, batch, next, ack, attempt,
                     ackQueue, view, shown, drops, stored, storedDrops, evicted, lostAcks, copies,
                     crashes>>
  BY DEF Press, ButtonRuns, Fifo!Pop, server, acks, glass
<1>2. /\ queue' \in Seq(Paged) /\ Len(queue') <= Capacity
      /\ Head(queue) \in Paged /\ Head(queue) \in ToSet(queue)
      /\ ToSet(queue) = {Head(queue)} \cup ToSet(queue')
  BY <1>1, PopFacts DEF PagerInv
<1>3. None \notin Paged /\ pc # "commit"
  BY <1>1, PagerAssumption DEF Paged, Update, PagerInv, Turns
<1>4. TypeOK'
  BY <1>1, <1>2 DEF PagerInv, TypeOK
<1>5. Turns'
  BY <1>1, <1>2, <1>3 DEF PagerInv, Turns
<1>6. Mirror'
  BY <1>1, <1>2 DEF PagerInv, Mirror
<1>7. Kept'
  <2>1. Held \subseteq Held'
    BY <1>1 DEF Held
  <2>2. \A i \in DOMAIN batch : Stowed(i)' <=> Stowed(i)
    BY <1>1 DEF Stowed
  <2> QED
    BY <1>1, <1>3, <2>1, <2>2, KeptGrows DEF PagerInv
<1>8. Replays'
  <2>1. \A i \in DOMAIN batch : Pushed(i)' <=> Pushed(i)
    BY <1>1 DEF Pushed
  <2> QED
    BY <1>1, <2>1, ReplaysFrame DEF PagerInv
<1>9. GlassTrue'
  BY <1>1 DEF GlassTrue
<1> QED
  BY <1>4, <1>5, <1>6, <1>7, <1>8, <1>9 DEF PagerInv

LEMMA PopCommitsKeepsInv ==
  ASSUME PagerInv, PopCommits
  PROVE  PagerInv'
<1>1. /\ on /\ bpc = "commit" /\ bpc' = "peek" /\ op = "pop" /\ op' = "none" /\ pc # "commit"
      /\ stored' = queue /\ storedDrops' = drops
      /\ UNCHANGED <<arrived, confirmed, mark, on, pc, offset, flashOffset, batch, next, ack, attempt,
                     ackQueue, view, shown, queue, drops, pressed, popped, evicted, lostAcks, copies,
                     crashes>>
  BY DEF PopCommits, Fifo!Commit, server, acks, glass, history, PagerInv, Turns
<1>2. TypeOK'
  BY <1>1 DEF PagerInv, TypeOK
<1>3. Turns'
  BY <1>1 DEF PagerInv, Turns
<1>4. Mirror'
  BY <1>1 DEF PagerInv, Mirror
<1>5. Kept'
  <2>1. Held \subseteq Held'
    BY <1>1 DEF Held, PagerInv, Mirror
  <2>2. \A i \in DOMAIN batch : Stowed(i)' <=> Stowed(i)
    BY <1>1 DEF Stowed
  <2> QED
    BY <1>1, <2>1, <2>2, KeptGrows DEF PagerInv
<1>6. Replays'
  <2>1. \A i \in DOMAIN batch : Pushed(i)' <=> Pushed(i)
    BY <1>1 DEF Pushed
  <2> QED
    BY <1>1, <2>1, ReplaysFrame DEF PagerInv
<1>7. GlassTrue'
  BY <1>1 DEF PagerInv, GlassTrue, Gone
<1> QED
  BY <1>2, <1>3, <1>4, <1>5, <1>6, <1>7 DEF PagerInv

LEMMA SendAckKeepsInv ==
  ASSUME PagerInv, SendAck
  PROVE  PagerInv'
<1>1. /\ on /\ bpc = "send" /\ bpc' = "idle" /\ pressed' = None
      /\ UNCHANGED <<arrived, confirmed, mark, on, pc, offset, flashOffset, batch, next, ack, attempt, view,
                     shown, queue, drops, stored, storedDrops, op, popped, evicted, copies, crashes>>
  BY DEF SendAck, ButtonRuns, server, glass, fifo
<1>2. pressed \in Paged /\ pressed \in popped
  BY <1>1 DEF PagerInv, TypeOK, Turns
<1>3. /\ ackQueue' \in Seq(Paged) /\ Len(ackQueue') <= AckCapacity /\ lostAcks' \subseteq Paged
      /\ ToSet(ackQueue') \subseteq ToSet(ackQueue) \cup {pressed}
  <2>1. /\ ackQueue \in Seq(Paged) /\ Len(ackQueue) <= AckCapacity /\ Len(ackQueue) \in Nat
        /\ lostAcks \subseteq Paged /\ AckCapacity \in Nat
    BY PagerAssumption DEF PagerInv, TypeOK
  <2>2. CASE Len(ackQueue) < AckCapacity
    <3>1. ackQueue' = Append(ackQueue, pressed) /\ lostAcks' = lostAcks
      BY <2>2 DEF SendAck
    <3>2. /\ ackQueue' \in Seq(Paged) /\ Len(ackQueue') = Len(ackQueue) + 1
          /\ ToSet(ackQueue') = ToSet(ackQueue) \cup {pressed}
      BY <1>2, <2>1, <3>1, ToSetAppend
    <3> QED
      BY <2>1, <2>2, <3>1, <3>2
  <2>3. CASE ~ (Len(ackQueue) < AckCapacity)
    BY <1>2, <2>1, <2>3 DEF SendAck
  <2> QED
    BY <2>2, <2>3
<1>4. TypeOK'
  BY <1>1, <1>3 DEF PagerInv, TypeOK
<1>5. Turns'
  BY <1>1, <1>2, <1>3 DEF PagerInv, Turns
<1>6. Mirror'
  BY <1>1, MirrorFrame DEF PagerInv
<1>7. Kept'
  <2>1. Held' = Held
    BY <1>1 DEF Held
  <2>2. \A i \in DOMAIN batch : Stowed(i)' <=> Stowed(i)
    BY <1>1 DEF Stowed
  <2>3. pc' = "commit" => batch[next'] \in ToSet(queue')
    BY <1>1 DEF PagerInv, Kept
  <2> QED
    BY <1>1, <2>1, <2>2, <2>3, KeptGrows DEF PagerInv
<1>8. Replays'
  <2>1. \A i \in DOMAIN batch : Pushed(i)' <=> Pushed(i)
    BY <1>1 DEF Pushed
  <2> QED
    BY <1>1, <2>1, ReplaysFrame DEF PagerInv
<1>9. GlassTrue'
  BY <1>1 DEF PagerInv, GlassTrue, Gone
<1> QED
  BY <1>4, <1>5, <1>6, <1>7, <1>8, <1>9 DEF PagerInv

-----------------------------------------------------------------------------
(* Messages from outside, and resets. *)
LEMMA ArriveKeepsInv ==
  ASSUME PagerInv, Arrive
  PROVE  PagerInv'
<1>1. /\ arrived < LastUpdate /\ arrived' = arrived + 1
      /\ UNCHANGED <<confirmed, mark, on, pc, offset, flashOffset, batch, next, ack, attempt, ackQueue, view,
                     shown, queue, drops, stored, storedDrops, op, bpc, pressed, popped, evicted,
                     lostAcks, copies, crashes>>
  BY DEF Arrive, acks, glass, fifo, button, history
<1>2. arrived' \in 0 .. LastUpdate
  BY <1>1, PagerAssumption DEF PagerInv, TypeOK
<1>3. TypeOK'
  BY <1>1, <1>2 DEF PagerInv, TypeOK
<1>4. Turns' /\ Mirror' /\ GlassTrue'
  BY <1>1 DEF PagerInv, Turns, Mirror, Fifo!Full, GlassTrue, Gone
<1>5. Kept'
  BY <1>1 DEF PagerInv, Kept, MarksHonest, Held, Stowed
<1>6. Replays'
  <2>1. \A i \in DOMAIN batch : Pushed(i)' <=> Pushed(i)
    BY <1>1 DEF Pushed
  <2> QED
    BY <1>1, <2>1, ReplaysFrame DEF PagerInv
<1> QED
  BY <1>3, <1>4, <1>5, <1>6 DEF PagerInv

LEMMA CrashKeepsInv ==
  ASSUME PagerInv, Crash
  PROVE  PagerInv'
<1> USE PagerAssumption
<1>1. /\ ~ on' /\ crashes < MaxCrashes /\ crashes' = crashes + 1 /\ pc' = "peek" /\ offset' = 0
      /\ batch' = << >> /\ next' = 1 /\ ack' = None /\ attempt' = 1 /\ ackQueue' = << >>
      /\ queue' = << >> /\ drops' = 0 /\ op' = "none" /\ bpc' = "idle" /\ pressed' = None
      /\ view' = [t \in DOMAIN view |-> None] /\ shown' = None
      /\ lostAcks' = lostAcks \cup {u \in popped : mark[u] # "read"}
      /\ UNCHANGED <<arrived, confirmed, mark, flashOffset, stored, storedDrops, popped, evicted, copies>>
  BY DEF Crash, Fifo!Crash, server
<1>2. on' = FALSE
  BY DEF Crash, Fifo!Crash
<1>3. /\ << >> \in Seq(Paged) /\ Len(<< >>) = 0 /\ DOMAIN << >> = {} /\ ToSet(<< >>) = {}
      /\ None \notin Paged
  BY ToSetEmpty DEF Paged, Update
<1>4. TypeOK'
  <2>1. /\ queue' \in Seq(Paged) /\ Len(queue') <= Capacity /\ batch' \in Seq(Paged) /\ Len(batch') <= Limit
        /\ ackQueue' \in Seq(Paged) /\ Len(ackQueue') <= AckCapacity
    BY <1>1, <1>3
  <2>2. /\ next' \in 1 .. Limit + 1 /\ attempt' \in 1 .. MaxAttempts /\ offset' \in 0 .. LastUpdate + 1
        /\ crashes' \in 0 .. MaxCrashes /\ drops' \in Nat
    BY <1>1 DEF PagerInv, TypeOK
  <2>3. view' \in [{"pager", "button"} -> Paged \cup {None}] /\ lostAcks' \subseteq Paged
    BY <1>1 DEF PagerInv, TypeOK
  <2> QED
    BY <1>1, <1>2, <2>1, <2>2, <2>3 DEF PagerInv, TypeOK, Stage
<1>5. Turns'
  BY <1>1, <1>2, <1>3 DEF PagerInv, Turns
<1>6. Mirror'
  BY <1>1, <1>2, <1>3 DEF PagerInv, Mirror
<1>7. Held' = Held
  BY <1>1 DEF Held
<1>8. Kept'
  <2>1. \A u \in Paged : ~ (u < offset')
    BY <1>1 DEF Paged, Update
  <2>2. MarksHonest'
    BY <1>1, <1>7 DEF PagerInv, Kept, MarksHonest
  <2>3. \A u \in Paged : u < confirmed' \/ u < flashOffset' => u \in Held'
    BY <1>1, <1>7 DEF PagerInv, Kept
  <2> QED
    BY <1>1, <1>3, <2>1, <2>2, <2>3 DEF Kept
<1>9. Replays'
  <2>1. crashes \in Nat /\ copies \in [Paged -> Nat]
    BY DEF PagerInv, TypeOK
  <2>2. \A u \in Paged : copies'[u] <= 1 + crashes' /\ copies'[u] <= crashes'
    BY <1>1, <2>1 DEF PagerInv, Replays
  <2> QED
    BY <1>1, <1>2, <1>3, <2>2 DEF Replays
<1>10. GlassTrue'
  BY <1>1, <1>3 DEF PagerInv, TypeOK, GlassTrue, Gone
<1> QED
  BY <1>4, <1>5, <1>6, <1>8, <1>9, <1>10 DEF PagerInv

LEMMA BootKeepsInv ==
  ASSUME PagerInv, Boot
  PROVE  PagerInv'
<1>1. /\ ~ on /\ on' = TRUE /\ queue' = stored /\ drops' = storedDrops /\ offset' = flashOffset
      /\ UNCHANGED <<arrived, confirmed, mark, pc, flashOffset, batch, next, ack, attempt, ackQueue, view,
                     shown, stored, storedDrops, op, bpc, pressed, popped, evicted, lostAcks, copies,
                     crashes>>
  BY DEF Boot, Fifo!Recover, server, acks, glass, button, history
<1>2. pc = "peek" /\ bpc = "idle" /\ op = "none" /\ queue = << >> /\ batch = << >> /\ offset = 0
  BY <1>1 DEF PagerInv, Turns
<1>3. DOMAIN batch = {} /\ DOMAIN batch' = {} /\ ToSet(queue) = {}
  BY <1>1, <1>2, ToSetEmpty
<1>4. TypeOK'
  BY <1>1 DEF PagerInv, TypeOK
<1>5. Turns'
  BY <1>1, <1>2 DEF PagerInv, Turns
<1>6. Mirror'
  BY <1>1, <1>2 DEF PagerInv, Mirror
<1>7. Kept'
  <2>1. MarksHonest' /\ Held' = Held
    BY <1>1 DEF PagerInv, Kept, MarksHonest, Held
  <2> QED
    BY <1>1, <1>2, <1>3, <2>1 DEF PagerInv, Kept
<1>8. Replays'
  <2>1. \A u \in Paged : u >= 0
    BY PagerAssumption DEF Paged, Update
  <2>2. \A u \in Paged : copies[u] <= 1 + crashes /\ copies[u] <= crashes
    BY <1>2, <2>1 DEF PagerInv, Replays
  <2>3. flashOffset \in Int
    BY PagerAssumption DEF PagerInv, TypeOK
  <2> QED
    BY <1>1, <1>3, <2>2, <2>3 DEF Replays
<1>9. GlassTrue'
  BY <1>1, <1>2, <1>3 DEF PagerInv, GlassTrue, Gone
<1> QED
  BY <1>4, <1>5, <1>6, <1>7, <1>8, <1>9 DEF PagerInv

-----------------------------------------------------------------------------
(* The factory state. *)
LEMMA InitPagerInv == Init => PagerInv
<1> SUFFICES ASSUME Init PROVE PagerInv
  OBVIOUS
<1> USE PagerAssumption
<1>1. /\ arrived = 0 /\ confirmed = 1 /\ mark = [u \in Paged |-> "none"] /\ on = FALSE
      /\ queue = << >> /\ stored = << >> /\ drops = 0 /\ storedDrops = 0 /\ op = "none"
      /\ pc = "peek" /\ offset = 0 /\ flashOffset = 0 /\ batch = << >> /\ next = 1
      /\ ack = None /\ attempt = 1 /\ ackQueue = << >>
      /\ view = [t \in {"pager", "button"} |-> None] /\ shown = None
      /\ bpc = "idle" /\ pressed = None /\ popped = {} /\ evicted = {} /\ lostAcks = {}
      /\ copies = [u \in Paged |-> 0] /\ crashes = 0
  BY DEF Init, Fifo!Init
<1>2. << >> \in Seq(Paged) /\ Len(<< >>) = 0 /\ DOMAIN << >> = {} /\ ToSet(<< >>) = {}
  BY ToSetEmpty
<1>3. \A u \in Paged : u >= 1
  BY DEF Paged, Update
<1>4. TypeOK
  <2>1. /\ queue \in Seq(Paged) /\ Len(queue) <= Capacity /\ stored \in Seq(Paged)
        /\ Len(stored) <= Capacity /\ batch \in Seq(Paged) /\ Len(batch) <= Limit
        /\ ackQueue \in Seq(Paged) /\ Len(ackQueue) <= AckCapacity
    BY <1>1, <1>2
  <2>2. /\ arrived \in 0 .. LastUpdate /\ confirmed \in 1 .. LastUpdate + 1
        /\ next \in 1 .. Limit + 1 /\ attempt \in 1 .. MaxAttempts
        /\ offset \in 0 .. LastUpdate + 1 /\ flashOffset \in 0 .. LastUpdate + 1
        /\ crashes \in 0 .. MaxCrashes /\ drops \in Nat /\ storedDrops \in Nat
    BY <1>1
  <2>3. /\ mark \in [Paged -> {"none", "delivered", "read"}] /\ copies \in [Paged -> Nat]
        /\ view \in [{"pager", "button"} -> Paged \cup {None}]
    BY <1>1
  <2> QED
    BY <1>1, <2>1, <2>2, <2>3 DEF TypeOK, Stage
<1>5. Turns
  BY <1>1, <1>2 DEF Turns
<1>6. Mirror
  BY <1>1, <1>2 DEF Mirror
<1>7. Kept
  BY <1>1, <1>2, <1>3 DEF Kept, MarksHonest
<1>8. Replays
  BY <1>1, <1>2, <1>3 DEF Replays
<1>9. GlassTrue
  BY <1>1 DEF GlassTrue, Gone
<1> QED
  BY <1>4, <1>5, <1>6, <1>7, <1>8, <1>9 DEF PagerInv

LEMMA StutterKeepsPagerInv ==
  ASSUME PagerInv, UNCHANGED vars
  PROVE  PagerInv'
<1>1. UNCHANGED <<arrived, confirmed, mark, on, pc, offset, flashOffset, batch, next, ack, attempt,
                  ackQueue, view, shown, queue, drops, stored, storedDrops, op, bpc, pressed, popped,
                  evicted, lostAcks, copies, crashes>>
  BY DEF vars, server, acks, glass, fifo, button, history
<1>2. TypeOK' /\ Turns'
  BY <1>1 DEF PagerInv, TypeOK, Turns
<1>3. Mirror' /\ GlassTrue'
  BY <1>1 DEF PagerInv, Mirror, Fifo!Full, GlassTrue, Gone
<1>4. Kept'
  BY <1>1 DEF PagerInv, Kept, MarksHonest, Held, Stowed
<1>5. Replays'
  <2>1. \A i \in DOMAIN batch : Pushed(i)' <=> Pushed(i)
    BY <1>1 DEF Pushed
  <2> QED
    BY <1>1, <2>1, ReplaysFrame DEF PagerInv
<1> QED
  BY <1>2, <1>3, <1>4, <1>5 DEF PagerInv

(* The inductive invariant, for every number of updates, limit of an answer,  *)
(* capacity of both queues and number of resets.                             *)
THEOREM PagerInvariant == Spec => []PagerInv
<1>1. PagerInv /\ [Next]_vars => PagerInv'
  <2> SUFFICES ASSUME PagerInv, [Next]_vars PROVE PagerInv'
    OBVIOUS
  <2>1. CASE TakeAck \/ AckSent \/ AckFailed \/ DrainDone
    BY <2>1, ReceiptsKeepInv
  <2>2. CASE PollOk
    BY <2>2, PollOkKeepsInv
  <2>3. CASE PollRefused \/ PollAborted \/ PollFailed
    BY <2>3, PollEndsKeepInv
  <2>4. CASE Push
    BY <2>4, PushKeepsInv
  <2>5. CASE PushTears
    BY <2>5, PushTearsKeepsInv
  <2>6. CASE PushCommits
    BY <2>6, PushCommitsKeepsInv
  <2>7. CASE PagerPeek \/ PagerPaint
    BY <2>7, PagerPaintsKeepInv
  <2>8. CASE ButtonPeek \/ ButtonPaint
    BY <2>8, ButtonPaintsKeepInv
  <2>9. CASE Deliver \/ DeliverDone
    BY <2>9, DeliveriesKeepInv
  <2>10. CASE SaveOffset
    BY <2>10, SaveOffsetKeepsInv
  <2>11. CASE Press
    BY <2>11, PressKeepsInv
  <2>12. CASE PopCommits
    BY <2>12, PopCommitsKeepsInv
  <2>13. CASE SendAck
    BY <2>13, SendAckKeepsInv
  <2>14. CASE Arrive
    BY <2>14, ArriveKeepsInv
  <2>15. CASE Crash
    BY <2>15, CrashKeepsInv
  <2>16. CASE Boot
    BY <2>16, BootKeepsInv
  <2>17. CASE UNCHANGED vars
    BY <2>17, StutterKeepsPagerInv
  <2> QED
    BY <2>1, <2>2, <2>3, <2>4, <2>5, <2>6, <2>7, <2>8, <2>9, <2>10, <2>11, <2>12, <2>13, <2>14,
       <2>15, <2>16, <2>17 DEF Next, PagerStep, ButtonStep
<1> QED
  BY <1>1, InitPagerInv, PTL DEF Spec

(* Type correctness: neither queue grows past its length, and the loop over   *)
(* a batch stays inside it.                                                  *)
THEOREM PagerTypeCorrect == Spec => []TypeOK
<1>1. PagerInv => TypeOK
  BY DEF PagerInv
<1> QED
  BY <1>1, PagerInvariant, PTL

(* No reset at any step of a lap loses a page that Telegram has forgotten:    *)
(* NoPageLost.                                                               *)
THEOREM PagerNoPageLost == Spec => []NoPageLost
<1>1. PagerInv => NoPageLost
  BY DEF PagerInv, Kept, NoPageLost
<1> QED
  BY <1>1, PagerInvariant, PTL

(* A delivered mark is true of flash and a read mark of the key: MarksHonest. *)
THEOREM PagerMarksHonest == Spec => []MarksHonest
<1>1. PagerInv => MarksHonest
  BY DEF PagerInv, Kept
<1> QED
  BY <1>1, PagerInvariant, PTL

(* Whichever task paints last, an acknowledged page stays off the glass:      *)
(* AckedPageGone.                                                            *)
THEOREM PagerAckedPageGone == Spec => []AckedPageGone
<1>1. PagerInv => AckedPageGone
  BY DEF PagerInv, GlassTrue, Gone, AckedPageGone
<1> QED
  BY <1>1, PagerInvariant, PTL

(* A page is pushed again only by a reset before its offset was saved, and    *)
(* once for each reset: NeverRequeued.                                       *)
THEOREM PagerNeverRequeued == Spec => NeverRequeued
<1>1. PagerInv /\ [Next]_vars =>
        [\A u \in Paged : copies'[u] > copies[u] => u >= flashOffset /\ copies'[u] <= 1 + crashes]_vars
  <2> SUFFICES ASSUME PagerInv, Next, NEW u \in Paged, copies'[u] > copies[u]
               PROVE  u >= flashOffset /\ copies'[u] <= 1 + crashes
    OBVIOUS
  <2>1. copies[u] \in Nat /\ flashOffset \in Int /\ u \in Int
    BY PagerAssumption DEF PagerInv, TypeOK, Paged, Update
  <2>2. CASE Push
    <3>1. PagerInv'
      BY <2>2, PushKeepsInv
    <3>2. crashes' = crashes /\ copies' = [copies EXCEPT ![batch[next]] = @ + 1] /\ pc = "push"
      BY <2>2 DEF Push
    <3>3. copies'[u] <= 1 + crashes
      BY <3>1, <3>2 DEF PagerInv, Replays
    <3>4. u = batch[next]
      <4>1. copies \in [Paged -> Nat]
        BY DEF PagerInv, TypeOK
      <4> QED
        BY <2>1, <3>2, <4>1
    <3>5. next \in DOMAIN batch
      BY <3>2 DEF PagerInv, TypeOK, Turns
    <3>6. flashOffset <= u
      BY <3>4, <3>5 DEF PagerInv, Replays
    <3> QED
      BY <2>1, <3>3, <3>6
  <2>3. CASE ~ Push
    <3>1. copies' = copies
      BY <2>3 DEF Next, Arrive, PagerStep, TakeAck, AckSent, AckFailed, DrainDone, PollOk, PollRefused, PollAborted,
         PollFailed, PushTears, PushCommits, PagerPeek, PagerPaint, Deliver, DeliverDone,
         SaveOffset, Press, ButtonStep, PopCommits, ButtonPeek, ButtonPaint, SendAck, Crash, Boot, history
    <3> QED
      BY <2>1, <3>1
  <2> QED
    BY <2>2, <2>3
<1> QED
  BY <1>1, PagerInvariant, PTL DEF Spec, NeverRequeued

(* A read mark is not taken back by the delivery mark of the same lap:        *)
(* ReadSticks.                                                               *)
THEOREM PagerReadSticks == Spec => ReadSticks
<1>1. PagerInv /\ [Next]_vars =>
        [\A u \in Paged : mark[u] = "read" /\ copies[u] = 1 => mark'[u] = "read"]_vars
  <2> SUFFICES ASSUME PagerInv, Next, NEW u \in Paged, mark[u] = "read", copies[u] = 1
               PROVE  mark'[u] = "read"
    OBVIOUS
  <2>1. mark \in [Paged -> {"none", "delivered", "read"}]
    BY DEF PagerInv, TypeOK
  <2>2. CASE AckSent \/ AckFailed
    <3>1. mark' = mark \/ mark' = [mark EXCEPT ![ack] = "read"]
      BY <2>2 DEF AckSent, AckFailed, Reads
    <3> QED
      BY <2>1, <3>1
  <2>3. CASE Deliver
    <3>1. pc = "deliver" /\ next <= Len(batch)
      BY <2>3 DEF Deliver
    <3>2. next \in DOMAIN batch
      BY <3>1 DEF PagerInv, TypeOK
    <3>3. u # batch[next]
      <4>1. Pushed(next)
        BY <3>1 DEF Pushed
      <4>2. mark[batch[next]] = "read" => copies[batch[next]] >= 2
        BY <3>2, <4>1 DEF PagerInv, Replays
      <4> QED
        BY <4>2
    <3>4. mark' = mark \/ mark' = [mark EXCEPT ![batch[next]] = "delivered"]
      BY <2>3 DEF Deliver
    <3> QED
      BY <2>1, <3>3, <3>4
  <2>4. CASE ~ (AckSent \/ AckFailed \/ Deliver)
    <3>1. mark' = mark
      BY <2>4 DEF Next, Arrive, PagerStep, TakeAck, DrainDone, PollOk, PollRefused, PollAborted,
         PollFailed, Push, PushTears, PushCommits, PagerPeek, PagerPaint, DeliverDone,
         SaveOffset, Press, ButtonStep, PopCommits, ButtonPeek, ButtonPaint, SendAck, Crash, Boot, server
    <3> QED
      BY <3>1
  <2> QED
    BY <2>2, <2>3, <2>4
<1> QED
  BY <1>1, PagerInvariant, PTL DEF Spec, ReadSticks
================================================================================
