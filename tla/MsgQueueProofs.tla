--------------------------- MODULE MsgQueueProofs ---------------------------
(***************************************************************************)
(* Proofs about the page queue, for every capacity and every set of pages. *)
(***************************************************************************)
EXTENDS MsgQueueProps, SequenceTheorems, WellFoundedInduction, TLAPS

(* A place of the ring is a slot: no index leaves the array, on the way     *)
(* round too.                                                               *)
LEMMA IndexIsSlot ==
  ASSUME NEW h \in Slot, NEW i \in 0 .. Capacity
  PROVE  /\ Index(h, i) \in Slot
         /\ Index(h, i) = IF h + i < Capacity THEN h + i ELSE h + i - Capacity
<1>1. h + i \in 0 .. 2 * Capacity - 1
  BY QueueAssumption DEF Slot
<1> QED
  BY <1>1, QueueAssumption DEF Slot, Index

(* Two places less than a lap apart are different slots. *)
LEMMA IndexInjective ==
  ASSUME NEW h \in Slot, NEW i \in 0 .. Capacity - 1, NEW j \in 0 .. Capacity - 1,
         i # j
  PROVE  Index(h, i) # Index(h, j)
<1>1. Index(h, i) = IF h + i < Capacity THEN h + i ELSE h + i - Capacity
  BY IndexIsSlot, QueueAssumption
<1>2. Index(h, j) = IF h + j < Capacity THEN h + j ELSE h + j - Capacity
  BY IndexIsSlot, QueueAssumption
<1> QED
  BY <1>1, <1>2, QueueAssumption DEF Slot

(* Advancing the head by one shifts every place by one. *)
LEMMA IndexShift ==
  ASSUME NEW h \in Slot, NEW i \in 0 .. Capacity - 1
  PROVE  Index(Index(h, 1), i) = Index(h, i + 1)
<1>1. 1 \in 0 .. Capacity /\ i \in 0 .. Capacity /\ i + 1 \in 0 .. Capacity
  BY QueueAssumption
<1>2. /\ Index(h, 1) \in Slot
      /\ Index(h, 1) = IF h + 1 < Capacity THEN h + 1 ELSE h + 1 - Capacity
  BY <1>1, IndexIsSlot
<1>3. Index(h, i + 1) = IF h + (i + 1) < Capacity THEN h + (i + 1)
                        ELSE h + (i + 1) - Capacity
  BY <1>1, IndexIsSlot
<1>4. Index(Index(h, 1), i) = IF Index(h, 1) + i < Capacity THEN Index(h, 1) + i
                              ELSE Index(h, 1) + i - Capacity
  BY <1>1, <1>2, IndexIsSlot
<1> QED
  BY <1>2, <1>3, <1>4, QueueAssumption DEF Slot

(* A lap round the ring ends where it began: the slot a push fills in a full *)
(* ring is the one the evicted page leaves.                                  *)
LEMMA IndexLap == ASSUME NEW h \in Slot PROVE Index(h, Capacity) = h /\ Index(h, 0) = h
BY IndexIsSlot, QueueAssumption DEF Slot

(* msg_store_load restores some prefix of what meta advertises, and all of  *)
(* it when every advertised slot is readable.                               *)
LEMMA LoadCountAll ==
  ASSUME TypeOK, \A i \in 0 .. meta.count - 1 : Readable(i)
  PROVE  LoadCount = meta.count
<1> DEFINE P(n) == /\ \A i \in 0 .. n - 1 : Readable(i)
                   /\ n < meta.count => ~ Readable(n)
<1>1. meta.count \in Nat
  BY DEF TypeOK, Meta
<1>2. meta.count \in 0 .. meta.count /\ P(meta.count)
  BY <1>1
<1>3. ASSUME NEW n \in 0 .. meta.count, P(n)
      PROVE  n = meta.count
  BY <1>1, <1>3
<1> HIDE DEF P
<1>4. LoadCount = CHOOSE n \in 0 .. meta.count : P(n)
  BY DEF LoadCount, P
<1> QED
  BY <1>2, <1>3, <1>4

(* A nonempty set of naturals has a least element. *)
LEMMA LeastNat ==
  ASSUME NEW S \in SUBSET Nat, S # {}
  PROVE  \E m \in S : \A k \in S : m <= k
<1> DEFINE R == OpToRel(<, Nat)
<1>1. \A k, m \in Nat : k < m => <<k, m>> \in R
  BY Zenon DEF OpToRel
<1>2. IsWellFoundedOn(R, Nat)
  BY NatLessThanWellFounded, Zenon
<1> HIDE DEF R
<1>3. PICK m \in S : \A k \in S : <<k, m>> \notin R
  BY <1>2, WFMin, Zenon
<1>4. ASSUME NEW k \in S
      PROVE  m <= k
  <2>1. k \in Nat /\ m \in Nat
    OBVIOUS
  <2>2. ~ (k < m)
    BY <1>1, <1>3, <2>1
  <2> QED
    BY <2>1, <2>2
<1> QED
  BY <1>4

(* msg_store_load restores some prefix of what meta advertises, every page   *)
(* of it readable.                                                           *)
LEMMA LoadCountPrefix ==
  ASSUME TypeOK
  PROVE  /\ LoadCount \in 0 .. meta.count
         /\ \A i \in 0 .. LoadCount - 1 : Readable(i)
<1> DEFINE P(n) == /\ \A i \in 0 .. n - 1 : Readable(i)
                   /\ n < meta.count => ~ Readable(n)
           U == {i \in 0 .. meta.count - 1 : ~ Readable(i)}
<1>1. meta.count \in Nat
  BY QueueAssumption DEF TypeOK, Meta
<1>2. CASE U = {}
  <2>1. \A i \in 0 .. meta.count - 1 : Readable(i)
    BY <1>2
  <2>2. LoadCount = meta.count
    BY <2>1, LoadCountAll
  <2> QED
    BY <1>1, <2>1, <2>2
<1>3. CASE U # {}
  <2>1. U \in SUBSET Nat
    BY <1>1
  <2>2. PICK m \in U : \A k \in U : m <= k
    BY <1>3, <2>1, LeastNat
  <2>3. m \in 0 .. meta.count /\ ~ Readable(m)
    BY <1>1, <2>2
  <2>4. ASSUME NEW i \in 0 .. m - 1
        PROVE  Readable(i)
    <3>1. i \in 0 .. meta.count - 1 /\ ~ (m <= i)
      BY <1>1, <2>3
    <3> QED
      BY <2>2, <3>1
  <2>5. P(m)
    BY <2>3, <2>4
  <2> HIDE DEF P
  <2>6. LoadCount = CHOOSE n \in 0 .. meta.count : P(n)
    BY DEF LoadCount, P
  <2>7. LoadCount \in 0 .. meta.count /\ P(LoadCount)
    BY <2>3, <2>5, <2>6
  <2> QED
    BY <2>7 DEF P
<1> QED
  BY <1>2, <1>3

-----------------------------------------------------------------------------
(* Type correctness, whatever writes fail: head and count never leave the    *)
(* ring, in RAM or in the meta blob that msg_store_load will range-check.    *)
THEOREM QueueTypeCorrect == Spec => []TypeOK
<1> USE QueueAssumption
<1>1. Init => TypeOK
  BY DEF Init, TypeOK, NoMeta, Meta, Blob, Slot
<1>2. TypeOK /\ [Next]_vars => TypeOK'
  <2> SUFFICES ASSUME TypeOK, [Next]_vars
               PROVE  TypeOK'
    OBVIOUS
  <2>1. CASE Load
    <3>1. LoadCount \in 0 .. Capacity /\ meta.head \in Slot /\ meta.dropped \in Nat
      BY LoadCountPrefix DEF TypeOK, Meta
    <3> QED
      BY <2>1, <3>1 DEF Load, TypeOK, nvs, Blob
  <2>2. CASE BeginClear \/ EndClear
    <3>1. NoMeta \in Meta
      BY DEF NoMeta, Meta, Slot
    <3> QED
      BY <2>2, <3>1 DEF BeginClear, EndClear, TypeOK, ram, nvs
  <2>3. CASE EraseSlot
    BY <2>3 DEF EraseSlot, TypeOK, ram, Blob
  <2>4. ASSUME NEW p \in Page, PushRam(p)
        PROVE  TypeOK'
    <3>1. 1 \in 0 .. Capacity /\ count \in 0 .. Capacity /\ head \in Slot
      BY DEF TypeOK
    <3>2. Index(head, 1) \in Slot
      BY <3>1, IndexIsSlot
    <3>3. slots' \in [Slot -> Blob]
      BY <2>4 DEF PushRam, TypeOK, Blob
    <3>4. head' \in Slot /\ count' \in 0 .. Capacity /\ dropped' \in Nat
      BY <2>4, <3>2 DEF PushRam, TypeOK
    <3> QED
      BY <2>4, <3>3, <3>4 DEF PushRam, TypeOK, nvs
  <2>5. CASE PushSaveSlot
    BY <2>5 DEF PushSaveSlot, TypeOK, ram
  <2>6. CASE PushSaveMeta \/ PopSaveMeta
    <3>1. meta' \in Meta
      <4>1. SaveMeta
        BY <2>6 DEF PushSaveMeta, PopSaveMeta
      <4>2. head \in Slot /\ count \in 0 .. Capacity /\ dropped \in Nat /\ meta \in Meta
        BY DEF TypeOK
      <4>3. [ok |-> TRUE, head |-> head, count |-> count, dropped |-> dropped] \in Meta
        BY <4>2 DEF Meta
      <4> QED
        BY <4>1, <4>2, <4>3 DEF SaveMeta
    <3>2. sound' \in BOOLEAN
      BY <2>6 DEF PushSaveMeta, PopSaveMeta, SaveMeta, TypeOK
    <3> QED
      BY <2>6, <3>1, <3>2 DEF PushSaveMeta, PopSaveMeta, TypeOK, ram
  <2>7. CASE PopRam
    <3>1. 1 \in 0 .. Capacity /\ head \in Slot
      BY DEF TypeOK
    <3>2. Index(head, 1) \in Slot
      BY <3>1, IndexIsSlot
    <3> QED
      BY <2>7, <3>2 DEF PopRam, TypeOK, nvs
  <2>8. CASE Crash
    BY <2>8 DEF Crash, TypeOK, nvs, Blob, Slot
  <2>9. CASE UNCHANGED vars
    BY <2>9 DEF vars, ram, nvs, TypeOK
  <2> QED
    BY <2>1, <2>2, <2>3, <2>4, <2>5, <2>6, <2>7, <2>8, <2>9 DEF Next
<1> QED
  BY <1>1, <1>2, PTL DEF Spec

-----------------------------------------------------------------------------
(* A failed write is not forgotten. *)
LEMMA SoundFalls == ASSUME TypeOK, [Next]_vars, sound' PROVE sound
BY DEF TypeOK, Next, Load, BeginClear, EraseSlot, EndClear, PushRam, PushSaveSlot, PushSaveMeta,
       SaveMeta, PopRam, PopSaveMeta, Crash, vars, nvs

(* Every step in which no write fails keeps QueueInv. *)
LEMMA LoadKeepsInv ==
  ASSUME QueueInv, TypeOK', Load
  PROVE  QueueInv'
<1> USE QueueAssumption
<1>1. meta.count \in 0 .. Capacity /\ meta.head \in Slot
  BY DEF QueueInv, TypeOK, Meta
<1>2. LoadCount = meta.count
  BY LoadCountAll DEF QueueInv, AllReadable, Load
<1>3. \A i \in 0 .. meta.count - 1 :
        /\ Index(meta.head, i) \in Slot
        /\ slots'[Index(meta.head, i)] = flash[Index(meta.head, i)]
        /\ flash[Index(meta.head, i)] # NoPage
  <2> TAKE i \in 0 .. meta.count - 1
  <2>1. Index(meta.head, i) \in Slot
    BY <1>1, IndexIsSlot
  <2>2. slots'[Index(meta.head, i)] = flash[Index(meta.head, i)]
    BY <1>2, <2>1 DEF Load
  <2>3. flash[Index(meta.head, i)] # NoPage
    BY DEF QueueInv, AllReadable, Readable, Load
  <2> QED
    BY <2>1, <2>2, <2>3
<1>4. AllReadable'
  BY DEF QueueInv, AllReadable, Readable, Load, nvs
<1>5. Holders' /\ MetaCurrent'
  BY <1>2 DEF QueueInv, Holders, MetaCurrent, Load, nvs
<1>6. LivePages' /\ Mirrored'
  BY <1>1, <1>2, <1>3 DEF QueueInv, Holders, LivePages, Mirrored, Load, nvs
<1> QED
  BY <1>4, <1>5, <1>6 DEF QueueInv

LEMMA PushRamKeepsInv ==
  ASSUME QueueInv, TypeOK', NEW p \in Page, PushRam(p)
  PROVE  QueueInv'
<1> USE QueueAssumption
<1>1. head \in Slot /\ count \in 0 .. Capacity /\ slots \in [Slot -> Blob]
  BY DEF QueueInv, TypeOK
<1>2. Index(head, count) \in Slot /\ p # NoPage
  BY <1>1, IndexIsSlot
<1>3. AllReadable' /\ Holders' /\ MetaCurrent'
  BY <1>1 DEF QueueInv, AllReadable, Readable, Holders, MetaCurrent, PushRam, nvs
<1>4. CASE count < Capacity
  <2>1. head' = head /\ count' = count + 1 /\ flash' = flash /\ push' = "slot"
    BY <1>1, <1>4 DEF PushRam, nvs
  <2>2. ASSUME NEW i \in 0 .. count - 1
        PROVE  slots'[Index(head, i)] = slots[Index(head, i)]
    <3>1. Index(head, i) # Index(head, count) /\ Index(head, i) \in Slot
      BY <1>1, <1>4, IndexInjective, IndexIsSlot
    <3> QED
      BY <1>1, <3>1 DEF PushRam
  <2>3. slots'[Index(head, count)] = p
    BY <1>1, <1>2 DEF PushRam
  <2>4. LivePages'
    BY <1>1, <1>2, <2>1, <2>2, <2>3 DEF QueueInv, LivePages
  <2>5. Mirrored'
    BY <1>1, <2>1, <2>2 DEF QueueInv, Mirrored, PushRam
  <2> QED
    BY <1>3, <2>4, <2>5 DEF QueueInv
<1>5. CASE count = Capacity
  <2>1. head' = Index(head, 1) /\ count' = Capacity /\ flash' = flash /\ push' = "slot"
    BY <1>1, <1>5 DEF PushRam, nvs
  <2>2. ASSUME NEW i \in 0 .. Capacity - 2
        PROVE  /\ Index(head', i) = Index(head, i + 1)
               /\ slots'[Index(head', i)] = slots[Index(head, i + 1)]
    <3>1. Index(head', i) = Index(head, i + 1)
      BY <1>1, <2>1, IndexShift
    <3>2. Index(head, i + 1) # Index(head, 0) /\ Index(head, i + 1) \in Slot
      BY <1>1, IndexInjective, IndexIsSlot
    <3>3. Index(head, Capacity) = Index(head, 0)
      BY <1>1, IndexLap
    <3> QED
      BY <1>1, <1>5, <3>1, <3>2, <3>3 DEF PushRam
  <2>3. Index(head', Capacity - 1) = Index(head, Capacity)
    BY <1>1, <2>1, IndexShift
  <2>4. slots'[Index(head', Capacity - 1)] = p
    BY <1>1, <1>2, <1>5, <2>3 DEF PushRam
  <2>5. LivePages'
    <3> SUFFICES ASSUME NEW i \in 0 .. Capacity - 1
                 PROVE  slots'[Index(head', i)] # NoPage
      BY <2>1 DEF LivePages
    <3>1. CASE i = Capacity - 1
      BY <1>2, <2>4, <3>1
    <3>2. CASE i \in 0 .. Capacity - 2
      BY <1>5, <2>2, <3>2 DEF QueueInv, LivePages
    <3> QED
      BY <3>1, <3>2
  <2>6. Mirrored'
    <3> SUFFICES ASSUME NEW i \in 0 .. Capacity - 2
                 PROVE  flash[Index(head', i)] = slots'[Index(head', i)]
      BY <2>1 DEF Mirrored
    <3>1. i + 1 \in 0 .. count - 1 /\ push = "none"
      BY <1>5 DEF PushRam
    <3> QED
      BY <2>2, <3>1 DEF QueueInv, Mirrored
  <2> QED
    BY <1>3, <2>5, <2>6 DEF QueueInv
<1> QED
  BY <1>1, <1>4, <1>5

LEMMA PushSaveSlotKeepsInv ==
  ASSUME QueueInv, TypeOK', PushSaveSlot, sound'
  PROVE  QueueInv'
<1> USE QueueAssumption
<1>1. /\ head \in Slot /\ count \in 1 .. Capacity
      /\ flash \in [Slot -> Blob] /\ meta \in Meta
  BY DEF QueueInv, TypeOK, Holders, PushSaveSlot
<1>2. Newest \in Slot /\ slots[Newest] # NoPage
  BY <1>1, IndexIsSlot DEF QueueInv, LivePages, Newest
<1>3. flash' = [flash EXCEPT ![Newest] = slots[Newest]]
  BY DEF PushSaveSlot
<1>4. AllReadable'
  <2> SUFFICES ASSUME meta.ok, NEW i \in 0 .. meta.count - 1
               PROVE  flash'[Index(meta.head, i)] # NoPage
    BY DEF AllReadable, Readable, PushSaveSlot
  <2>1. flash[Index(meta.head, i)] # NoPage /\ Index(meta.head, i) \in Slot
    <3>1. meta.head \in Slot /\ i \in 0 .. Capacity
      BY <1>1 DEF Meta
    <3> QED
      BY <3>1, IndexIsSlot DEF QueueInv, AllReadable, Readable
  <2> QED
    BY <1>1, <1>2, <1>3, <2>1
<1>5. Holders' /\ MetaCurrent' /\ LivePages'
  BY DEF QueueInv, Holders, MetaCurrent, LivePages, PushSaveSlot, ram
<1>6. Mirrored'
  <2>1. push' = "meta" /\ head' = head /\ count' = count /\ slots' = slots
    BY DEF PushSaveSlot, ram
  <2> SUFFICES ASSUME NEW i \in 0 .. count - 1
               PROVE  flash'[Index(head, i)] = slots[Index(head, i)]
    BY <2>1 DEF Mirrored
  <2>2. CASE i = count - 1
    BY <1>1, <1>2, <1>3, <2>2 DEF Newest
  <2>3. CASE i \in 0 .. count - 2
    <3>1. Index(head, i) # Newest /\ Index(head, i) \in Slot
      BY <1>1, <2>3, IndexInjective, IndexIsSlot DEF Newest
    <3>2. flash[Index(head, i)] = slots[Index(head, i)]
      BY <2>3 DEF QueueInv, Mirrored, PushSaveSlot
    <3> QED
      BY <1>1, <1>3, <3>1, <3>2
  <2> QED
    BY <1>1, <2>2, <2>3
<1> QED
  BY <1>4, <1>5, <1>6 DEF QueueInv

LEMMA SaveMetaKeepsInv ==
  ASSUME QueueInv, TypeOK', PushSaveMeta \/ PopSaveMeta, sound'
  PROVE  QueueInv'
<1> USE QueueAssumption
<1>1. /\ meta' = [ok |-> TRUE, head |-> head, count |-> count, dropped |-> dropped]
      /\ lock' = "free" /\ push' = "none" /\ pop' = "none"
      /\ push # "slot"
      /\ UNCHANGED <<phase, slots, head, count, dropped, flash>>
  BY DEF PushSaveMeta, PopSaveMeta, SaveMeta, ram, QueueInv, Holders
<1>2. phase = "on"
  BY DEF QueueInv, Holders, PushSaveMeta, PopSaveMeta
<1>3. \A i \in 0 .. count - 1 : flash[Index(head, i)] = slots[Index(head, i)]
  BY <1>1 DEF QueueInv, Mirrored
<1>4. AllReadable'
  BY <1>1, <1>3 DEF QueueInv, AllReadable, Readable, LivePages
<1>5. Holders' /\ MetaCurrent' /\ LivePages'
  BY <1>1, <1>2 DEF QueueInv, Holders, MetaCurrent, LivePages
<1>6. Mirrored'
  BY <1>1, <1>3 DEF Mirrored
<1> QED
  BY <1>4, <1>5, <1>6 DEF QueueInv

LEMMA PopRamKeepsInv ==
  ASSUME QueueInv, TypeOK', PopRam
  PROVE  QueueInv'
<1> USE QueueAssumption
<1>1. head \in Slot /\ count \in 1 .. Capacity
  BY DEF QueueInv, TypeOK, PopRam
<1>2. /\ head' = Index(head, 1) /\ count' = count - 1 /\ push = "none" /\ push' = "none"
      /\ flash' = flash /\ slots' = slots /\ meta' = meta
  BY DEF PopRam, nvs, QueueInv, Holders
<1>3. \A i \in 0 .. count - 2 : Index(head', i) = Index(head, i + 1)
  BY <1>1, <1>2, IndexShift
<1>4. AllReadable' /\ Holders' /\ MetaCurrent'
  BY <1>1, <1>2 DEF QueueInv, AllReadable, Readable, Holders, MetaCurrent, PopRam
<1>5. LivePages' /\ Mirrored'
  BY <1>1, <1>2, <1>3 DEF QueueInv, LivePages, Mirrored
<1> QED
  BY <1>4, <1>5 DEF QueueInv

LEMMA RestartKeepsInv ==
  ASSUME QueueInv, TypeOK', BeginClear \/ EraseSlot \/ EndClear \/ Crash
  PROVE  QueueInv'
<1>1. count' = 0 /\ head' = 0 /\ dropped' = 0 /\ push' = "none" /\ pop' = "none" /\ lock' = "free"
  BY DEF QueueInv, Holders, BeginClear, EraseSlot, EndClear, Crash, ram
<1>2. AllReadable'
  BY DEF QueueInv, AllReadable, Readable, Holders,
         BeginClear, EraseSlot, EndClear, Crash, NoMeta, nvs
<1>3. Holders' /\ MetaCurrent'
  BY <1>1 DEF QueueInv, Holders, MetaCurrent, BeginClear, EraseSlot, EndClear, Crash, NoMeta, nvs
<1>4. LivePages' /\ Mirrored'
  BY <1>1 DEF LivePages, Mirrored
<1> QED
  BY <1>2, <1>3, <1>4 DEF QueueInv

(* QueueInv is an invariant of the queue until an NVS write fails. *)
THEOREM QueueInvariant == Spec => [](sound => QueueInv)
<1>1. Init => QueueInv
  BY QueueAssumption DEF Init, QueueInv, TypeOK, AllReadable, Holders, LivePages,
       Mirrored, MetaCurrent, NoMeta, Meta, Blob, Slot
<1>2. (sound => QueueInv) /\ TypeOK /\ TypeOK' /\ [Next]_vars => (sound => QueueInv)'
  <2> SUFFICES ASSUME QueueInv, TypeOK', [Next]_vars, sound'
               PROVE  QueueInv'
    BY SoundFalls
  <2>1. CASE Load
    BY <2>1, LoadKeepsInv
  <2>2. ASSUME NEW p \in Page, PushRam(p)
        PROVE  QueueInv'
    BY <2>2, PushRamKeepsInv
  <2>3. CASE PushSaveSlot
    BY <2>3, PushSaveSlotKeepsInv
  <2>4. CASE PushSaveMeta \/ PopSaveMeta
    BY <2>4, SaveMetaKeepsInv
  <2>5. CASE PopRam
    BY <2>5, PopRamKeepsInv
  <2>6. CASE BeginClear \/ EraseSlot \/ EndClear \/ Crash
    BY <2>6, RestartKeepsInv
  <2>7. CASE UNCHANGED vars
    BY <2>7 DEF vars, ram, nvs, QueueInv, AllReadable, Readable, Holders, LivePages,
                Mirrored, MetaCurrent
  <2> QED
    BY <2>1, <2>2, <2>3, <2>4, <2>5, <2>6, <2>7 DEF Next
<1> QED
  BY <1>1, <1>2, QueueTypeCorrect, PTL DEF Spec

(* Until a write fails no restart truncates the queue: NeverTruncated, for *)
(* every capacity.                                                        *)
THEOREM QueueNeverTruncated == Spec => []NeverTruncated
<1>1. (sound => QueueInv) => NeverTruncated
  BY DEF QueueInv, NeverTruncated
<1> QED
  BY <1>1, QueueInvariant, PTL

(* What a restart finds between operations: WriteThrough, of one state. *)
LEMMA InvWritesThrough ==
  ASSUME QueueInv, phase = "on", lock = "free"
  PROVE  Saved = Live /\ SavedDropped = dropped
<1>1. CASE meta.ok
  <2>1. /\ LoadCount = count /\ meta.head = head /\ meta.dropped = dropped
        /\ count \in 0 .. Capacity
    BY <1>1, LoadCountAll DEF QueueInv, AllReadable, MetaCurrent, TypeOK
  <2>2. \A i \in 1 .. count : flash[Index(head, i - 1)] = slots[Index(head, i - 1)]
    BY <2>1, QueueAssumption DEF QueueInv, Mirrored, Holders
  <2> QED
    BY <1>1, <2>1, <2>2 DEF Saved, Live, SavedDropped
<1>2. CASE ~ meta.ok
  <2>1. count = 0 /\ dropped = 0
    BY <1>2 DEF QueueInv, MetaCurrent
  <2> QED
    BY <1>2, <2>1 DEF Saved, Live, SavedDropped
<1> QED
  BY <1>1, <1>2

(* Until a write fails the restorable queue is, between operations, the queue *)
(* in RAM: WriteThrough, for every capacity and every set of pages.           *)
THEOREM QueueWritesThrough == Spec => []WriteThrough
<1>1. (sound => QueueInv) => WriteThrough
  BY InvWritesThrough DEF WriteThrough
<1> QED
  BY <1>1, QueueInvariant, PTL

-----------------------------------------------------------------------------
(* No old blob is paged, whatever writes fail.                              *)
LEMMA PagesOnlyLoad ==
  ASSUME PagesOnly, TypeOK', Load
  PROVE  PagesOnly'
<1> USE QueueAssumption
<1>1. /\ LoadCount \in 0 .. meta.count /\ \A i \in 0 .. LoadCount - 1 : Readable(i)
      /\ meta.count \in 0 .. Capacity /\ meta.head \in Slot
  BY LoadCountPrefix DEF PagesOnly, TypeOK, Meta
<1>2. ASSUME NEW i \in 0 .. LoadCount - 1 PROVE slots'[Index(meta.head, i)] \in Page
  <2>1. Index(meta.head, i) \in Slot /\ flash[Index(meta.head, i)] # NoPage
    BY <1>1, IndexIsSlot DEF Readable
  <2>2. slots'[Index(meta.head, i)] = flash[Index(meta.head, i)]
    BY <2>1 DEF Load
  <2> QED
    BY <2>1, <2>2 DEF PagesOnly, Load
<1>3. \A i \in 0 .. count' - 1 : slots'[Index(head', i)] \in Page
  BY <1>2 DEF Load
<1>4. Holders'
  BY DEF PagesOnly, Holders, Load, nvs
<1>5. (phase = "on" \/ meta.ok => \A j \in Slot : flash[j] \in Page \cup {NoPage})'
  BY DEF PagesOnly, Load, nvs
<1> QED
  BY <1>3, <1>4, <1>5 DEF PagesOnly

LEMMA PagesOnlyPushRam ==
  ASSUME PagesOnly, TypeOK', NEW p \in Page, PushRam(p)
  PROVE  PagesOnly'
<1> USE QueueAssumption
<1>1. head \in Slot /\ count \in 0 .. Capacity /\ slots \in [Slot -> Blob]
  BY DEF PagesOnly, TypeOK
<1>2. Index(head, count) \in Slot /\ slots' = [slots EXCEPT ![Index(head, count)] = p]
  BY <1>1, IndexIsSlot DEF PushRam
<1>3. \A j \in Slot : slots[j] \in Page => slots'[j] \in Page
  BY <1>1, <1>2
<1>4. slots'[Index(head, count)] = p
  BY <1>1, <1>2
<1>5. CASE count < Capacity
  <2>1. head' = head /\ count' = count + 1
    BY <1>1, <1>5 DEF PushRam
  <2> SUFFICES ASSUME NEW i \in 0 .. count PROVE slots'[Index(head, i)] \in Page
    BY <1>1, <2>1 DEF PagesOnly, Holders, PushRam, nvs
  <2>2. CASE i = count
    BY <1>4, <2>2
  <2>3. CASE i \in 0 .. count - 1
    <3>1. Index(head, i) \in Slot
      BY <1>1, <2>3, IndexIsSlot
    <3> QED
      BY <1>3, <2>3, <3>1 DEF PagesOnly
  <2> QED
    BY <1>1, <2>2, <2>3
<1>6. CASE count = Capacity
  <2>1. head' = Index(head, 1) /\ count' = Capacity
    BY <1>1, <1>6 DEF PushRam
  <2> SUFFICES ASSUME NEW i \in 0 .. Capacity - 1 PROVE slots'[Index(head', i)] \in Page
    BY <1>1, <2>1 DEF PagesOnly, Holders, PushRam, nvs
  <2>2. Index(head', i) = Index(head, i + 1)
    BY <1>1, <2>1, IndexShift
  <2>3. CASE i = Capacity - 1
    BY <1>4, <1>6, <2>2, <2>3
  <2>4. CASE i \in 0 .. Capacity - 2
    <3>1. Index(head, i + 1) \in Slot /\ i + 1 \in 0 .. count - 1
      BY <1>1, <1>6, <2>4, IndexIsSlot
    <3> QED
      BY <1>3, <2>2, <3>1 DEF PagesOnly
  <2> QED
    BY <2>3, <2>4
<1> QED
  BY <1>1, <1>5, <1>6

LEMMA PagesOnlyPushSaveSlot ==
  ASSUME PagesOnly, TypeOK', PushSaveSlot
  PROVE  PagesOnly'
<1>1. /\ head \in Slot /\ count \in 1 .. Capacity /\ flash \in [Slot -> Blob]
  BY QueueAssumption DEF PagesOnly, TypeOK, Holders, PushSaveSlot
<1>2. slots[Newest] \in Page
  BY <1>1, QueueAssumption DEF PagesOnly, Newest
<1>3. phase = "on"
  BY DEF PagesOnly, Holders, PushSaveSlot
<1>4. \A j \in Slot : flash'[j] \in Page \cup {NoPage}
  BY <1>1, <1>2, <1>3 DEF PagesOnly, PushSaveSlot
<1> QED
  BY <1>4 DEF PagesOnly, Holders, PushSaveSlot, ram

LEMMA PagesOnlyPopRam ==
  ASSUME PagesOnly, TypeOK', PopRam
  PROVE  PagesOnly'
<1>1. head \in Slot /\ count \in 1 .. Capacity
  BY QueueAssumption DEF PagesOnly, TypeOK, PopRam
<1>2. \A i \in 0 .. count - 2 : Index(head', i) = Index(head, i + 1)
  BY <1>1, IndexShift, QueueAssumption DEF PopRam
<1>3. \A i \in 0 .. count' - 1 : slots'[Index(head', i)] \in Page
  BY <1>1, <1>2, QueueAssumption DEF PagesOnly, PopRam
<1> QED
  BY <1>1, <1>3, QueueAssumption DEF PagesOnly, Holders, PopRam, nvs

(* What flash holds once the queue is open was pushed by this firmware, and  *)
(* so was what the tasks see: PagesOnly, whatever writes fail.               *)
THEOREM QueuePagesOnly == Spec => []PagesOnly
<1>1. Init => PagesOnly
  BY QueueAssumption DEF Init, PagesOnly, TypeOK, Holders, NoMeta, Meta, Blob, Slot
<1>2. PagesOnly /\ TypeOK' /\ [Next]_vars => PagesOnly'
  <2> SUFFICES ASSUME PagesOnly, TypeOK', [Next]_vars PROVE PagesOnly'
    OBVIOUS
  <2>1. CASE Load
    BY <2>1, PagesOnlyLoad
  <2>2. ASSUME NEW p \in Page, PushRam(p) PROVE PagesOnly'
    BY <2>2, PagesOnlyPushRam
  <2>3. CASE PushSaveSlot
    BY <2>3, PagesOnlyPushSaveSlot
  <2>4. CASE PushSaveMeta \/ PopSaveMeta
    BY <2>4 DEF PagesOnly, Holders, PushSaveMeta, PopSaveMeta, SaveMeta, ram
  <2>5. CASE PopRam
    BY <2>5, PagesOnlyPopRam
  <2>6. CASE BeginClear \/ EraseSlot \/ EndClear \/ Crash
    <3>1. count' = 0 /\ (phase' = "on" \/ meta'.ok => \A j \in Slot : flash'[j] \in Page \cup {NoPage})
      BY <2>6 DEF PagesOnly, Holders, BeginClear, EraseSlot, EndClear, Crash, NoMeta, ram, nvs
    <3>2. Holders'
      BY <2>6 DEF PagesOnly, Holders, BeginClear, EraseSlot, EndClear, Crash, NoMeta, ram, nvs
    <3> QED
      BY <3>1, <3>2 DEF PagesOnly
  <2>7. CASE UNCHANGED vars
    BY <2>7 DEF vars, ram, nvs, PagesOnly, Holders
  <2> QED
    BY <2>1, <2>2, <2>3, <2>4, <2>5, <2>6, <2>7 DEF Next
<1> QED
  BY <1>1, <1>2, QueueTypeCorrect, PTL DEF Spec

(* A blob an earlier firmware left is never paged: NoGhosts, for every        *)
(* capacity and whatever NVS write fails.                                    *)
THEOREM QueueNoGhosts == Spec => []NoGhosts
<1>1. PagesOnly => NoGhosts
  <2> SUFFICES ASSUME PagesOnly, NEW i \in 1 .. count PROVE Live[i] \in Page
    BY DEF NoGhosts
  <2>1. i - 1 \in 0 .. count - 1
    BY QueueAssumption DEF PagesOnly, TypeOK
  <2> QED
    BY <2>1 DEF PagesOnly, Live
<1> QED
  BY <1>1, QueuePagesOnly, PTL

-----------------------------------------------------------------------------
(* The ring read as a queue.                                                *)
LEMMA LiveSeq ==
  ASSUME TypeOK
  PROVE  /\ Live \in Seq(Blob) /\ Len(Live) = count
         /\ \A i \in 1 .. count : Live[i] = slots[Index(head, i - 1)]
<1>1. count \in Nat /\ count <= Capacity /\ head \in Slot /\ slots \in [Slot -> Blob]
  BY QueueAssumption DEF TypeOK
<1>2. \A i \in 1 .. count : slots[Index(head, i - 1)] \in Blob
  <2> TAKE i \in 1 .. count
  <2>1. i - 1 \in 0 .. Capacity
    BY <1>1, QueueAssumption
  <2> QED
    BY <1>1, <2>1, IndexIsSlot
<1>3. Live \in [1 .. count -> Blob]
  BY <1>2 DEF Live
<1> QED
  BY <1>1, <1>3 DEF Live

(* The two ways a queue changes. *)
LEMMA TailIs ==
  ASSUME NEW S, NEW s \in Seq(S), NEW t \in Seq(S), Len(s) > 0, Len(t) = Len(s) - 1,
         \A i \in 1 .. Len(t) : t[i] = s[i + 1]
  PROVE  s # << >> /\ t = Tail(s)
<1>1. s # << >>
  BY EmptySeq
<1>2. /\ Tail(s) \in Seq(S) /\ Len(Tail(s)) = Len(s) - 1
      /\ \A i \in 1 .. Len(Tail(s)) : Tail(s)[i] = s[i + 1]
  BY <1>1, HeadTailProperties
<1> QED
  BY <1>1, <1>2, SeqEqual

LEMMA AppendIs ==
  ASSUME NEW S, NEW s \in Seq(S), NEW t \in Seq(S), NEW x \in S, Len(t) = Len(s) + 1,
         \A i \in 1 .. Len(s) : t[i] = s[i], t[Len(t)] = x
  PROVE  t = Append(s, x)
<1>1. /\ Append(s, x) \in Seq(S) /\ Len(Append(s, x)) = Len(s) + 1
      /\ \A i \in 1 .. Len(s) : Append(s, x)[i] = s[i]
      /\ Append(s, x)[Len(s) + 1] = x
  BY AppendProperties
<1>2. Len(s) \in Nat
  OBVIOUS
<1>3. \A i \in 1 .. Len(t) : t[i] = Append(s, x)[i]
  BY <1>1, <1>2
<1> QED
  BY <1>1, <1>3, SeqEqual

(* msg_queue_push appends the page, to the rest of the queue when full. *)
LEMMA PushRamAppends ==
  ASSUME TypeOK, TypeOK', NEW p \in Page, PushRam(p)
  PROVE  Live' = Append(IF count = Capacity THEN Tail(Live) ELSE Live, p)
<1> USE QueueAssumption
<1>1. /\ head \in Slot /\ count \in 0 .. Capacity /\ slots \in [Slot -> Blob]
      /\ Capacity \in Nat /\ Capacity > 0
  BY DEF TypeOK
<1>2. /\ Live \in Seq(Blob) /\ Len(Live) = count
      /\ \A i \in 1 .. count : Live[i] = slots[Index(head, i - 1)]
  BY LiveSeq
<1>3. /\ Live' \in Seq(Blob) /\ Len(Live') = count'
      /\ \A i \in 1 .. count' : Live'[i] = slots'[Index(head', i - 1)]
  <2>1. (/\ Live \in Seq(Blob) /\ Len(Live) = count
         /\ \A i \in 1 .. count : Live[i] = slots[Index(head, i - 1)])'
    BY LiveSeq, PTL
  <2> QED
    BY <2>1
<1>4. p \in Blob /\ Index(head, count) \in Slot
  BY <1>1, IndexIsSlot DEF Blob
<1>5. CASE count < Capacity
  <2>1. head' = head /\ count' = count + 1
    BY <1>1, <1>5 DEF PushRam
  <2>2. \A i \in 1 .. count : Live'[i] = Live[i]
    <3> TAKE i \in 1 .. count
    <3>1. i - 1 \in 0 .. Capacity - 1 /\ i - 1 # count /\ i \in 1 .. count'
      BY <1>1, <1>5, <2>1
    <3>2. Index(head, i - 1) # Index(head, count) /\ Index(head, i - 1) \in Slot
      BY <1>1, <1>5, <3>1, IndexInjective, IndexIsSlot
    <3> QED
      BY <1>1, <1>2, <1>3, <2>1, <3>1, <3>2 DEF PushRam
  <2>3. Live'[count + 1] = p
    BY <1>1, <1>3, <1>4, <2>1 DEF PushRam
  <2> QED
    BY <1>1, <1>2, <1>3, <1>4, <1>5, <2>1, <2>2, <2>3, AppendIs
<1>6. CASE count = Capacity
  <2>1. head' = Index(head, 1) /\ count' = Capacity
    BY <1>1, <1>6 DEF PushRam
  <2>2. /\ Tail(Live) \in Seq(Blob) /\ Len(Tail(Live)) = Capacity - 1
        /\ \A i \in 1 .. Capacity - 1 : Tail(Live)[i] = Live[i + 1]
    <3>1. Live # << >>
      BY <1>1, <1>2, <1>6
    <3> QED
      BY <1>1, <1>2, <1>6, <3>1, HeadTailProperties
  <2>3. \A i \in 1 .. Capacity - 1 : Live'[i] = Live[i + 1]
    <3> TAKE i \in 1 .. Capacity - 1
    <3>1. i - 1 \in 0 .. Capacity - 1 /\ i \in 0 .. Capacity - 1 /\ (i - 1) + 1 = i
          /\ i + 1 \in 1 .. count /\ (i + 1) - 1 = i /\ i \in 1 .. count' /\ 0 \in 0 .. Capacity - 1
      BY <1>1, <1>6, <2>1
    <3>2. Index(head', i - 1) = Index(head, i)
      BY <1>1, <2>1, <3>1, IndexShift
    <3>3. Index(head, i) # Index(head, 0) /\ Index(head, i) \in Slot
      BY <1>1, <3>1, IndexInjective, IndexIsSlot
    <3>4. Index(head, Capacity) = Index(head, 0)
      BY <1>1, IndexLap
    <3>5. slots'[Index(head, i)] = slots[Index(head, i)]
      BY <1>1, <1>6, <3>3, <3>4 DEF PushRam
    <3> QED
      BY <1>2, <1>3, <3>1, <3>2, <3>5
  <2>4. Live'[Capacity] = p
    <3>1. Capacity - 1 \in 0 .. Capacity - 1 /\ (Capacity - 1) + 1 = Capacity /\ Capacity \in 1 .. count'
      BY <1>1, <2>1
    <3>2. Index(head', Capacity - 1) = Index(head, Capacity)
      BY <1>1, <2>1, <3>1, IndexShift
    <3> QED
      BY <1>1, <1>3, <1>4, <1>6, <3>1, <3>2 DEF PushRam
  <2> QED
    BY <1>1, <1>3, <1>4, <1>6, <2>1, <2>2, <2>3, <2>4, AppendIs
<1> QED
  BY <1>1, <1>5, <1>6

(* msg_queue_pop takes the oldest page. *)
LEMMA PopRamTakes ==
  ASSUME TypeOK, TypeOK', PopRam
  PROVE  Live # << >> /\ Live' = Tail(Live)
<1>1. /\ head \in Slot /\ count \in 1 .. Capacity /\ Capacity \in Nat
      /\ head' = Index(head, 1) /\ count' = count - 1 /\ slots' = slots
  BY QueueAssumption DEF TypeOK, PopRam
<1>2. /\ Live \in Seq(Blob) /\ Len(Live) = count
      /\ \A i \in 1 .. count : Live[i] = slots[Index(head, i - 1)]
  BY LiveSeq
<1>3. /\ Live' \in Seq(Blob) /\ Len(Live') = count'
      /\ \A i \in 1 .. count' : Live'[i] = slots'[Index(head', i - 1)]
  <2>1. (/\ Live \in Seq(Blob) /\ Len(Live) = count
         /\ \A i \in 1 .. count : Live[i] = slots[Index(head, i - 1)])'
    BY LiveSeq, PTL
  <2> QED
    BY <2>1
<1>4. \A i \in 1 .. count - 1 : Live'[i] = Live[i + 1]
  <2> TAKE i \in 1 .. count - 1
  <2>1. i - 1 \in 0 .. Capacity - 1 /\ (i - 1) + 1 = i /\ i + 1 \in 1 .. count /\ (i + 1) - 1 = i
        /\ i \in 1 .. count'
    BY <1>1
  <2>2. Index(head', i - 1) = Index(head, i)
    BY <1>1, <2>1, IndexShift
  <2>3. Live'[i] = slots'[Index(head', i - 1)] /\ Live[i + 1] = slots[Index(head, i)]
    BY <1>2, <1>3, <2>1
  <2> QED
    BY <1>1, <2>2, <2>3
<1>5. Len(Live) > 0 /\ Len(Live') = Len(Live) - 1
  BY <1>1, <1>2, <1>3
<1> QED
  BY <1>1, <1>2, <1>3, <1>4, <1>5, TailIs

(* Every other step of a running queue leaves it alone. *)
LEMMA OthersKeepLive ==
  ASSUME UNCHANGED <<slots, head, count>>
  PROVE  Live' = Live
BY DEF Live, Index

(* The queue in RAM is an evicting FIFO: RamFifo, for every capacity and      *)
(* whatever writes fail.                                                     *)
THEOREM QueueRamFifo == Spec => RamFifo
<1> DEFINE Step ==
      phase = "on" /\ phase' = "on" =>
        \/ Live' = Live
        \/ Live # << >> /\ Live' = Tail(Live)
        \/ \E p \in Page :
             Live' = Append(IF Len(Live) = Capacity THEN Tail(Live) ELSE Live, p)
<1>1. ASSUME TypeOK, TypeOK', [Next]_vars PROVE [Step]_vars
  <2> SUFFICES ASSUME phase = "on", phase' = "on", Next PROVE Step
    BY <1>1
  <2>1. ASSUME NEW p \in Page, PushRam(p) PROVE Step
    <3>1. Len(Live) = count
      BY <1>1, LiveSeq
    <3> QED
      BY <1>1, <2>1, <3>1, PushRamAppends
  <2>2. CASE PopRam
    BY <1>1, <2>2, PopRamTakes
  <2>3. CASE PushSaveSlot \/ PushSaveMeta \/ PopSaveMeta
    <3>1. UNCHANGED <<slots, head, count>>
      BY <2>3 DEF PushSaveSlot, PushSaveMeta, PopSaveMeta, ram
    <3> QED
      BY <3>1, OthersKeepLive
  <2> QED
    BY <2>1, <2>2, <2>3 DEF Next, Load, BeginClear, EraseSlot, EndClear, Crash
<1> QED
  BY <1>1, QueueTypeCorrect, PTL DEF Spec, RamFifo
-----------------------------------------------------------------------------
(* A function on 1 .. n is a sequence. *)
LEMMA FunctionIsSeq ==
  ASSUME NEW S, NEW n \in Nat, NEW f \in [1 .. n -> S]
  PROVE  f \in Seq(S) /\ Len(f) = n
OBVIOUS

(* What a restart would read, when no advertised slot is unreadable. *)
LEMMA SavedSeq ==
  ASSUME TypeOK, AllReadable
  PROVE  /\ Saved \in Seq(Blob)
         /\ Len(Saved) = IF meta.ok THEN meta.count ELSE 0
         /\ \A i \in 1 .. Len(Saved) : Saved[i] = flash[Index(meta.head, i - 1)]
<1>1. /\ meta.count \in 0 .. Capacity /\ meta.head \in Slot
      /\ flash \in [Slot -> Blob] /\ Capacity \in Nat
  BY QueueAssumption DEF TypeOK, Meta
<1>2. CASE meta.ok
  <2>1. LoadCount = meta.count
    BY <1>2, LoadCountAll DEF AllReadable
  <2>2. Saved = [i \in 1 .. meta.count |-> flash[Index(meta.head, i - 1)]]
    BY <1>2, <2>1 DEF Saved
  <2>3. \A i \in 1 .. meta.count : flash[Index(meta.head, i - 1)] \in Blob
    <3> TAKE i \in 1 .. meta.count
    <3>1. i - 1 \in 0 .. Capacity
      BY <1>1
    <3> QED
      BY <1>1, <3>1, IndexIsSlot
  <2>4. Saved \in [1 .. meta.count -> Blob]
    BY <2>2, <2>3
  <2>5. Saved \in Seq(Blob) /\ Len(Saved) = meta.count
    BY <1>1, <2>4, FunctionIsSeq
  <2> QED
    BY <1>2, <2>2, <2>5
<1>3. CASE ~ meta.ok
  BY <1>3 DEF Saved
<1> QED
  BY <1>2, <1>3

(* The stored copy is the same when no blob it names is written. *)
LEMMA SavedKept ==
  ASSUME TypeOK, AllReadable, TypeOK', AllReadable',
         meta'.ok = meta.ok, meta.ok => UNCHANGED meta,
         meta.ok => \A i \in 0 .. meta.count - 1 :
                      flash'[Index(meta.head, i)] = flash[Index(meta.head, i)]
  PROVE  Saved' = Saved /\ SavedDropped' = SavedDropped
<1>1. /\ Saved \in Seq(Blob)
      /\ Len(Saved) = IF meta.ok THEN meta.count ELSE 0
      /\ \A i \in 1 .. Len(Saved) : Saved[i] = flash[Index(meta.head, i - 1)]
  BY SavedSeq
<1>2. /\ Saved' \in Seq(Blob)
      /\ Len(Saved') = IF meta'.ok THEN meta'.count ELSE 0
      /\ \A i \in 1 .. Len(Saved') : Saved'[i] = flash'[Index(meta'.head, i - 1)]
  <2>1. (/\ Saved \in Seq(Blob)
         /\ Len(Saved) = IF meta.ok THEN meta.count ELSE 0
         /\ \A i \in 1 .. Len(Saved) : Saved[i] = flash[Index(meta.head, i - 1)])'
    BY SavedSeq, PTL
  <2> QED
    BY <2>1
<1>3. Len(Saved') = Len(Saved)
  BY <1>1, <1>2
<1>4. \A i \in 1 .. Len(Saved) : Saved'[i] = Saved[i]
  <2> TAKE i \in 1 .. Len(Saved)
  <2>1. meta.ok /\ meta.count \in Nat /\ i - 1 \in 0 .. meta.count - 1
    BY <1>1, QueueAssumption DEF TypeOK, Meta
  <2>2. Saved[i] = flash[Index(meta.head, i - 1)]
    BY <1>1
  <2>3. Saved'[i] = flash'[Index(meta.head, i - 1)]
    BY <1>2, <1>3, <2>1
  <2> QED
    BY <2>1, <2>2, <2>3
<1>5. Saved' = Saved
  BY <1>1, <1>2, <1>3, <1>4, SeqEqual
<1> QED
  BY <1>5 DEF SavedDropped

(* Until a write fails, meta is one push behind while the pager holds the lock. *)
THEOREM QueueRefinementInvariant == Spec => [](sound => RefinementInv)
<1> USE QueueAssumption
<1>1. Init => MetaBehind
  BY DEF Init, MetaBehind
<1>2. /\ sound => QueueInv
      /\ sound => MetaBehind
      /\ TypeOK /\ [Next]_vars
      => (sound => MetaBehind)'
  <2> SUFFICES ASSUME QueueInv, MetaBehind, [Next]_vars PROVE MetaBehind'
    BY SoundFalls
  <2>1. ASSUME NEW p \in Page, PushRam(p) PROVE MetaBehind'
    <3>1. /\ head \in Slot /\ count \in 0 .. Capacity /\ dropped \in Nat /\ meta' = meta
          /\ phase = "on" /\ lock = "free"
      BY <2>1 DEF QueueInv, TypeOK, PushRam, nvs
    <3>2. IF meta.ok THEN meta.head = head /\ meta.count = count /\ meta.dropped = dropped
          ELSE count = 0 /\ dropped = 0
      BY <3>1 DEF QueueInv, MetaCurrent
    <3>3. CASE count < Capacity
      <4>1. head' = head /\ count' = count + 1 /\ dropped' = dropped
        BY <2>1, <3>1, <3>3 DEF PushRam
      <4> QED
        BY <3>1, <3>2, <4>1 DEF MetaBehind
    <3>4. CASE count = Capacity
      <4>1. head' = Index(head, 1) /\ count' = count /\ dropped' = dropped + 1
        BY <2>1, <3>1, <3>4 DEF PushRam
      <4> QED
        BY <3>1, <3>2, <3>4, <4>1 DEF MetaBehind
    <3> QED
      BY <3>1, <3>3, <3>4
  <2>2. CASE PushSaveSlot
    BY <2>2 DEF PushSaveSlot, MetaBehind, ram
  <2>3. CASE PushSaveMeta \/ PopRam \/ PopSaveMeta \/ Crash
    BY <2>3 DEF MetaBehind, PushSaveMeta, PopRam, PopSaveMeta, Crash
  <2>4. CASE Load \/ BeginClear \/ EraseSlot \/ EndClear
    BY <2>4 DEF QueueInv, Holders, MetaBehind, Load, BeginClear, EraseSlot, EndClear
  <2>5. CASE UNCHANGED vars
    BY <2>5 DEF vars, ram, nvs, MetaBehind
  <2> QED
    BY <2>1, <2>2, <2>3, <2>4, <2>5 DEF Next
<1>3. (sound => QueueInv) /\ (sound => MetaBehind) => (sound => RefinementInv)
  BY DEF RefinementInv
<1> QED
  BY <1>1, <1>2, <1>3, QueueInvariant, QueueTypeCorrect, PTL DEF Spec

-----------------------------------------------------------------------------
(* Every step of the ring over NVS is a step of the evicting FIFO with its    *)
(* stored copy, or none.                                                     *)
LEMMA LoadRecovers ==
  ASSUME QueueInv, QueueInv', Load
  PROVE  Fifo!Recover
<1>1. /\ Saved \in Seq(Blob) /\ Len(Saved) = meta.count
      /\ \A i \in 1 .. Len(Saved) : Saved[i] = flash[Index(meta.head, i - 1)]
  BY SavedSeq DEF QueueInv, Load
<1>2. /\ Live' \in Seq(Blob) /\ Len(Live') = count'
      /\ \A i \in 1 .. count' : Live'[i] = slots'[Index(head', i - 1)]
  <2>1. (/\ Live \in Seq(Blob) /\ Len(Live) = count
         /\ \A i \in 1 .. count : Live[i] = slots[Index(head, i - 1)])'
    BY LiveSeq, PTL DEF QueueInv
  <2> QED
    BY <2>1
<1>3. /\ meta.count \in 0 .. Capacity /\ meta.head \in Slot /\ Capacity \in Nat
      /\ LoadCount = meta.count
  BY LoadCountAll, QueueAssumption DEF QueueInv, AllReadable, TypeOK, Meta, Load
<1>4. head' = meta.head /\ count' = meta.count /\ dropped' = meta.dropped
  BY <1>3 DEF Load
<1>5. \A i \in 1 .. meta.count : Live'[i] = Saved[i]
  <2> TAKE i \in 1 .. meta.count
  <2>1. i - 1 \in 0 .. LoadCount - 1 /\ i - 1 \in 0 .. Capacity
    BY <1>3
  <2>2. Index(meta.head, i - 1) \in Slot
    BY <1>3, <2>1, IndexIsSlot
  <2>3. slots'[Index(meta.head, i - 1)] = flash[Index(meta.head, i - 1)]
    BY <2>1, <2>2 DEF Load
  <2> QED
    BY <1>1, <1>2, <1>4, <2>3
<1>6. Live' = Saved
  BY <1>1, <1>2, <1>4, <1>5, SeqEqual
<1>7. Saved' = Saved /\ SavedDropped' = SavedDropped
  BY SavedKept DEF QueueInv, Load, nvs
<1>8. phase = "off" /\ phase' = "on" /\ dropped' = SavedDropped
  BY <1>4 DEF Load, SavedDropped
<1>9. Operation = "none" /\ Operation' = "none"
  BY DEF Operation, Load, QueueInv, Holders
<1> QED
  BY <1>6, <1>7, <1>8, <1>9 DEF Fifo!Recover

LEMMA EndClearRecovers ==
  ASSUME QueueInv, EndClear
  PROVE  Fifo!Recover
<1>1. /\ ~ meta.ok /\ meta' = meta /\ count' = 0 /\ dropped' = 0 /\ count = 0
      /\ phase = "clear" /\ phase' = "on"
  BY DEF QueueInv, Holders, EndClear, ram, nvs
<1>2. Live' = << >> /\ Saved = << >> /\ Saved' = << >> /\ SavedDropped = 0 /\ SavedDropped' = 0
  BY <1>1 DEF Live, Saved, SavedDropped
<1>3. Operation = "none" /\ Operation' = "none"
  BY DEF Operation, EndClear, QueueInv, Holders
<1> QED
  BY <1>1, <1>2, <1>3 DEF Fifo!Recover

LEMMA CrashCrashes ==
  ASSUME QueueInv, QueueInv', Crash
  PROVE  Fifo!Crash
<1>1. Live' = << >>
  BY DEF Crash, Live
<1>2. Saved' = Saved /\ SavedDropped' = SavedDropped
  BY SavedKept DEF QueueInv, Crash, nvs
<1>3. Operation' = "none"
  BY DEF Operation, Crash
<1> QED
  BY <1>1, <1>2, <1>3 DEF Fifo!Crash, Crash

LEMMA WipeStutters ==
  ASSUME QueueInv, QueueInv', BeginClear \/ EraseSlot
  PROVE  UNCHANGED Fifo!vars
<1>1. /\ ~ meta.ok /\ ~ meta'.ok /\ UNCHANGED <<slots, head, count, dropped>>
      /\ phase # "on" /\ phase' # "on"
  BY DEF QueueInv, Holders, BeginClear, EraseSlot, ram, NoMeta
<1>2. Live' = Live /\ Saved' = Saved /\ SavedDropped' = SavedDropped
  BY <1>1, OthersKeepLive DEF Saved, SavedDropped
<1>3. Operation = "none" /\ Operation' = "none"
  BY DEF Operation, BeginClear, EraseSlot, QueueInv, Holders
<1> QED
  BY <1>1, <1>2, <1>3 DEF Fifo!vars

LEMMA PushRamPushes ==
  ASSUME QueueInv, QueueInv', NEW p \in Page, PushRam(p)
  PROVE  Fifo!Push(p)
<1>1. Live' = Append(IF count = Capacity THEN Tail(Live) ELSE Live, p) /\ Len(Live) = count
  BY PushRamAppends, LiveSeq DEF QueueInv
<1>2. Saved' = Saved /\ SavedDropped' = SavedDropped
  BY SavedKept DEF QueueInv, PushRam, nvs
<1>3. Operation = "none" /\ Operation' = "push" /\ phase = "on" /\ phase' = "on"
  BY DEF Operation, PushRam, QueueInv, Holders
<1>4. dropped' = IF count = Capacity THEN dropped + 1 ELSE dropped
  BY QueueAssumption DEF PushRam, QueueInv, TypeOK
<1> QED
  BY <1>1, <1>2, <1>3, <1>4 DEF Fifo!Push, Fifo!Full

LEMMA PopRamPops ==
  ASSUME QueueInv, QueueInv', PopRam
  PROVE  Fifo!Pop
<1>1. Live # << >> /\ Live' = Tail(Live)
  BY PopRamTakes DEF QueueInv
<1>2. Saved' = Saved /\ SavedDropped' = SavedDropped
  BY SavedKept DEF QueueInv, PopRam, nvs
<1>3. Operation = "none" /\ Operation' = "pop" /\ phase = "on" /\ phase' = "on" /\ dropped' = dropped
  BY DEF Operation, PopRam, QueueInv, Holders
<1> QED
  BY <1>1, <1>2, <1>3 DEF Fifo!Pop

LEMMA SaveMetaCommits ==
  ASSUME QueueInv, QueueInv', PushSaveMeta \/ PopSaveMeta
  PROVE  Fifo!Commit
<1>1. phase' = "on" /\ lock' = "free" /\ phase = "on" /\ UNCHANGED <<slots, head, count, dropped>>
  BY DEF PushSaveMeta, PopSaveMeta, QueueInv, Holders, ram
<1>2. Saved' = Live' /\ SavedDropped' = dropped'
  <2>1. (QueueInv /\ phase = "on" /\ lock = "free" => Saved = Live /\ SavedDropped = dropped)'
    BY InvWritesThrough, PTL
  <2> QED
    BY <1>1, <2>1
<1>3. Live' = Live
  BY <1>1, OthersKeepLive
<1>4. Operation' = "none"
  BY DEF Operation, PushSaveMeta, PopSaveMeta, QueueInv, Holders
<1>5. Operation \in {"torn", "pop"} \/ (Operation = "push" /\ ~ Fifo!Full(Saved))
  BY DEF Operation, PushSaveMeta, PopSaveMeta, QueueInv, Holders, Fifo!Full
<1> QED
  BY <1>1, <1>2, <1>3, <1>4, <1>5 DEF Fifo!Commit

LEMMA SaveSlotTears ==
  ASSUME QueueInv, QueueInv', MetaBehind, PushSaveSlot, sound'
  PROVE  Fifo!Torn \/ UNCHANGED Fifo!vars
<1> USE QueueAssumption
<1>1. /\ head \in Slot /\ count \in 1 .. Capacity /\ flash \in [Slot -> Blob]
      /\ slots \in [Slot -> Blob] /\ Capacity \in Nat /\ meta \in Meta
  BY DEF QueueInv, TypeOK, Holders, PushSaveSlot
<1>2. /\ flash' = [flash EXCEPT ![Newest] = slots[Newest]] /\ Newest \in Slot
      /\ UNCHANGED <<phase, slots, head, count, dropped, meta>>
      /\ lock = "pager" /\ push = "slot" /\ push' = "meta" /\ pop = "none" /\ pop' = "none"
  BY <1>1, IndexIsSlot DEF PushSaveSlot, ram, Newest, QueueInv, Holders
<1>3. Live' = Live
  BY <1>2, OthersKeepLive
<1>4. /\ Saved \in Seq(Blob)
      /\ Len(Saved) = IF meta.ok THEN meta.count ELSE 0
      /\ \A i \in 1 .. Len(Saved) : Saved[i] = flash[Index(meta.head, i - 1)]
  BY SavedSeq DEF QueueInv
<1>5. /\ Saved' \in Seq(Blob)
      /\ Len(Saved') = IF meta'.ok THEN meta'.count ELSE 0
      /\ \A i \in 1 .. Len(Saved') : Saved'[i] = flash'[Index(meta'.head, i - 1)]
  <2>1. (/\ Saved \in Seq(Blob)
         /\ Len(Saved) = IF meta.ok THEN meta.count ELSE 0
         /\ \A i \in 1 .. Len(Saved) : Saved[i] = flash[Index(meta.head, i - 1)])'
    BY SavedSeq, PTL DEF QueueInv
  <2> QED
    BY <2>1
<1>6. CASE Len(Saved) = Capacity
  <2>1. meta.ok /\ meta.count = Capacity /\ meta.head \in Slot
    BY <1>1, <1>4, <1>6 DEF Meta
  <2>2. count = Capacity /\ head = Index(meta.head, 1)
    BY <1>1, <1>2, <2>1 DEF MetaBehind
  <2>3. Newest = meta.head
    <3>1. Capacity - 1 \in 0 .. Capacity - 1 /\ (Capacity - 1) + 1 = Capacity
      BY <1>1
    <3>2. Index(head, Capacity - 1) = Index(meta.head, Capacity)
      BY <2>1, <2>2, <3>1, IndexShift
    <3> QED
      BY <2>1, <2>2, <3>2, IndexLap DEF Newest
  <2>4. Live \in Seq(Blob) /\ Len(Live) = Capacity /\ Live[Capacity] = slots[Newest]
    <3>1. /\ Live \in Seq(Blob) /\ Len(Live) = count
          /\ \A i \in 1 .. count : Live[i] = slots[Index(head, i - 1)]
      BY LiveSeq DEF QueueInv
    <3>2. Capacity \in 1 .. count
      BY <1>1, <2>2
    <3> QED
      BY <2>2, <3>1, <3>2 DEF Newest
  <2>5. Live[Len(Live)] = slots[Newest] /\ slots[Newest] \in Blob
    BY <1>1, <1>2, <2>4
  <2>6. Saved' = [Saved EXCEPT ![1] = Live[Len(Live)]]
    <3> DEFINE T == [Saved EXCEPT ![1] = Live[Len(Live)]]
    <3>1. /\ T \in Seq(Blob) /\ Len(T) = Capacity
          /\ \A i \in 1 .. Capacity : T[i] = IF i = 1 THEN Live[Len(Live)] ELSE Saved[i]
      BY <1>1, <1>4, <1>6, <2>5, ExceptSeq
    <3>2. \A i \in 1 .. Capacity : Saved'[i] = T[i]
      <4> TAKE i \in 1 .. Capacity
      <4>1. /\ i - 1 \in 0 .. Capacity - 1 /\ 0 \in 0 .. Capacity - 1 /\ i - 1 \in 0 .. Capacity
            /\ Index(meta.head, i - 1) \in Slot
        BY <1>1, <2>1, IndexIsSlot
      <4>2. Saved'[i] = flash'[Index(meta.head, i - 1)] /\ Saved[i] = flash[Index(meta.head, i - 1)]
        BY <1>2, <1>4, <1>5, <1>6, <2>1
      <4>3. CASE i = 1
        <5>1. Index(meta.head, i - 1) = Newest
          BY <2>1, <2>3, <4>3, IndexLap
        <5> QED
          BY <1>1, <1>2, <2>5, <3>1, <4>2, <4>3, <5>1
      <4>4. CASE i # 1
        <5>1. Index(meta.head, i - 1) # Index(meta.head, 0)
          BY <2>1, <4>1, <4>4, IndexInjective
        <5>2. Index(meta.head, i - 1) # Newest
          BY <2>1, <2>3, <5>1, IndexLap
        <5> QED
          BY <1>1, <1>2, <3>1, <4>1, <4>2, <4>4, <5>2
      <4> QED
        BY <4>3, <4>4
    <3>3. Len(Saved') = Capacity
      BY <1>2, <1>5, <2>1
    <3> HIDE DEF T
    <3>4. Saved' = T
      BY <1>5, <3>1, <3>2, <3>3, SeqEqual
    <3> QED
      BY <3>4 DEF T
  <2>7. Operation = "push" /\ Operation' = "torn"
    BY <1>2, <1>5, <2>1 DEF Operation
  <2>8. SavedDropped' = SavedDropped
    BY <1>2 DEF SavedDropped
  <2> QED
    BY <1>2, <1>3, <1>6, <2>6, <2>7, <2>8 DEF Fifo!Torn, Fifo!Full, Fifo!Last
<1>7. CASE Len(Saved) # Capacity
  <2>1. meta.ok => \A i \in 0 .. meta.count - 1 :
                     flash'[Index(meta.head, i)] = flash[Index(meta.head, i)]
    <3> SUFFICES ASSUME meta.ok, NEW i \in 0 .. meta.count - 1
                 PROVE  flash'[Index(meta.head, i)] = flash[Index(meta.head, i)]
      OBVIOUS
    <3>1. meta.head = head /\ meta.count = count - 1
      BY <1>2, <1>4, <1>7 DEF MetaBehind
    <3>2. Index(head, i) # Newest
      <4>1. i \in 0 .. Capacity - 1 /\ count - 1 \in 0 .. Capacity - 1 /\ i # count - 1
        BY <1>1, <3>1
      <4> QED
        BY <1>1, <4>1, IndexInjective DEF Newest
    <3> QED
      BY <1>1, <1>2, <3>1, <3>2
  <2>2. Saved' = Saved /\ SavedDropped' = SavedDropped
    BY <1>2, <2>1, SavedKept DEF QueueInv
  <2>3. Operation = "push" /\ Operation' = "push"
    BY <1>2, <1>7, <2>2 DEF Operation
  <2> QED
    BY <1>2, <1>3, <2>2, <2>3 DEF Fifo!vars
<1> QED
  BY <1>6, <1>7

(* Until a write fails, the ring, its two kinds of blob and its load implement *)
(* the evicting FIFO with its stored copy: ImplementsFifo, for every capacity   *)
(* and every set of pages, power cuts included.                               *)
THEOREM QueueImplementsFifo == Spec => ImplementsFifo
<1>1. Init => Fifo!Init
  BY DEF Init, Fifo!Init, Live, Saved, SavedDropped, NoMeta, Operation
<1>2. /\ sound => RefinementInv
      /\ (sound => RefinementInv)'
      /\ TypeOK /\ [Next]_vars
      => [sound' => Fifo!Next]_(Fifo!vars)
  <2> SUFFICES ASSUME QueueInv, QueueInv', MetaBehind, [Next]_vars, sound'
               PROVE  [Fifo!Next]_(Fifo!vars)
    BY SoundFalls DEF RefinementInv
  <2>1. CASE Load
    BY <2>1, LoadRecovers DEF Fifo!Next
  <2>2. CASE EndClear
    BY <2>2, EndClearRecovers DEF Fifo!Next
  <2>3. CASE BeginClear \/ EraseSlot
    BY <2>3, WipeStutters
  <2>4. ASSUME NEW p \in Page, PushRam(p) PROVE Fifo!Next
    BY <2>4, PushRamPushes DEF Fifo!Next
  <2>5. CASE PushSaveSlot
    BY <2>5, SaveSlotTears DEF Fifo!Next
  <2>6. CASE PushSaveMeta \/ PopSaveMeta
    BY <2>6, SaveMetaCommits DEF Fifo!Next
  <2>7. CASE PopRam
    BY <2>7, PopRamPops DEF Fifo!Next
  <2>8. CASE Crash
    BY <2>8, CrashCrashes DEF Fifo!Next
  <2>9. CASE UNCHANGED vars
    <3>1. UNCHANGED <<slots, head, count>>
      BY <2>9 DEF vars, ram
    <3>2. Live' = Live
      BY <3>1, OthersKeepLive
    <3>3. Saved' = Saved /\ SavedDropped' = SavedDropped
      BY <2>9, SavedKept DEF vars, nvs, QueueInv
    <3>4. Operation' = Operation
      BY <2>9, <3>3 DEF vars, Operation
    <3> QED
      BY <2>9, <3>2, <3>3, <3>4 DEF vars, ram, Fifo!vars
  <2> QED
    BY <2>1, <2>2, <2>3, <2>4, <2>5, <2>6, <2>7, <2>8, <2>9 DEF Next
<1> QED
  BY <1>1, <1>2, QueueRefinementInvariant, QueueTypeCorrect, PTL DEF Spec, ImplementsFifo

(* Where no write can fail, the page queue implements PageFifo outright. *)
THEOREM QueueIsFifo == ASSUME Failing = {} PROVE Spec => Fifo!Spec
<1>1. Init => sound
  BY DEF Init
<1>2. sound /\ [Next]_vars => sound'
  BY DEF Next, Load, BeginClear, EraseSlot, EndClear, PushRam, PushSaveSlot, PushSaveMeta,
         SaveMeta, PopRam, PopSaveMeta, Crash, vars, nvs
<1>3. sound' /\ [sound' => Fifo!Next]_(Fifo!vars) => [Fifo!Next]_(Fifo!vars)
  OBVIOUS
<1> QED
  BY <1>1, <1>2, <1>3, QueueImplementsFifo, PTL DEF Spec, ImplementsFifo, Fifo!Spec
=============================================================================
