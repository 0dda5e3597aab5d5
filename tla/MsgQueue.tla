------------------------------ MODULE MsgQueue ------------------------------
(***************************************************************************)
(* The page queue: msg_queue.c, a ring of pages in RAM behind one mutex,   *)
(* over msg_store.c, its copy in NVS flash (one blob per ring slot and one *)
(* meta blob with head, count and dropped).                                *)
(*                                                                         *)
(* The pager task pushes and the button task pops.  Each holds s_lock from *)
(* its RAM update to its last flash write, and the flash writes are steps  *)
(* of their own, because power may fail between any two of them.  One NVS  *)
(* write is atomic and durable at once.  A write named in Failing may also *)
(* return an error: the code logs it and goes on.  sound is history: no    *)
(* write has failed so far.                                                *)
(*                                                                         *)
(* A definition that only differs from the next one by a slip (LoadFromZero,*)
(* NoClear, ...) is no part of Spec: putting it in the place of the next    *)
(* one must break a property of MsgQueueProps.                             *)
(***************************************************************************)
EXTENDS Integers, Sequences

CONSTANTS
  Capacity,    \* APP_MSG_QUEUE_LEN
  Page,        \* the pages the pager task pushes
  OldPage,     \* pages an earlier firmware left in slot blobs
  NoPage,      \* an unwritten slot, a missing blob, a blob of another size
  Failing,     \* the NVS writes that may fail: a subset of {"slot", "meta"}
  MaxDropped   \* bound on the evictions counted

ASSUME QueueAssumption ==
  /\ Capacity \in Nat \ {0}
  /\ NoPage \notin Page \cup OldPage
  /\ Page \cap OldPage = {}
  /\ Failing \subseteq {"slot", "meta"}
  /\ MaxDropped \in Nat

VARIABLES
  phase,    \* "off": no power; "clear": msg_store_clear runs; "on": tasks run
  slots,    \* s_slots
  head,     \* s_head
  count,    \* s_count
  dropped,  \* s_dropped
  lock,     \* holder of s_lock: "free", "pager" or "button"
  push,     \* the push under way: "none", "slot" or "meta", the write it owes
  pop,      \* the pop under way: "none" or "meta"
  flash,    \* the blob under each slot key
  meta,     \* the meta blob; ~meta.ok if absent or of another layout
  sound     \* no NVS write has failed so far

ram == <<slots, head, count, dropped>>
nvs == <<flash, meta, sound>>
vars == <<phase, ram, lock, push, pop, nvs>>

Slot == 0 .. Capacity - 1
Blob == Page \cup OldPage \cup {NoPage}
Meta == [ok : BOOLEAN, head : Slot, count : 0 .. Capacity, dropped : Nat]
NoMeta == [ok |-> FALSE, head |-> 0, count |-> 0, dropped |-> 0]

\* The ring slot i places after h.
Index(h, i) == (h + i) % Capacity

\* The queue the tasks see, oldest page first.
Live == [i \in 1 .. count |-> slots[Index(head, i - 1)]]

\* How many pages msg_store_load restores: it stops at the first advertised
\* slot whose blob it cannot read.
Readable(i) == flash[Index(meta.head, i)] # NoPage
LoadCount ==
  CHOOSE n \in 0 .. meta.count :
    /\ \A i \in 0 .. n - 1 : Readable(i)
    /\ n < meta.count => ~ Readable(n)

\* The queue a restart would restore from flash now, and its dropped count.
Saved ==
  IF meta.ok THEN [i \in 1 .. LoadCount |-> flash[Index(meta.head, i - 1)]]
             ELSE << >>
SavedDropped == IF meta.ok THEN meta.dropped ELSE 0

-----------------------------------------------------------------------------
(* Flash leaves the factory blank, or holds the blobs of an earlier layout. *)
Init ==
  /\ phase = "off"
  /\ slots = [i \in Slot |-> NoPage]
  /\ head = 0 /\ count = 0 /\ dropped = 0
  /\ lock = "free" /\ push = "none" /\ pop = "none"
  /\ flash \in [Slot -> OldPage \cup {NoPage}]
  /\ meta = NoMeta
  /\ sound = TRUE

LoadFromZero ==
  /\ phase = "off" /\ meta.ok
  /\ phase' = "on"
  /\ slots' = flash /\ head' = 0 /\ count' = LoadCount /\ dropped' = meta.dropped
  /\ UNCHANGED <<lock, push, pop, nvs>>

(* msg_queue_init: load the queue, or start the wipe when load reports none. *)
Load ==
  /\ phase = "off" /\ meta.ok
  /\ phase' = "on"
  /\ slots' = [i \in Slot |->
                 IF \E k \in 0 .. LoadCount - 1 : i = Index(meta.head, k)
                 THEN flash[i] ELSE NoPage]
  /\ head' = meta.head
  /\ count' = LoadCount
  /\ dropped' = meta.dropped
  /\ UNCHANGED <<lock, push, pop, nvs>>

NoClear ==
  /\ phase = "off" /\ ~ meta.ok
  /\ phase' = "on"
  /\ UNCHANGED <<ram, lock, push, pop, nvs>>

BeginClear ==
  /\ phase = "off" /\ ~ meta.ok
  /\ phase' = "clear"
  /\ meta' = NoMeta
  /\ UNCHANGED <<ram, lock, push, pop, flash, sound>>

(* msg_store_clear then erases the slot keys in order; a missing key is no   *)
(* error.                                                                     *)
EraseSlot ==
  /\ phase = "clear"
  /\ \E i \in Slot :
       /\ flash[i] # NoPage /\ \A j \in 0 .. i - 1 : flash[j] = NoPage
       /\ flash' = [flash EXCEPT ![i] = NoPage]
  /\ UNCHANGED <<phase, ram, lock, push, pop, meta, sound>>

EndClear ==
  /\ phase = "clear"
  /\ \A i \in Slot : flash[i] = NoPage
  /\ phase' = "on"
  /\ UNCHANGED <<ram, lock, push, pop, nvs>>

-----------------------------------------------------------------------------
PushRamInPlace(p) ==
  /\ phase = "on" /\ push = "none" /\ lock = "free"
  /\ lock' = "pager" /\ push' = "slot"
  /\ slots' = [slots EXCEPT ![Index(head, count)] = p]
  /\ IF count < Capacity THEN count' = count + 1 /\ UNCHANGED dropped
     ELSE UNCHANGED count /\ dropped < MaxDropped /\ dropped' = dropped + 1
  /\ UNCHANGED <<phase, head, pop, nvs>>

(* msg_queue_push, by the pager task: under the lock evict the oldest page  *)
(* if the ring is full, store the page in RAM, save its slot, save meta.    *)
PushRam(p) ==
  /\ phase = "on" /\ push = "none" /\ lock = "free"
  /\ lock' = "pager" /\ push' = "slot"
  /\ slots' = [slots EXCEPT ![Index(head, count)] = p]
  /\ \/ /\ count < Capacity
        /\ count' = count + 1
        /\ UNCHANGED <<head, dropped>>
     \/ /\ count = Capacity /\ dropped < MaxDropped
        /\ head' = Index(head, 1)
        /\ dropped' = dropped + 1
        /\ UNCHANGED count
  /\ UNCHANGED <<phase, pop, nvs>>

NewestPastEnd == Index(head, count)

\* The slot the last push filled.
Newest == Index(head, count - 1)

PushSaveSlot ==
  /\ push = "slot"
  /\ push' = "meta"
  /\ \/ flash' = [flash EXCEPT ![Newest] = slots[Newest]] /\ UNCHANGED sound
     \/ "slot" \in Failing /\ sound' = FALSE /\ UNCHANGED flash
  /\ UNCHANGED <<phase, ram, lock, pop, meta>>

\* msg_store_save_meta with its caller's head, count and dropped.
SaveMeta ==
  \/ /\ meta' = [ok |-> TRUE, head |-> head, count |-> count, dropped |-> dropped]
     /\ UNCHANGED sound
  \/ "meta" \in Failing /\ sound' = FALSE /\ UNCHANGED meta

PushSaveMeta ==
  /\ push = "meta"
  /\ SaveMeta
  /\ push' = "none" /\ lock' = "free"
  /\ UNCHANGED <<phase, ram, pop, flash>>

PopRamUnlocked ==
  /\ phase = "on" /\ pop = "none"
  /\ count > 0
  /\ lock' = "button" /\ pop' = "meta"
  /\ head' = Index(head, 1)
  /\ count' = count - 1
  /\ UNCHANGED <<phase, slots, dropped, push, nvs>>

(* msg_queue_pop, by the button task. *)
PopRam ==
  /\ phase = "on" /\ pop = "none" /\ lock = "free"
  /\ count > 0
  /\ lock' = "button" /\ pop' = "meta"
  /\ head' = Index(head, 1)
  /\ count' = count - 1
  /\ UNCHANGED <<phase, slots, dropped, push, nvs>>

PopSaveMeta ==
  /\ pop = "meta"
  /\ SaveMeta
  /\ pop' = "none" /\ lock' = "free"
  /\ UNCHANGED <<phase, ram, push, flash>>

(* Power is lost, or the chip resets: RAM goes, flash stays. *)
Crash ==
  /\ phase # "off"
  /\ phase' = "off"
  /\ slots' = [i \in Slot |-> NoPage]
  /\ head' = 0 /\ count' = 0 /\ dropped' = 0
  /\ lock' = "free" /\ push' = "none" /\ pop' = "none"
  /\ UNCHANGED nvs

Next ==
  \/ Load \/ BeginClear \/ EraseSlot \/ EndClear
  \/ \E p \in Page : PushRam(p)
  \/ PushSaveSlot \/ PushSaveMeta
  \/ PopRam \/ PopSaveMeta
  \/ Crash

Spec == Init /\ [][Next]_vars
=============================================================================
