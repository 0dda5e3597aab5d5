---------------------------- MODULE MsgQueueProps ----------------------------
(***************************************************************************)
(* What is claimed of the page queue.                                      *)
(***************************************************************************)
EXTENDS MsgQueue

(* Every variable has its type: head and count stay inside the ring that   *)
(* msg_store_load accepts, in RAM and in the meta blob.                     *)
TypeOK ==
  /\ phase \in {"off", "clear", "on"}
  /\ slots \in [Slot -> Blob]
  /\ head \in Slot /\ count \in 0 .. Capacity /\ dropped \in Nat
  /\ lock \in {"free", "pager", "button"}
  /\ push \in {"none", "slot", "meta"} /\ pop \in {"none", "meta"}
  /\ flash \in [Slot -> Blob]
  /\ meta \in Meta
  /\ sound \in BOOLEAN

(* Until a write fails, whenever nobody holds s_lock a restart would restore *)
(* exactly the queue the tasks see, and its eviction count: push and pop      *)
(* write through.                                                            *)
WriteThrough ==
  sound /\ phase = "on" /\ lock = "free" => Saved = Live /\ SavedDropped = dropped

(* Every slot the meta blob advertises has a readable blob.                  *)
AllReadable == meta.ok => \A i \in 0 .. meta.count - 1 : Readable(i)

(* Until a write fails, that is so at every instant, in the middle of an     *)
(* operation too, so that msg_store_load never truncates: the reason push     *)
(* saves the slot before the meta.                                           *)
NeverTruncated == sound => AllReadable

(* The inductive strengthening of the two, for as long as no write has        *)
(* failed: what the holder of the lock has already written, and what it still *)
(* owes.                                                                     *)
Holders ==
  /\ lock = "pager" <=> push # "none"
  /\ lock = "button" <=> pop # "none"
  /\ phase # "on" => lock = "free" /\ head = 0 /\ count = 0 /\ dropped = 0
  /\ phase = "clear" => ~ meta.ok
  /\ push # "none" => count > 0
LivePages == \A i \in 0 .. count - 1 : slots[Index(head, i)] # NoPage
Mirrored ==
  \A i \in 0 .. (IF push = "slot" THEN count - 2 ELSE count - 1) :
    flash[Index(head, i)] = slots[Index(head, i)]
MetaCurrent ==
  phase = "on" /\ lock = "free" =>
    IF meta.ok THEN meta.head = head /\ meta.count = count /\ meta.dropped = dropped
    ELSE count = 0 /\ dropped = 0
QueueInv ==
  TypeOK /\ AllReadable /\ Holders /\ LivePages /\ Mirrored /\ MetaCurrent

(* Whatever a write does, the queue in RAM is a FIFO: while the tasks run   *)
(* it only ever loses its oldest page or gains one at the end, a full one   *)
(* doing both, and it holds no slot that was never written.                 *)
RamFifo ==
  [][phase = "on" /\ phase' = "on" =>
       \/ Live' = Live
       \/ Live # << >> /\ Live' = Tail(Live)
       \/ \E p \in Page :
            Live' = Append(IF Len(Live) = Capacity THEN Tail(Live) ELSE Live, p)
    ]_vars

(* A blob an earlier firmware left is never paged: the wipe of a failed load *)
(* removes it before the queue opens, so that no lost slot write can bring   *)
(* it back, whatever NVS write fails afterwards.                             *)
NoGhosts ==
  \A i \in 1 .. count : Live[i] \in Page

(* The inductive invariant behind it: once the queue is open, or meta names   *)
(* blobs to load, no old blob is left in flash.                              *)
PagesOnly ==
  /\ TypeOK /\ Holders
  /\ \A i \in 0 .. count - 1 : slots[Index(head, i)] \in Page
  /\ phase = "on" \/ meta.ok => \A j \in Slot : flash[j] \in Page \cup {NoPage}

(* The operation of the abstract queue that the holder of s_lock is in.       *)
Operation ==
  CASE pop = "meta" -> "pop"
    [] push = "slot" -> "push"
    [] push = "meta" -> IF Len(Saved) = Capacity THEN "torn" ELSE "push"
    [] OTHER -> "none"

(* Until a write fails, the ring over NVS implements the evicting FIFO with   *)
(* its stored copy.  With Failing = {} this is Fifo!Spec.                     *)
Fifo == INSTANCE PageFifo WITH
  up          <- phase = "on",
  queue       <- Live,
  drops       <- dropped,
  stored      <- Saved,
  storedDrops <- SavedDropped,
  op          <- Operation
ImplementsFifo == Fifo!Init /\ [][sound' => Fifo!Next]_(Fifo!vars)

(* What meta is behind by while the pager holds the lock: one page more, or   *)
(* one turn of a full ring.  The refinement needs it to tell which slots a    *)
(* restart would read.                                                       *)
MetaBehind ==
  lock = "pager" =>
    IF meta.ok
    THEN \/ meta.head = head /\ meta.count = count - 1 /\ meta.dropped = dropped
         \/ /\ meta.count = Capacity /\ count = Capacity
            /\ head = Index(meta.head, 1) /\ dropped = meta.dropped + 1
    ELSE count = 1 /\ dropped = 0
RefinementInv == QueueInv /\ MetaBehind
=============================================================================
