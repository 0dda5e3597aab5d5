------------------------------ MODULE PageFifo ------------------------------
(***************************************************************************)
(* What the page queue promises its callers: a bounded FIFO of pages that  *)
(* evicts its oldest page when full, mirrored to storage one operation     *)
(* behind.  There is no ring, no index, no blob and no mutex here: the     *)
(* queue is a sequence, its stored copy another.                           *)
(*                                                                         *)
(* The one place where the stored copy is neither the queue before an      *)
(* operation nor the queue after it is a push into a full queue: the new   *)
(* page takes the storage of the oldest one before the copy is rotated.    *)
(* Torn is that step.                                                      *)
(***************************************************************************)
EXTENDS Integers, Sequences, SequencesExt

CONSTANTS Page, Capacity

VARIABLES
  up,            \* the device runs
  queue,         \* the queue the tasks see
  drops,         \* pages evicted
  stored,        \* the copy a restart restores
  storedDrops,
  op             \* "none", "push", "torn" or "pop": the operation under way

vars == <<up, queue, drops, stored, storedDrops, op>>

Init ==
  /\ up = FALSE
  /\ queue = << >> /\ stored = << >>
  /\ drops = 0 /\ storedDrops = 0
  /\ op = "none"

Full(q) == Len(q) = Capacity

Push(p) ==
  /\ up /\ op = "none"
  /\ op' = "push"
  /\ queue' = Append(IF Full(queue) THEN Tail(queue) ELSE queue, p)
  /\ drops' = IF Full(queue) THEN drops + 1 ELSE drops
  /\ UNCHANGED <<up, stored, storedDrops>>

Torn ==
  /\ op = "push" /\ Full(stored)
  /\ op' = "torn"
  /\ stored' = [stored EXCEPT ![1] = Last(queue)]
  /\ UNCHANGED <<up, queue, drops, storedDrops>>

Pop ==
  /\ up /\ op = "none"
  /\ queue # << >>
  /\ op' = "pop"
  /\ queue' = Tail(queue)
  /\ UNCHANGED <<up, drops, stored, storedDrops>>

Commit ==
  /\ op \in {"torn", "pop"} \/ (op = "push" /\ ~ Full(stored))
  /\ op' = "none"
  /\ stored' = queue /\ storedDrops' = drops
  /\ UNCHANGED <<up, queue, drops>>

Crash ==
  /\ up' = FALSE
  /\ queue' = << >> /\ drops' = 0 /\ op' = "none"
  /\ UNCHANGED <<stored, storedDrops>>

Recover ==
  /\ ~ up
  /\ up' = TRUE
  /\ queue' = stored /\ drops' = storedDrops
  /\ UNCHANGED <<stored, storedDrops, op>>

Next ==
  \/ \E p \in Page : Push(p)
  \/ Torn \/ Pop \/ Commit \/ Crash \/ Recover

Spec == Init /\ [][Next]_vars
=============================================================================
