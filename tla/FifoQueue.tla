----------------------------- MODULE FifoQueue ------------------------------
(***************************************************************************)
(* What a blocking queue promises its producers and consumers, with no    *)
(* threads, locks or condition variables: items leave in the order they   *)
(* entered, each one at most once, a batch enters as a unit, Clear        *)
(* discards what is queued, and a stopped queue stays stopped.            *)
(***************************************************************************)
EXTENDS Naturals, Sequences, SequencesExt

CONSTANT Items          \* the items producers can enqueue

VARIABLES
  queue,                \* the items queued, oldest first
  taken,                \* the items consumers have taken so far
  stopped               \* the queue was stopped

vars == <<queue, taken, stopped>>

Init ==
  /\ queue = <<>>
  /\ taken = {}
  /\ stopped = FALSE

(* A producer appends a batch of items (a single item is a batch of one): *)
(* the old queue is a prefix of the new one.                             *)
Put ==
  /\ IsPrefix(queue, queue')
  /\ ToSet(queue') \subseteq Items
  /\ UNCHANGED <<taken, stopped>>

(* A consumer takes the oldest item, which no consumer has taken before. *)
Take ==
  /\ queue # <<>>
  /\ Head(queue) \notin taken
  /\ queue' = Tail(queue)
  /\ taken' = taken \cup {Head(queue)}
  /\ UNCHANGED stopped

(* The owner discards every queued item. *)
Discard ==
  /\ queue' = <<>>
  /\ UNCHANGED <<taken, stopped>>

Halt ==
  /\ stopped' = TRUE
  /\ UNCHANGED <<queue, taken>>

Next ==
  \/ Put
  \/ Take
  \/ Discard
  \/ Halt

Spec == Init /\ [][Next]_vars
=============================================================================
