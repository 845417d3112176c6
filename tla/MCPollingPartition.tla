------------------------- MODULE MCPollingPartition -------------------------
(***************************************************************************)
(* Repeats the re-partition of UpdateSessions (steps 4-6) for a changing   *)
(* number of sessions and checks the resulting windows against a          *)
(* reference definition of a partition of the sessions vector.             *)
(***************************************************************************)
EXTENDS Naturals, Sequences, FiniteSets, PollingPartition

CONSTANTS
  MinThreadsChoices,  \* configured values of minimumPollingThreads to try
  MaxEventsChoices,   \* configured values of maximumEventsPerPollingThread
  MaxSessions,        \* bound on the size of the sessions vector
  PlatformLimit       \* MAX_SOCKETS_PER_POLLING_THREAD (63)

ASSUME MaxEventsChoices \subseteq Nat \ {0}

VARIABLES
  minimumPollingThreads,          \* fixed by the constructor
  maximumEventsPerPollingThread,  \* fixed by the constructor
  numberOfSockets,                \* sessions->size() after step 3
  windows                         \* <<[offset, count]>> of this->pollingThreads

vars == <<minimumPollingThreads, maximumEventsPerPollingThread,
          numberOfSockets, windows>>

(* The constructor fixes the configuration; VWSAEventProducer::Start then *)
(* creates minimumPollingThreads threads with offset 0 and 0 sockets.     *)
Init ==
  /\ minimumPollingThreads \in MinThreadsChoices
  /\ maximumEventsPerPollingThread \in MaxEventsChoices
  /\ numberOfSockets = 0
  /\ windows = [k \in 1..minimumPollingThreads |-> [offset |-> 0, count |-> 0]]

(* One UpdateSessions call leaving n sessions in the vector: retire the   *)
(* threads past requiredSocketGroups, re-assign the survivors, create the *)
(* missing ones.  All windows are recomputed in list order.               *)
Repartition(n) ==
  LET groups == RequiredSocketGroups(n, minimumPollingThreads,
                                     maximumEventsPerPollingThread)
  IN  /\ numberOfSockets' = n
      /\ windows' = Windows(n, groups)
      /\ UNCHANGED <<minimumPollingThreads, maximumEventsPerPollingThread>>

Next == \E n \in 0..MaxSessions : Repartition(n)

Spec == Init /\ [][Next]_vars

-----------------------------------------------------------------------------
(* Reference: the windows cover every index of the vector exactly once    *)
(* (every session is watched by exactly one polling thread), and no       *)
(* thread is given more than maximumEventsPerPollingThread sockets.       *)
(* This is what the offset/remainder arithmetic of step 6 must achieve.   *)
WindowsPartitionSessions ==
  /\ \A i \in 1..numberOfSockets :
       Cardinality({k \in DOMAIN windows :
                      windows[k].offset < i /\ i <= windows[k].offset + windows[k].count}) = 1
  /\ \A k \in DOMAIN windows :
       /\ windows[k].offset + windows[k].count <= numberOfSockets
       /\ windows[k].count <= maximumEventsPerPollingThread

(* Every UpdateSessions divides the vector size by requiredSocketGroups  *)
(* (std::div at step 4): the divisor it computes for the new vector size  *)
(* is non-zero.  With minimumPollingThreads = 0 and an empty vector (all  *)
(* sessions closed) it is zero.                                           *)
DivisorNonZero ==
  [][RequiredSocketGroups(numberOfSockets', minimumPollingThreads,
                          maximumEventsPerPollingThread) > 0]_vars

(* Each polling thread waits on its sockets plus the abort event in one   *)
(* WSAWaitForMultipleEvents call, which accepts at most 64 handles: no    *)
(* window may exceed the platform's 63 sockets per thread.                *)
WithinPlatformLimit ==
  \A k \in DOMAIN windows : windows[k].count <= PlatformLimit
=============================================================================
