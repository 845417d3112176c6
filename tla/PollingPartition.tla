-------------------------- MODULE PollingPartition --------------------------
(***************************************************************************)
(* Steps 4-6 of VWSAEventProducer::UpdateSessions: how the sessions vector *)
(* is cut into [offset, offset+count) windows, one per polling thread.     *)
(*                                                                         *)
(* The operators are used by WSAEventProducer; MCPollingPartition checks   *)
(* them against a reference definition of a partition.                    *)
(***************************************************************************)
EXTENDS Naturals

(* std::div(n, d) followed by "quot + (rem > 0 ? 1 : 0)", floored by the  *)
(* configured minimum number of polling threads.                         *)
RequiredSocketGroups(n, minThreads, maxEvents) ==
  LET groups == n \div maxEvents + (IF n % maxEvents > 0 THEN 1 ELSE 0)
  IN  IF groups < minThreads THEN minThreads ELSE groups

(* Fault variant of ThreadSockets: "remainder-- >= 0" (one extra socket). *)
ThreadSocketsNonStrict(n, groups, k) ==
  n \div groups + (IF k <= (n % groups) + 1 THEN 1 ELSE 0)

(* Fault variant of ThreadSockets: "--remainder > 0" (pre-decrement).    *)
ThreadSocketsPreDecrement(n, groups, k) ==
  n \div groups + (IF k < n % groups THEN 1 ELSE 0)

(* "result.quot + (remainder-- > 0 ? 1 : 0)" for the k-th thread of the   *)
(* new list: the first (n mod groups) threads take one extra socket.      *)
ThreadSockets(n, groups, k) ==
  n \div groups + (IF k <= n % groups THEN 1 ELSE 0)

(* "offset += threadSockets": the offset of the k-th thread accumulates   *)
(* the sizes of the threads before it.                                    *)
RECURSIVE GroupOffset(_, _, _)
GroupOffset(n, groups, k) ==
  IF k = 1 THEN 0
  ELSE GroupOffset(n, groups, k - 1) + ThreadSockets(n, groups, k - 1)

(* The windows of all threads after the update, in pollingThreads order.  *)
Windows(n, groups) ==
  [k \in 1..groups |-> [offset |-> GroupOffset(n, groups, k),
                        count  |-> ThreadSockets(n, groups, k)]]

=============================================================================
