----------------------------- MODULE Subscribers -----------------------------
(***************************************************************************)
(* The subscriber fan-out of VCommSessionEventProducer                     *)
(* (src/source/sockets/vcommsessioneventproducer.cpp).  Two maps, one for  *)
(* read-event and one for closed-event handlers, from handler id to a weak *)
(* handle, each guarded by its own mutex.  Raise*Event copies the live     *)
(* handles under the map's mutex, pruning the dead ones, and calls the     *)
(* handlers after releasing it, each through a fresh lock() of its handle. *)
(*                                                                         *)
(* The polling threads raise (several of them on the event-array          *)
(* platform); each handler's owner subscribes, unsubscribes, and finally   *)
(* drops its last strong reference.  A handler's HandleEvent may itself    *)
(* unsubscribe the handler, on the polling thread.  The two maps run the  *)
(* same code, so they are one function indexed by the event kind.          *)
(***************************************************************************)
EXTENDS Naturals, FiniteSets

CONSTANTS
  Handlers,     \* handler objects, identified by HandlerId()
  Raisers,      \* polling threads raising events
  None

EventKinds == {"read", "closed"}

VARIABLES
  subscribed,   \* the keys of readEventHandlers / closedEventHandlers
  alive,        \* the handler's owner still holds it (its weak handles lock)
  mutexOwner,   \* readEventHandlersMutex / closedEventHandlersMutex
  rpc,          \* where each raiser is in Raise*Event
  kind,         \* the kind of event a raiser is raising
  collected,    \* the handles a raiser copied and has not called yet
  current       \* the handler a raiser is calling, or None

vars == <<subscribed, alive, mutexOwner, rpc, kind, collected, current>>

Init ==
  /\ subscribed = [k \in EventKinds |-> {}]
  /\ alive = [h \in Handlers |-> TRUE]
  /\ mutexOwner = [k \in EventKinds |-> None]
  /\ rpc = [t \in Raisers |-> "idle"]
  /\ kind = [t \in Raisers |-> "read"]
  /\ collected = [t \in Raisers |-> {}]
  /\ current = [t \in Raisers |-> None]

-----------------------------------------------------------------------------
(* SubscribeTo*Events: under the map's mutex, add the handler unless its   *)
(* id is already a key (then return false).  Its owner holds it.           *)
Subscribe(k, h) ==
  /\ alive[h]
  /\ mutexOwner[k] = None
  /\ h \notin subscribed[k]
  /\ subscribed' = [subscribed EXCEPT ![k] = @ \cup {h}]
  /\ UNCHANGED <<alive, mutexOwner, rpc, kind, collected, current>>

(* UnsubscribeFrom*Events: under the map's mutex, erase the handler's id   *)
(* if it is a key (else return false).                                     *)
Unsubscribe(k, h) ==
  /\ alive[h]
  /\ mutexOwner[k] = None
  /\ h \in subscribed[k]
  /\ subscribed' = [subscribed EXCEPT ![k] = @ \ {h}]
  /\ UNCHANGED <<alive, mutexOwner, rpc, kind, collected, current>>

(* The owner releases its last strong reference: the weak handles expire *)
(* (a raiser in the middle of calling it keeps it alive for the call).   *)
Drop(h) ==
  /\ alive[h]
  /\ alive' = [alive EXCEPT ![h] = FALSE]
  /\ UNCHANGED <<subscribed, mutexOwner, rpc, kind, collected, current>>

-----------------------------------------------------------------------------
(* A polling thread calls RaiseReadEvent or RaiseClosedEvent. *)
RaiseCall(t, k) ==
  /\ rpc[t] = "idle"
  /\ rpc' = [rpc EXCEPT ![t] = "collect"]
  /\ kind' = [kind EXCEPT ![t] = k]
  /\ UNCHANGED <<subscribed, alive, mutexOwner, collected, current>>

(* The lock_guard of the inner block takes the map's mutex.              *)
CollectLock(t) ==
  /\ rpc[t] = "collect"
  /\ mutexOwner[kind[t]] = None
  /\ mutexOwner' = [mutexOwner EXCEPT ![kind[t]] = t]
  /\ rpc' = [rpc EXCEPT ![t] = "copy"]
  /\ UNCHANGED <<subscribed, alive, kind, collected, current>>

(* Mutant: the lock_guard's scope takes in the calls; the map's mutex    *)
(* stays held until Raise*Event returns.                                   *)
CollectKeepLock(t) ==
  LET k == kind[t] IN
  /\ rpc[t] = "copy"
  /\ collected' = [collected EXCEPT ![t] = {h \in subscribed[k] : alive[h]}]
  /\ subscribed' = [subscribed EXCEPT ![k] = {h \in @ : alive[h]}]
  /\ rpc' = [rpc EXCEPT ![t] = "call"]
  /\ UNCHANGED <<alive, mutexOwner, kind, current>>

(* The loop under the map's mutex: a handle that no longer locks is      *)
(* erased, the others are copied; the block ends and the mutex is freed.  *)
Collect(t) ==
  LET k == kind[t] IN
  /\ rpc[t] = "copy"
  /\ collected' = [collected EXCEPT ![t] = {h \in subscribed[k] : alive[h]}]
  /\ subscribed' = [subscribed EXCEPT ![k] = {h \in @ : alive[h]}]
  /\ rpc' = [rpc EXCEPT ![t] = "call"]
  /\ mutexOwner' = [mutexOwner EXCEPT ![k] = None]
  /\ UNCHANGED <<alive, kind, current>>

(* On return every lock_guard still in scope is destroyed: the mutexes   *)
(* the raiser holds are freed (none, unless the copy kept its lock).      *)
ScopeExit(t) == [k \in EventKinds |-> IF mutexOwner[k] = t THEN None ELSE mutexOwner[k]]

(* The loop after the unlock: lock() the next copied handle and, when it *)
(* still locks, call HandleEvent; the raise returns once all are done.   *)
CallNext(t) ==
  /\ rpc[t] = "call"
  /\ IF collected[t] = {}
       THEN /\ rpc' = [rpc EXCEPT ![t] = "idle"]
            /\ mutexOwner' = ScopeExit(t)
            /\ UNCHANGED <<collected, current>>
       ELSE \E h \in collected[t] :
              /\ collected' = [collected EXCEPT ![t] = @ \ {h}]
              /\ IF alive[h]
                   THEN /\ rpc' = [rpc EXCEPT ![t] = "handler"]
                        /\ current' = [current EXCEPT ![t] = h]
                   ELSE UNCHANGED <<rpc, current>>
            /\ UNCHANGED mutexOwner
  /\ UNCHANGED <<subscribed, alive, kind>>

(* Mutant: the locked handle outlives the call. *)
HandlerReturnsKeepCurrent(t) ==
  /\ rpc[t] = "handler"
  /\ rpc' = [rpc EXCEPT ![t] = "call"]
  /\ UNCHANGED <<subscribed, alive, mutexOwner, kind, collected, current>>

(* HandleEvent returns. *)
HandlerReturns(t) ==
  /\ rpc[t] = "handler"
  /\ rpc' = [rpc EXCEPT ![t] = "call"]
  /\ current' = [current EXCEPT ![t] = None]
  /\ UNCHANGED <<subscribed, alive, mutexOwner, kind, collected>>

(* HandleEvent calls Unsubscribe for its own handler on the event it is  *)
(* handling (a re-entrant call on the polling thread).                    *)
HandlerCallsUnsubscribe(t) ==
  /\ rpc[t] = "handler"
  /\ rpc' = [rpc EXCEPT ![t] = "unsub"]
  /\ UNCHANGED <<subscribed, alive, mutexOwner, kind, collected, current>>

(* That Unsubscribe takes the map's mutex (it waits while anyone holds    *)
(* it), erases the handler, and HandleEvent returns.                      *)
HandlerUnsubscribes(t) ==
  LET k == kind[t]
      h == current[t]
  IN  /\ rpc[t] = "unsub"
      /\ mutexOwner[k] = None
      /\ subscribed' = [subscribed EXCEPT ![k] = @ \ {h}]
      /\ rpc' = [rpc EXCEPT ![t] = "call"]
      /\ current' = [current EXCEPT ![t] = None]
      /\ UNCHANGED <<alive, mutexOwner, kind, collected>>

-----------------------------------------------------------------------------
RaiserStep(t) ==
  \/ CollectLock(t) \/ Collect(t) \/ CallNext(t)
  \/ HandlerReturns(t) \/ HandlerCallsUnsubscribe(t) \/ HandlerUnsubscribes(t)

Next ==
  \/ \E k \in EventKinds, h \in Handlers : Subscribe(k, h) \/ Unsubscribe(k, h)
  \/ \E h \in Handlers : Drop(h)
  \/ \E t \in Raisers : \/ \E k \in EventKinds : RaiseCall(t, k)
                        \/ RaiserStep(t)

(* A raising thread is scheduled until its Raise*Event returns, and a    *)
(* thread waiting for a map's mutex that is free infinitely often gets it *)
(* (no lock hand-off starves a waiter forever); owners, and whether      *)
(* anyone raises, are up to the environment.                               *)
Spec ==
  /\ Init /\ [][Next]_vars
  /\ \A t \in Raisers : /\ WF_vars(RaiserStep(t))
                       /\ SF_vars(CollectLock(t))
                       /\ SF_vars(HandlerUnsubscribes(t))

-----------------------------------------------------------------------------
TypeOK ==
  /\ subscribed \in [EventKinds -> SUBSET Handlers]
  /\ alive \in [Handlers -> BOOLEAN]
  /\ mutexOwner \in [EventKinds -> Raisers \cup {None}]
  /\ rpc \in [Raisers -> {"idle", "collect", "copy", "call", "handler", "unsub"}]
  /\ collected \in [Raisers -> SUBSET Handlers]
  /\ current \in [Raisers -> Handlers \cup {None}]
  /\ \A t \in Raisers : current[t] # None <=> rpc[t] \in {"handler", "unsub"}

(* Every Raise*Event returns, even when handlers unsubscribe themselves   *)
(* from inside HandleEvent and another raiser or an owner contends for    *)
(* the same map's mutex: the handlers are called after the lock_guard's  *)
(* block has ended (spec 4.G: no re-entrant deadlock).                   *)
FanOutCompletes == \A t \in Raisers : rpc[t] # "idle" ~> rpc[t] = "idle"

(* A handler is not called once its unsubscribe has returned: every call *)
(* of HandleEvent is for a handler that is subscribed to that event.      *)
NoCallAfterUnsubscribe ==
  [][\A t \in Raisers :
       rpc'[t] = "handler" /\ rpc[t] = "call"
         => current'[t] \in subscribed[kind[t]]]_vars
=============================================================================
