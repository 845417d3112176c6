-------------------------- MODULE WSAEventProducer --------------------------
(***************************************************************************)
(* VWSAEventProducer (src/_win/vwsaeventproducer.cpp): a pool of polling   *)
(* threads, each waiting with WSAWaitForMultipleEvents on the abort event  *)
(* and the socket events of its [offset, offset+count) window of the       *)
(* shared sessions vector, and the 7-step UpdateSessions protocol that     *)
(* pauses them, rewrites the vector, re-partitions it and resumes them.    *)
(*                                                                         *)
(* Actors: the polling threads (one per VPollingThreadInfo object), the    *)
(* caller of UpdateSessions (the accept path), the caller of Stop, and the *)
(* network (peers sending data and closing their sockets).                 *)
(*                                                                         *)
(* Windows event semantics kept by the model: the abort event and the      *)
(* socket events are manual-reset; a thread blocked in a wait is released  *)
(* at the moment an event it waits on is set, even if the event is reset   *)
(* before the thread runs again; WSAEnumNetworkEvents returns and clears   *)
(* the pending network events of a socket.                                 *)
(***************************************************************************)
EXTENDS Naturals, Sequences, FiniteSets, SequencesExt, PollingPartition

CONSTANTS
  Sessions,        \* VCommSessionInfo objects the accept path may create
  MaxThreadObjs,   \* bound on VPollingThreadInfo objects ever created
  MinThreads,      \* minimumPollingThreads
  MaxEvents,       \* maximumEventsPerPollingThread
  MaxUpdates,      \* bound on UpdateSessions calls
  MaxSends,        \* bound on data arrivals, over all sessions
  JoinWaitTimesOut \* TRUE: waitForAllJoinEvents may return after its timeout

ASSUME /\ MinThreads \in Nat \ {0}
       /\ MaxEvents \in Nat \ {0}
       /\ MaxThreadObjs >= MinThreads
       /\ JoinWaitTimesOut \in BOOLEAN

ThreadObjs == 1..MaxThreadObjs

READ  == "FD_READ"
CLOSE == "FD_CLOSE"

NotConnected == "NotConnected"
Connected    == "Connected"
Disconnected == "Disconnected"

VARIABLES
  (* VWSAEventProducer members *)
  started,         \* started
  cancelled,       \* cancellationSource.Cancelled()
  mutexOwner,      \* holder of startStopMutex: "none", "update" or "stop"
  waiting,         \* waitTokenSource's flag (VWaitTokenSource::Wait/Continue)
  abortSet,        \* abortIOWaitEventSet and the abort event it mirrors
  sessions,        \* *this->sessions, the shared vector
  pollingThreads,  \* this->pollingThreads, a sequence of ThreadObjs
  threadGroup,     \* threads created and not removed from threadGroup
  (* VPollingThreadInfo members, one per object *)
  groupOffset, numberOfSockets, isJoinEventSet, threadCancelled,
  (* locals of ListenAndProduceEvents, one per thread *)
  tpc,             \* program counter
  localSessions,   \* the thread's snapshot of its window
  refresh,         \* refreshSessionsList
  synchronized,    \* isNewThreadSynchronized is initialized
  released,        \* a wait of this thread was satisfied by the abort event
  readingSessions, closedSessions,  \* the batches of one pass
  (* the UpdateSessions caller and the Stop caller *)
  upc, newArg, closedArg, updates,
  spc,
  (* sessions and the network *)
  connectionState, \* VCommSessionInfo::connectionState
  accepted,        \* sessions constructed by the accept path
  networkEvents,   \* pending network events of each socket (event signalled iff non-empty)
  peerClosed, sends

producerVars == <<started, cancelled, mutexOwner, waiting, abortSet, sessions,
                  pollingThreads, threadGroup>>
infoVars     == <<groupOffset, numberOfSockets, isJoinEventSet, threadCancelled>>
threadVars   == <<tpc, localSessions, refresh, synchronized, released,
                  readingSessions, closedSessions>>
callerVars   == <<upc, newArg, closedArg, updates, spc>>
netVars      == <<connectionState, accepted, networkEvents, peerClosed, sends>>
vars == <<producerVars, infoVars, threadVars, callerVars, netVars>>

ThreadPcs == {"unborn", "top", "reading", "sync", "wait", "pausing", "paused",
              "resuming", "process", "raise", "exiting", "exited"}

(* The lambda threadCancelled of ListenAndProduceEvents.                  *)
ThreadStopped(t) == cancelled \/ threadCancelled[t]

(* Sessions of the vector, as a set.                                      *)
Registered == ToSet(sessions)

(* The threads that are polling sessions (alive and not retired).         *)
Live == {t \in ThreadObjs : tpc[t] \notin {"unborn", "exited"} /\ ~threadCancelled[t]}

(* VPollingThreadInfo objects whose thread has exited and that no list    *)
(* refers to any more: the model reuses them for new threads.             *)
Free == {t \in ThreadObjs : \/ tpc[t] = "unborn"
                            \/ /\ tpc[t] = "exited"
                               /\ t \notin threadGroup \cup ToSet(pollingThreads)}

Init ==
  (* the state right after VWSAEventProducer::Start with no session yet *)
  LET first == [i \in 1..MinThreads |-> i]
  IN
  /\ started = TRUE
  /\ cancelled = FALSE
  /\ mutexOwner = "none"
  /\ waiting = FALSE
  /\ abortSet = FALSE
  /\ sessions = <<>>
  /\ pollingThreads = first
  /\ threadGroup = ToSet(first)
  /\ groupOffset = [t \in ThreadObjs |-> 0]
  /\ numberOfSockets = [t \in ThreadObjs |-> 0]
  /\ isJoinEventSet = [t \in ThreadObjs |-> FALSE]
  /\ threadCancelled = [t \in ThreadObjs |-> FALSE]
  /\ tpc = [t \in ThreadObjs |-> IF t \in ToSet(first) THEN "top" ELSE "unborn"]
  /\ localSessions = [t \in ThreadObjs |-> <<>>]
  /\ refresh = [t \in ThreadObjs |-> TRUE]
  /\ synchronized = [t \in ThreadObjs |-> FALSE]
  /\ released = [t \in ThreadObjs |-> FALSE]
  /\ readingSessions = [t \in ThreadObjs |-> {}]
  /\ closedSessions = [t \in ThreadObjs |-> {}]
  /\ upc = "idle" /\ newArg = <<>> /\ closedArg = {} /\ updates = 0
  /\ spc = "idle"
  /\ connectionState = [s \in Sessions |-> NotConnected]
  /\ accepted = {}
  /\ networkEvents = [s \in Sessions |-> {}]
  /\ peerClosed = [s \in Sessions |-> FALSE]
  /\ sends = 0

-----------------------------------------------------------------------------
(***************************************************************************)
(* Polling thread t: VWSAEventProducer::ListenAndProduceEvents.            *)
(***************************************************************************)
Goto(t, pc) == tpc' = [tpc EXCEPT ![t] = pc]

(* VPollingThreadInfo::SetPollingThreadJoinEvent (its CAS makes a second  *)
(* set a no-op).                                                          *)
SetJoin(t) == isJoinEventSet' = [isJoinEventSet EXCEPT ![t] = TRUE]

(* Head of "while (!threadCancelled())": start re-reading the window if   *)
(* refreshSessionsList is set, else synchronize once, else wait.          *)
LoopHead(t) ==
  /\ tpc[t] = "top"
  /\ IF ThreadStopped(t) THEN Goto(t, "exiting")
     ELSE IF refresh[t] THEN Goto(t, "reading")
     ELSE IF ~synchronized[t] THEN Goto(t, "sync")
     ELSE Goto(t, "wait")
  /\ refresh' = [refresh EXCEPT ![t] = FALSE]
  /\ localSessions' = IF refresh[t] THEN [localSessions EXCEPT ![t] = <<>>]
                      ELSE localSessions
  /\ UNCHANGED <<producerVars, infoVars, synchronized, released, readingSessions,
                 closedSessions, callerVars, netVars>>

(* Copy sessions[offset .. offset+count) of the shared vector into the    *)
(* thread's snapshot.  The read spans "reading" so that a concurrent      *)
(* write by UpdateSessions is visible as a state.  Iterators past the end *)
(* of a shrunk vector are undefined behaviour; the model keeps the part   *)
(* that exists.                                                           *)
ReadWindow(t) ==
  LET lo == groupOffset[t] + 1
      hi == groupOffset[t] + numberOfSockets[t]
      window == [i \in 1..(IF hi <= Len(sessions) THEN hi ELSE Len(sessions)) - lo + 1
                   |-> sessions[lo + i - 1]]
  IN
  /\ tpc[t] = "reading"
  /\ localSessions' = [localSessions EXCEPT ![t] = IF lo <= Len(sessions) THEN window ELSE <<>>]
  /\ Goto(t, IF synchronized[t] THEN "wait" ELSE "sync")
  /\ UNCHANGED <<producerVars, infoVars, refresh, synchronized, released,
                 readingSessions, closedSessions, callerVars, netVars>>

(* First run: threadWaitToken.WaitUntilContinuation, then set the join    *)
(* event to say "synchronized".                                           *)
Synchronize(t) ==
  /\ tpc[t] = "sync"
  /\ ~waiting
  /\ SetJoin(t)
  /\ synchronized' = [synchronized EXCEPT ![t] = TRUE]
  /\ Goto(t, "wait")
  /\ UNCHANGED <<producerVars, groupOffset, numberOfSockets, threadCancelled,
                 localSessions, refresh, released, readingSessions, closedSessions,
                 callerVars, netVars>>

(* A snapshot session whose socket event is signalled.                    *)
Signalled(t) == {s \in ToSet(localSessions[t]) : networkEvents[s] # {}}

(* WSAWaitForMultipleEvents returns: index 0 (the abort event, set now or *)
(* set while the thread was blocked), a socket index, or the timeout.     *)
(* After any return a cancelled thread leaves the loop.                   *)
WaitReturn(t) ==
  /\ tpc[t] = "wait"
  /\ \/ /\ ThreadStopped(t)
        /\ Goto(t, "exiting")
     \/ /\ ~ThreadStopped(t)
        /\ released[t] \/ abortSet
        /\ Goto(t, "pausing")
     \/ /\ ~ThreadStopped(t)
        /\ ~released[t] /\ ~abortSet
        /\ Signalled(t) # {}
        /\ Goto(t, "process")
  /\ released' = [released EXCEPT ![t] = FALSE]
  /\ UNCHANGED <<producerVars, infoVars, localSessions, refresh, synchronized,
                 readingSessions, closedSessions, callerVars, netVars>>

(* Pause path: set the join event ("paused"), block on the wait token,    *)
(* set the join event again ("resumed") and refresh the snapshot.         *)
Pause(t) ==
  /\ tpc[t] = "pausing"
  /\ SetJoin(t)
  /\ Goto(t, "paused")
  /\ UNCHANGED <<producerVars, groupOffset, numberOfSockets, threadCancelled,
                 localSessions, refresh, synchronized, released, readingSessions,
                 closedSessions, callerVars, netVars>>

WaitUntilContinuation(t) ==
  /\ tpc[t] = "paused"
  /\ ~waiting
  /\ Goto(t, "resuming")
  /\ UNCHANGED <<producerVars, infoVars, localSessions, refresh, synchronized,
                 released, readingSessions, closedSessions, callerVars, netVars>>

NotifyContinuing(t) ==
  /\ tpc[t] = "resuming"
  /\ SetJoin(t)
  /\ refresh' = [refresh EXCEPT ![t] = TRUE]
  /\ Goto(t, "top")
  /\ UNCHANGED <<producerVars, groupOffset, numberOfSockets, threadCancelled,
                 localSessions, synchronized, released, readingSessions,
                 closedSessions, callerVars, netVars>>

(* One pass of the event-processing loop over the snapshot: a session     *)
(* that is no longer Connected is skipped; otherwise its event is reset   *)
(* and WSAEnumNetworkEvents returns and clears its pending events; FD_READ *)
(* puts it in the reading batch, and only otherwise FD_CLOSE marks it      *)
(* Disconnected and puts it in the closed batch.                          *)
ProcessEvents(t) ==
  LET polled == {s \in ToSet(localSessions[t]) : connectionState[s] = Connected}
      reads  == {s \in polled : READ \in networkEvents[s]}
      closes == {s \in polled : READ \notin networkEvents[s] /\ CLOSE \in networkEvents[s]}
  IN
  /\ tpc[t] = "process"
  /\ networkEvents' = [s \in Sessions |-> IF s \in polled THEN {} ELSE networkEvents[s]]
  /\ connectionState' = [s \in Sessions |-> IF s \in closes THEN Disconnected
                                                         ELSE connectionState[s]]
  /\ readingSessions' = [readingSessions EXCEPT ![t] = reads]
  /\ closedSessions' = [closedSessions EXCEPT ![t] = closes]
  /\ Goto(t, "raise")
  /\ UNCHANGED <<producerVars, infoVars, localSessions, refresh, synchronized,
                 released, callerVars, accepted, peerClosed, sends>>

(* RaiseReadEvent, then RaiseClosedEvent, for the non-empty batches; the  *)
(* fan-out to the subscribers is the Subscribers module.                  *)
RaiseEvents(t) ==
  /\ tpc[t] = "raise"
  /\ readingSessions' = [readingSessions EXCEPT ![t] = {}]
  /\ closedSessions' = [closedSessions EXCEPT ![t] = {}]
  /\ Goto(t, "top")
  /\ UNCHANGED <<producerVars, infoVars, localSessions, refresh, synchronized,
                 released, callerVars, netVars>>

(* After the loop: "Notify that we have exited" sets the join event.      *)
ExitThread(t) ==
  /\ tpc[t] = "exiting"
  /\ SetJoin(t)
  /\ Goto(t, "exited")
  /\ UNCHANGED <<producerVars, groupOffset, numberOfSockets, threadCancelled,
                 localSessions, refresh, synchronized, released, readingSessions,
                 closedSessions, callerVars, netVars>>

PollingThread(t) ==
  \/ LoopHead(t) \/ ReadWindow(t) \/ Synchronize(t) \/ WaitReturn(t)
  \/ Pause(t) \/ WaitUntilContinuation(t) \/ NotifyContinuing(t)
  \/ ProcessEvents(t) \/ RaiseEvents(t) \/ ExitThread(t)

-----------------------------------------------------------------------------
(***************************************************************************)
(* The caller of VWSAEventProducer::UpdateSessions.                        *)
(***************************************************************************)
UpdateAt(pc) == upc' = pc

(* All join events of the listed threads are set.                         *)
AllJoined == \A i \in 1..Len(pollingThreads) : isJoinEventSet[pollingThreads[i]]

(* Fault variant of JoinWaitDone: "retry forever" until all are set.     *)
JoinWaitDoneNoTimeout == AllJoined

(* waitForAllJoinEvents returns: at once for no thread, when all join      *)
(* events are set, or (the unconditional break) after one timeout.        *)
JoinWaitDone == AllJoined \/ JoinWaitTimesOut

(* The accept path constructs Connected sessions and calls UpdateSessions *)
(* with them and with a set of sessions it saw close.                     *)
UpdateCall ==
  /\ upc = "idle"
  /\ updates < MaxUpdates
  /\ \E new \in SUBSET (Sessions \ accepted), closed \in SUBSET accepted :
       /\ newArg' = SetToSeq(new)
       /\ closedArg' = closed
       /\ accepted' = accepted \cup new
       /\ connectionState' = [s \in Sessions |->
                               IF s \in new THEN Connected ELSE connectionState[s]]
  /\ updates' = updates + 1
  /\ UpdateAt("check")
  /\ UNCHANGED <<producerVars, infoVars, threadVars, spc, networkEvents, peerClosed,
                 sends>>

(* Not started: throw; cancelled: return; both before taking the lock.    *)
UpdateCheck ==
  /\ upc = "check"
  /\ UpdateAt(IF ~started \/ cancelled THEN "idle" ELSE "lock")
  /\ UNCHANGED <<producerVars, infoVars, threadVars, newArg, closedArg, updates,
                 spc, netVars>>

(* Lock startStopMutex; step 1: waitTokenSource.Wait(), then               *)
(* SetAbortIOWaitEvent, which releases every thread blocked in its wait.  *)
UpdateStep1 ==
  /\ upc = "lock"
  /\ mutexOwner = "none"
  /\ mutexOwner' = "update"
  /\ waiting' = TRUE
  /\ abortSet' = TRUE
  /\ released' = [t \in ThreadObjs |-> released[t] \/ tpc[t] = "wait"]
  /\ UpdateAt("join1")
  /\ UNCHANGED <<started, cancelled, sessions, pollingThreads, threadGroup, infoVars,
                 tpc, localSessions, refresh, synchronized, readingSessions,
                 closedSessions, newArg, closedArg, updates, spc, netVars>>

(* Step 2: wait for the join events of all polling threads.               *)
UpdateStep2 ==
  /\ upc = "join1"
  /\ JoinWaitDone
  /\ UpdateAt("mutate")
  /\ UNCHANGED <<producerVars, infoVars, threadVars, newArg, closedArg, updates,
                 spc, netVars>>

(* Step 3: erase the sessions that are not Connected or were passed as    *)
(* closed, then append the new sessions.                                  *)
UpdateStep3 ==
  LET Kept(s) == connectionState[s] = Connected /\ s \notin closedArg
  IN
  /\ upc = "mutate"
  /\ sessions' = SelectSeq(sessions, Kept) \o newArg
  /\ UpdateAt("partition")
  /\ UNCHANGED <<started, cancelled, mutexOwner, waiting, abortSet, pollingThreads,
                 threadGroup, infoVars, threadVars, newArg, closedArg, updates, spc,
                 netVars>>

(* Fault variant of AssignWindows: the first loop of step 6 is skipped,  *)
(* so kept threads keep their old windows.                                *)
AssignWindowsNewOnly(kept, fresh, w) ==
  LET Pos(t) == CHOOSE k \in 1..Len(fresh) : fresh[k] = t
  IN
  /\ groupOffset' = [t \in ThreadObjs |->
        IF t \in ToSet(fresh) THEN w[Len(kept) + Pos(t)].offset ELSE groupOffset[t]]
  /\ numberOfSockets' = [t \in ThreadObjs |->
        IF t \in ToSet(fresh) THEN w[Len(kept) + Pos(t)].count ELSE numberOfSockets[t]]

(* GroupOffset/NumberOfSockets of the kept threads (first loop of step 6) *)
(* and of the created ones (second loop), the k-th of the new list taking *)
(* the k-th window.                                                       *)
AssignWindows(kept, fresh, w) ==
  LET newList == kept \o fresh
      Pos(t)  == CHOOSE k \in 1..Len(newList) : newList[k] = t
  IN
  /\ groupOffset' = [t \in ThreadObjs |->
        IF t \in ToSet(newList) THEN w[Pos(t)].offset ELSE groupOffset[t]]
  /\ numberOfSockets' = [t \in ThreadObjs |->
        IF t \in ToSet(newList) THEN w[Pos(t)].count ELSE numberOfSockets[t]]

(* Steps 4-6: compute the groups, cancel and remove the threads past them,*)
(* give the kept threads their windows and reset their join events, and   *)
(* create threads (join event unset, refresh pending) for the rest.       *)
UpdateSteps456 ==
  LET n       == Len(sessions)
      groups  == RequiredSocketGroups(n, MinThreads, MaxEvents)
      keepN   == IF groups < Len(pollingThreads) THEN groups ELSE Len(pollingThreads)
      kept    == SubSeq(pollingThreads, 1, keepN)
      retired == ToSet(pollingThreads) \ ToSet(kept)
      fresh   == SubSeq(SetToSortSeq(Free, <), 1, groups - keepN)
      newList == kept \o fresh
      created == ToSet(fresh)
      w       == Windows(n, groups)
  IN
  /\ upc = "partition"
  /\ Cardinality(Free) >= groups - keepN
  /\ pollingThreads' = newList
  /\ threadGroup' = (threadGroup \ retired) \cup created
  /\ AssignWindows(kept, fresh, w)
  /\ isJoinEventSet' = [t \in ThreadObjs |->
        IF t \in ToSet(newList) THEN FALSE ELSE isJoinEventSet[t]]
  /\ threadCancelled' = [t \in ThreadObjs |->
        (threadCancelled[t] \/ t \in retired) /\ t \notin created]
  /\ tpc' = [t \in ThreadObjs |-> IF t \in created THEN "top" ELSE tpc[t]]
  /\ localSessions' = [t \in ThreadObjs |-> IF t \in created THEN <<>> ELSE localSessions[t]]
  /\ refresh' = [t \in ThreadObjs |-> refresh[t] \/ t \in created]
  /\ synchronized' = [t \in ThreadObjs |-> synchronized[t] /\ t \notin created]
  /\ released' = [t \in ThreadObjs |-> released[t] /\ t \notin created]
  /\ UNCHANGED <<readingSessions, closedSessions>>
  /\ UpdateAt("resume")
  /\ UNCHANGED <<started, cancelled, mutexOwner, waiting, abortSet, sessions,
                 newArg, closedArg, updates, spc, netVars>>

(* Fault variant of UpdateStep7: waitTokenSource.Continue() is omitted.   *)
UpdateStep7NoContinue ==
  /\ upc = "resume"
  /\ abortSet' = FALSE
  /\ UpdateAt("join2")
  /\ UNCHANGED <<started, cancelled, mutexOwner, waiting, sessions, pollingThreads,
                 threadGroup, infoVars, threadVars, newArg, closedArg, updates, spc,
                 netVars>>

(* Step 7: ResetAbortIOWaitEvent, then waitTokenSource.Continue().        *)
UpdateStep7 ==
  /\ upc = "resume"
  /\ abortSet' = FALSE
  /\ waiting' = FALSE
  /\ UpdateAt("join2")
  /\ UNCHANGED <<started, cancelled, mutexOwner, sessions, pollingThreads, threadGroup,
                 infoVars, threadVars, newArg, closedArg, updates, spc, netVars>>

(* Step 7, continued: wait for the join events again, reset them all, and *)
(* release the lock on return.                                            *)
UpdateStep7Join ==
  /\ upc = "join2"
  /\ JoinWaitDone
  /\ isJoinEventSet' = [t \in ThreadObjs |->
        IF t \in ToSet(pollingThreads) THEN FALSE ELSE isJoinEventSet[t]]
  /\ mutexOwner' = "none"
  /\ UpdateAt("idle")
  /\ UNCHANGED <<started, cancelled, waiting, abortSet, sessions, pollingThreads,
                 threadGroup, groupOffset, numberOfSockets, threadCancelled, threadVars,
                 newArg, closedArg, updates, spc, netVars>>

-----------------------------------------------------------------------------
(***************************************************************************)
(* The caller of VWSAEventProducer::Stop.                                  *)
(***************************************************************************)

(* The started/cancelled check, then started = false and Cancel(), all    *)
(* before the lock is taken.                                              *)
StopCall ==
  /\ spc = "idle"
  /\ started /\ ~cancelled
  /\ started' = FALSE
  /\ cancelled' = TRUE
  /\ spc' = "lock"
  /\ UNCHANGED <<mutexOwner, waiting, abortSet, sessions, pollingThreads, threadGroup,
                 infoVars, threadVars, upc, newArg, closedArg, updates, netVars>>

(* Under the lock: cancel every listed thread, then SetAbortIOWaitEvent.  *)
StopCancel ==
  /\ spc = "lock"
  /\ mutexOwner = "none"
  /\ mutexOwner' = "stop"
  /\ threadCancelled' = [t \in ThreadObjs |-> threadCancelled[t] \/ t \in ToSet(pollingThreads)]
  /\ abortSet' = TRUE
  /\ released' = [t \in ThreadObjs |-> released[t] \/ tpc[t] = "wait"]
  /\ spc' = "join"
  /\ UNCHANGED <<started, cancelled, waiting, sessions, pollingThreads, threadGroup,
                 groupOffset, numberOfSockets, isJoinEventSet, tpc, localSessions,
                 refresh, synchronized, readingSessions, closedSessions, upc, newArg,
                 closedArg, updates, netVars>>

(* threadGroup.join_all(), then clear pollingThreads and the sessions     *)
(* vector, and release the lock on return.                                *)
StopJoin ==
  /\ spc = "join"
  /\ \A t \in threadGroup : tpc[t] = "exited"
  /\ pollingThreads' = <<>>
  /\ sessions' = <<>>
  /\ mutexOwner' = "none"
  /\ spc' = "done"
  /\ UNCHANGED <<started, cancelled, waiting, abortSet, threadGroup, infoVars,
                 threadVars, upc, newArg, closedArg, updates, netVars>>

-----------------------------------------------------------------------------
(***************************************************************************)
(* The network: the peer of an accepted session sends data (FD_READ) or    *)
(* closes (FD_CLOSE); either signals the session's socket event.           *)
(***************************************************************************)
PeerSend(s) ==
  /\ s \in accepted
  /\ ~peerClosed[s]
  /\ sends < MaxSends
  /\ networkEvents' = [networkEvents EXCEPT ![s] = @ \cup {READ}]
  /\ sends' = sends + 1
  /\ UNCHANGED <<producerVars, infoVars, threadVars, callerVars, connectionState,
                 accepted, peerClosed>>

PeerClose(s) ==
  /\ s \in accepted
  /\ ~peerClosed[s]
  /\ networkEvents' = [networkEvents EXCEPT ![s] = @ \cup {CLOSE}]
  /\ peerClosed' = [peerClosed EXCEPT ![s] = TRUE]
  /\ UNCHANGED <<producerVars, infoVars, threadVars, callerVars, connectionState,
                 accepted, sends>>

-----------------------------------------------------------------------------
Coordinator ==
  \/ UpdateCheck \/ UpdateStep1 \/ UpdateStep2 \/ UpdateStep3 \/ UpdateSteps456
  \/ UpdateStep7 \/ UpdateStep7Join

Stopper == StopCancel \/ StopJoin

Environment == UpdateCall \/ StopCall \/ \E s \in Sessions : PeerSend(s) \/ PeerClose(s)

Next ==
  \/ \E t \in ThreadObjs : PollingThread(t)
  \/ Coordinator
  \/ Stopper
  \/ Environment

(* Each thread runs, and the two callers, once called, run to the end of  *)
(* their method: weak fairness per thread and per caller.  Whether and    *)
(* when UpdateSessions or Stop is called, and what peers do, is not       *)
(* assumed fair.                                                          *)
Fairness ==
  /\ \A t \in ThreadObjs : WF_vars(PollingThread(t))
  /\ WF_vars(Coordinator)
  /\ WF_vars(Stopper)

Spec == Init /\ [][Next]_vars /\ Fairness

-----------------------------------------------------------------------------
(***************************************************************************)
(* Properties.                                                             *)
(***************************************************************************)
TypeOK ==
  /\ started \in BOOLEAN /\ cancelled \in BOOLEAN /\ waiting \in BOOLEAN
  /\ abortSet \in BOOLEAN
  /\ mutexOwner \in {"none", "update", "stop"}
  /\ sessions \in Seq(Sessions)
  /\ pollingThreads \in Seq(ThreadObjs) /\ threadGroup \subseteq ThreadObjs
  /\ groupOffset \in [ThreadObjs -> 0..Cardinality(Sessions)]
  /\ numberOfSockets \in [ThreadObjs -> 0..MaxEvents]
  /\ isJoinEventSet \in [ThreadObjs -> BOOLEAN]
  /\ threadCancelled \in [ThreadObjs -> BOOLEAN]
  /\ tpc \in [ThreadObjs -> ThreadPcs]
  /\ localSessions \in [ThreadObjs -> Seq(Sessions)]
  /\ refresh \in [ThreadObjs -> BOOLEAN] /\ synchronized \in [ThreadObjs -> BOOLEAN]
  /\ released \in [ThreadObjs -> BOOLEAN]
  /\ readingSessions \in [ThreadObjs -> SUBSET Sessions]
  /\ closedSessions \in [ThreadObjs -> SUBSET Sessions]
  /\ upc \in {"idle", "check", "lock", "join1", "mutate", "partition", "resume", "join2"}
  /\ spc \in {"idle", "lock", "join", "done"}
  /\ closedArg \subseteq Sessions /\ updates \in 0..MaxUpdates
  /\ connectionState \in [Sessions -> {NotConnected, Connected, Disconnected}]
  /\ accepted \subseteq Sessions
  /\ networkEvents \in [Sessions -> SUBSET {READ, CLOSE}]
  /\ peerClosed \in [Sessions -> BOOLEAN] /\ sends \in 0..MaxSends

(* The listed threads whose [offset, offset+count) window holds index i.  *)
Holders(i) == {k \in 1..Len(pollingThreads) :
                 /\ groupOffset[pollingThreads[k]] < i
                 /\ i <= groupOffset[pollingThreads[k]] + numberOfSockets[pollingThreads[k]]}

(* Whenever no UpdateSessions or Stop holds the lock, the windows of the  *)
(* listed polling threads cut the sessions vector into disjoint pieces    *)
(* that cover it, each within the vector and within the per-thread limit: *)
(* steps 4-6 of UpdateSessions keep and create threads consistently.      *)
PartitionSound ==
  (mutexOwner = "none" /\ ~cancelled) =>
    /\ \A i \in 1..Len(sessions) : Cardinality(Holders(i)) = 1
    /\ \A k \in 1..Len(pollingThreads) :
         /\ groupOffset[pollingThreads[k]] + numberOfSockets[pollingThreads[k]] <= Len(sessions)
         /\ numberOfSockets[pollingThreads[k]] <= MaxEvents

(* Spec 7 and the protocol invariant of section 4.F2: while UpdateSessions*)
(* rewrites the sessions vector and the windows (after step 2, up to the  *)
(* end of step 6), no polling thread of the list is reading the vector or *)
(* enumerating network events.                                            *)
RegistryNotObservedDuringUpdate ==
  upc \in {"mutate", "partition"} =>
    \A t \in ToSet(pollingThreads) : tpc[t] \notin {"reading", "process"}

(* When nothing is in flight (no caller inside UpdateSessions or Stop and *)
(* every live polling thread blocked in its wait), every Connected session *)
(* of the vector is in the snapshot of some live polling thread, so its   *)
(* socket events are being waited for.                                     *)
MonitoredWhenQuiescent ==
  (upc = "idle" /\ spc = "idle" /\ \A t \in Live : tpc[t] = "wait" /\ ~released[t]) =>
    \A s \in Registered :
      connectionState[s] = Connected => \E t \in Live : s \in ToSet(localSessions[t])

(* Spec S2 and invariant 2: a step that consumes a pending FD_CLOSE of a  *)
(* session (WSAEnumNetworkEvents in ListenAndProduceEvents) marks the     *)
(* session Disconnected and puts it in a closed batch.                    *)
ClosePendingIsReported ==
  [][\A s \in Sessions :
       (CLOSE \in networkEvents[s] /\ CLOSE \notin networkEvents'[s]) =>
         /\ connectionState'[s] = Disconnected
         /\ \E t \in ThreadObjs : s \in closedSessions'[t]]_vars

(* Spec section 4.F1/F2 "stop: join the threads, clear the registry" and *)
(* S4: once Stop has returned and no UpdateSessions is in flight, the     *)
(* producer holds no session and no polling thread.                       *)
StopLeavesProducerEmpty ==
  (spc = "done" /\ upc = "idle") => sessions = <<>> /\ pollingThreads = <<>>

(* Every UpdateSessions call and every Stop call returns (spec 8: Stop's  *)
(* join_all sees every polling thread of the group exit; the join waits of *)
(* UpdateSessions steps 2 and 7 never block the coordinator for good).     *)
(* Calls are bounded (MaxUpdates, one Stop), so this is the same as: the   *)
(* two callers are infinitely often both outside the producer's methods;   *)
(* a call that blocks keeps its caller inside for ever.                    *)
CallsReturn == []<>(upc = "idle" /\ spc \in {"idle", "done"})
=============================================================================
