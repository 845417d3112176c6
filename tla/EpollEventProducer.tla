-------------------------- MODULE EpollEventProducer --------------------------
(***************************************************************************)
(* VEventProducer (src/source/sockets/_unix/veventproducer.cpp): one      *)
(* polling thread reads an epoll instance in which every session's socket *)
(* is registered EPOLLIN | EPOLLET | EPOLLONESHOT | EPOLLRDHUP, looks      *)
(* each reported fd up in a std::map from fd to session WITHOUT taking    *)
(* startStopMutex, and raises a read batch and a closed batch per pass.   *)
(* UpdateSessions erases and emplaces map entries and adds sockets to     *)
(* epoll under startStopMutex; the consumer of a read batch re-arms the   *)
(* session with ReArmSession once it has read.                            *)
(*                                                                         *)
(* The environment is the accept path (constructs a Connected             *)
(* VCommSessionInfo for an accepted socket, later closes the socket and   *)
(* passes the session as closed), the peers (send, close), and the        *)
(* consumers of the read batches.  File descriptor numbers are reused:    *)
(* FdOf maps sessions to fd numbers: each its own, or with FdReuse all   *)
(* the same one, but never while both sockets are open.  epoll_ctl resolves an fd number to *)
(* the socket that currently owns it; a registration belongs to a socket  *)
(* and disappears when the socket is closed.                              *)
(***************************************************************************)
EXTENDS Naturals, FiniteSets

CONSTANTS
  Sessions,     \* VCommSessionInfo objects the accept path can construct
  Fds,          \* file descriptor numbers
  FdReuse,      \* do the sessions' sockets reuse one fd number?
  MaxUpdates,   \* bound on UpdateSessions calls
  MaxSends,     \* bound on data arrivals, over all sessions
  None

ASSUME FdReuse \in BOOLEAN

(* The fd number of each session's socket. *)
FdOf ==
  IF FdReuse THEN [s \in Sessions |-> CHOOSE f \in Fds : TRUE]
  ELSE CHOOSE m \in [Sessions -> Fds] :
         \A s, t \in Sessions : s # t => m[s] # m[t]

VARIABLES
  started, cancelled,   \* AtomicBoolean started, cancellationSource
  mutexOwner,           \* startStopMutex
  sessions,             \* *this->sessions: fd -> session, or None
  reg,                  \* each socket's epoll registration
  fdOwner,              \* the open socket holding each fd number
  life,                 \* "new" | "open" | "closed": the session's socket
  passed,               \* "no" | "new" | "closed": what the accept path
                        \*   has passed to UpdateSessions for the session
  connectionState,      \* VCommSessionInfo::connectionState
  rx, hup,              \* unread data / peer closed, per socket
  tpc,                  \* the polling thread's place in its loop
  events,               \* the events one epoll_wait returned, unprocessed
  readingSessions, closedSessions,   \* the batches of one pass
  upc, newArg, closedArg,            \* the UpdateSessions caller
  spc,                  \* the Stop caller
  toRearm,              \* sessions a consumer got in a read batch and has
                        \*   not yet re-armed
  readsSinceRearm,      \* read batches with the session since its last
                        \*   (re-)arming
  closedCount,          \* closed batches with the session
  updates, sends        \* bounds

vars == <<started, cancelled, mutexOwner, sessions, reg, fdOwner, life,
          passed, connectionState, rx, hup, tpc, events, readingSessions,
          closedSessions, upc, newArg, closedArg, spc, toRearm,
          readsSinceRearm, closedCount, updates, sends>>

Kinds == SUBSET {"in", "rdhup"}
Event == [fd : Fds, kinds : Kinds]

(* The constructor: not started, an empty map, no thread yet. *)
Init ==
  /\ started = FALSE
  /\ cancelled = FALSE
  /\ mutexOwner = None
  /\ sessions = [f \in Fds |-> None]
  /\ reg = [s \in Sessions |-> "none"]
  /\ fdOwner = [f \in Fds |-> None]
  /\ life = [s \in Sessions |-> "new"]
  /\ passed = [s \in Sessions |-> "no"]
  /\ connectionState = [s \in Sessions |-> "NotConnected"]
  /\ rx = [s \in Sessions |-> FALSE]
  /\ hup = [s \in Sessions |-> FALSE]
  /\ tpc = "none"
  /\ events = {}
  /\ readingSessions = {}
  /\ closedSessions = {}
  /\ upc = "idle"
  /\ newArg = {}
  /\ closedArg = {}
  /\ spc = "idle"
  /\ toRearm = {}
  /\ readsSinceRearm = [s \in Sessions |-> 0]
  /\ closedCount = [s \in Sessions |-> 0]
  /\ updates = 0
  /\ sends = 0

-----------------------------------------------------------------------------
(* epoll_ctl on an fd number acts on the registration of the socket that  *)
(* holds the number now.  MOD (and DEL) fail (ENOENT) on an unregistered  *)
(* socket, ADD (EEXIST) on a registered one, and every op fails          *)
(* (EBADF) on a number no open socket holds; a failure is only logged.   *)
(* Mutant: EPOLL_CTL_ADD where MOD is meant; it fails on a registered    *)
(* socket.                                                                 *)
EpollCtlModAsAdd(f) ==
  IF fdOwner[f] # None /\ reg[fdOwner[f]] = "none"
    THEN reg' = [reg EXCEPT ![fdOwner[f]] = "armed"]
    ELSE UNCHANGED reg

EpollCtlMod(f) ==
  IF fdOwner[f] # None /\ reg[fdOwner[f]] # "none"
    THEN reg' = [reg EXCEPT ![fdOwner[f]] = "armed"]
    ELSE UNCHANGED reg

(* Mutant: EPOLL_CTL_MOD where DEL is meant; the socket is re-armed. *)
EpollCtlDelAsMod(f) == EpollCtlMod(f)

EpollCtlDel(f) ==
  IF fdOwner[f] # None THEN reg' = [reg EXCEPT ![fdOwner[f]] = "none"]
                       ELSE UNCHANGED reg

(* Mutant: a mask without EPOLLONESHOT; reporting leaves sockets armed. *)
OneShotDisarmNone(R) == UNCHANGED reg

(* EPOLLONESHOT: epoll disables every socket it reports. *)
OneShotDisarm(R) ==
  reg' = [s \in Sessions |-> IF s \in R THEN "disarmed" ELSE reg[s]]

(* Mutant: inSessions->operator[](fd) in place of at(fd): a missing fd  *)
(* number yields a null session instead of an exception.                  *)
LookupThrowsIndexOperator(f) == FALSE

(* inSessions->at(fd) throws std::out_of_range for an fd number the map   *)
(* does not hold.                                                          *)
LookupThrows(f) == sessions[f] = None

(* The sockets epoll_wait can report: armed, and readable or hung up. *)
Ready == {s \in Sessions : reg[s] = "armed" /\ (rx[s] \/ hup[s])}

(* The event epoll reports for a socket: EPOLLIN with unread data, and    *)
(* EPOLLRDHUP once the peer closed; data.fd is the fd number.             *)
EventOf(s) ==
  [fd |-> FdOf[s],
   kinds |-> {k \in {"in", "rdhup"} : IF k = "in" THEN rx[s] ELSE hup[s]}]

(* VCommSessionInfo::SetAsDisconnected: CAS Connected -> Disconnected. *)
SetAsDisconnected(s) ==
  IF connectionState[s] = "Connected"
    THEN connectionState' = [connectionState EXCEPT ![s] = "Disconnected"]
    ELSE UNCHANGED connectionState

-----------------------------------------------------------------------------
(* Start, Stop and UpdateSessions *)

(* Start: under startStopMutex, a producer neither started nor cancelled  *)
(* creates the epoll instance and the polling thread.                     *)
Start ==
  /\ mutexOwner = None
  /\ ~started /\ ~cancelled
  /\ started' = TRUE
  /\ tpc' = "top"
  /\ UNCHANGED <<cancelled, mutexOwner, sessions, reg, fdOwner, life, passed,
                 connectionState, rx, hup, events, readingSessions,
                 closedSessions, upc, newArg, closedArg, spc, toRearm,
                 readsSinceRearm, closedCount, updates, sends>>

(* Stop: the check, started = false and Cancel(), all outside the lock. *)
StopCall ==
  /\ spc = "idle"
  /\ started /\ ~cancelled
  /\ started' = FALSE
  /\ cancelled' = TRUE
  /\ spc' = "lock"
  /\ UNCHANGED <<mutexOwner, sessions, reg, fdOwner, life, passed,
                 connectionState, rx, hup, tpc, events, readingSessions,
                 closedSessions, upc, newArg, closedArg, toRearm,
                 readsSinceRearm, closedCount, updates, sends>>

StopLock ==
  /\ spc = "lock"
  /\ mutexOwner = None
  /\ mutexOwner' = "stop"
  /\ spc' = "join"
  /\ UNCHANGED <<started, cancelled, sessions, reg, fdOwner, life, passed,
                 connectionState, rx, hup, tpc, events, readingSessions,
                 closedSessions, upc, newArg, closedArg, toRearm,
                 readsSinceRearm, closedCount, updates, sends>>

(* join_all returns once the polling thread has left its loop; then the  *)
(* map is cleared and the lock released.                                  *)
StopJoin ==
  /\ spc = "join"
  /\ tpc \in {"exited", "crashed"}
  /\ sessions' = [f \in Fds |-> None]
  /\ mutexOwner' = None
  /\ spc' = "done"
  /\ UNCHANGED <<started, cancelled, reg, fdOwner, life, passed,
                 connectionState, rx, hup, tpc, events, readingSessions,
                 closedSessions, upc, newArg, closedArg, toRearm,
                 readsSinceRearm, closedCount, updates, sends>>

(* The accept path calls UpdateSessions with sessions it accepted and not *)
(* yet passed, and sessions it passed as new and now passes as closed.    *)
(* The checks of started and of the token run outside the lock: a call on *)
(* a producer not started throws, a call on a cancelled one returns.      *)
UpdateCall ==
  /\ upc = "idle"
  /\ updates < MaxUpdates
  /\ \E new \in SUBSET {s \in Sessions : life[s] = "open" /\ passed[s] = "no"},
        closed \in SUBSET {s \in Sessions : passed[s] = "new"} :
       /\ new \cup closed # {}
       /\ updates' = updates + 1
       /\ passed' = [s \in Sessions |-> IF s \in new THEN "new"
                                        ELSE IF s \in closed THEN "closed"
                                        ELSE passed[s]]
       /\ IF started /\ ~cancelled
            THEN /\ upc' = "lock"
                 /\ newArg' = new
                 /\ closedArg' = closed
            ELSE UNCHANGED <<upc, newArg, closedArg>>
  /\ UNCHANGED <<started, cancelled, mutexOwner, sessions, reg, fdOwner, life,
                 connectionState, rx, hup, tpc, events, readingSessions,
                 closedSessions, spc, toRearm, readsSinceRearm, closedCount,
                 sends>>

UpdateLock ==
  /\ upc = "lock"
  /\ mutexOwner = None
  /\ mutexOwner' = "update"
  /\ upc' = "erase"
  /\ UNCHANGED <<started, cancelled, sessions, reg, fdOwner, life, passed,
                 connectionState, rx, hup, tpc, events, readingSessions,
                 closedSessions, newArg, closedArg, spc, toRearm,
                 readsSinceRearm, closedCount, updates, sends>>

(* erase(closedSession->Socket()): by fd number, whatever it maps to.     *)
(* The socket stays registered in epoll.                                  *)
UpdateErase ==
  /\ upc = "erase"
  /\ sessions' = [f \in Fds |-> IF \E s \in closedArg : FdOf[s] = f
                                  THEN None ELSE sessions[f]]
  /\ upc' = "add"
  /\ UNCHANGED <<started, cancelled, mutexOwner, reg, fdOwner, life, passed,
                 connectionState, rx, hup, tpc, events, readingSessions,
                 closedSessions, newArg, closedArg, spc, toRearm,
                 readsSinceRearm, closedCount, updates, sends>>

(* emplace(newSession->Socket(), newSession) fails when the fd number is  *)
(* still mapped, and the session is skipped; otherwise EPOLL_CTL_ADD.     *)
(* Then the lock is released.                                             *)
UpdateAdd ==
  /\ upc = "add"
  /\ LET added == {s \in newArg : sessions[FdOf[s]] = None}
         addedFds == {FdOf[s] : s \in added}
     IN  /\ sessions' = [f \in Fds |->
                           IF f \in addedFds
                             THEN CHOOSE s \in added : FdOf[s] = f
                             ELSE sessions[f]]
         /\ reg' = [s \in Sessions |->
                      IF FdOf[s] \in addedFds /\ fdOwner[FdOf[s]] = s
                                              /\ reg[s] = "none"
                        THEN "armed" ELSE reg[s]]
  /\ mutexOwner' = None
  /\ upc' = "idle"
  /\ newArg' = {}
  /\ closedArg' = {}
  /\ UNCHANGED <<started, cancelled, fdOwner, life, passed, connectionState,
                 rx, hup, tpc, events, readingSessions, closedSessions, spc,
                 toRearm, readsSinceRearm, closedCount, updates, sends>>

(* ReArmSession, called by the consumer of a read batch once it has read  *)
(* the session's data: EPOLL_CTL_MOD on the session's fd number.          *)
ReArmSession(s) ==
  /\ s \in toRearm
  /\ rx' = IF life[s] = "open" THEN [rx EXCEPT ![s] = FALSE] ELSE rx
  /\ EpollCtlMod(FdOf[s])
  /\ toRearm' = toRearm \ {s}
  /\ readsSinceRearm' = [readsSinceRearm EXCEPT ![s] = 0]
  /\ UNCHANGED <<started, cancelled, mutexOwner, sessions, fdOwner, life,
                 passed, connectionState, hup, tpc, events, readingSessions,
                 closedSessions, upc, newArg, closedArg, spc, closedCount,
                 updates, sends>>
-----------------------------------------------------------------------------
(* The polling thread, ListenAndProduceEvents *)

(* The outer loop's test of the cancellation token. *)
LoopHead ==
  /\ tpc = "top"
  /\ tpc' = IF cancelled THEN "exited" ELSE "wait"
  /\ UNCHANGED <<started, cancelled, mutexOwner, sessions, reg, fdOwner, life,
                 passed, connectionState, rx, hup, events, readingSessions,
                 closedSessions, upc, newArg, closedArg, spc, toRearm,
                 readsSinceRearm, closedCount, updates, sends>>

(* epoll_wait with a zero timeout.  With nothing ready it returns 0 and   *)
(* the inner loop calls it again without testing the token: no state      *)
(* changes.  Otherwise it returns some of the ready sockets, and          *)
(* EPOLLONESHOT disables each one it reports.                             *)
EpollWait ==
  /\ tpc = "wait"
  /\ \E R \in SUBSET Ready :
       /\ R # {}
       /\ events' = {EventOf(s) : s \in R}
       /\ OneShotDisarm(R)
  /\ tpc' = "process"
  /\ UNCHANGED <<started, cancelled, mutexOwner, sessions, fdOwner, life,
                 passed, connectionState, rx, hup, readingSessions,
                 closedSessions, upc, newArg, closedArg, spc, toRearm,
                 readsSinceRearm, closedCount, updates, sends>>

(* epoll_wait returns -1 (a signal interrupted it): the inner loop breaks *)
(* and, with no events, the pass raises nothing.                           *)
EpollWaitFails ==
  /\ tpc = "wait"
  /\ tpc' = "top"
  /\ UNCHANGED <<started, cancelled, mutexOwner, sessions, reg, fdOwner, life,
                 passed, connectionState, rx, hup, events, readingSessions,
                 closedSessions, upc, newArg, closedArg, spc, toRearm,
                 readsSinceRearm, closedCount, updates, sends>>

(* One iteration of the loop over the events (lines 144-164).  EPOLLRDHUP *)
(* first: EPOLL_CTL_DEL, then inSessions->at(fd) without the lock,        *)
(* SetAsDisconnected, and the session joins the closed batch.  Else       *)
(* EPOLLIN: at(fd), and the session joins the read batch.  at() throws    *)
(* std::out_of_range for an fd number the map no longer holds; nothing    *)
(* catches it and the thread ends the process.                            *)
ProcessEvent ==
  /\ tpc = "process"
  /\ \E e \in events :
       LET s == sessions[e.fd]
       IN  /\ events' = events \ {e}
           /\ IF "rdhup" \in e.kinds
                THEN /\ EpollCtlDel(e.fd)
                     /\ IF LookupThrows(e.fd)
                          THEN /\ tpc' = "crashed"
                               /\ UNCHANGED <<connectionState, closedSessions>>
                          ELSE /\ SetAsDisconnected(s)
                               /\ closedSessions' = closedSessions \cup {s}
                               /\ UNCHANGED tpc
                     /\ UNCHANGED readingSessions
                ELSE /\ IF LookupThrows(e.fd)
                          THEN /\ tpc' = "crashed"
                               /\ UNCHANGED readingSessions
                          ELSE /\ readingSessions' = readingSessions \cup {s}
                               /\ UNCHANGED tpc
                     /\ UNCHANGED <<reg, connectionState, closedSessions>>
  /\ UNCHANGED <<started, cancelled, mutexOwner, sessions, fdOwner, life,
                 passed, rx, hup, upc, newArg, closedArg, spc, toRearm,
                 readsSinceRearm, closedCount, updates, sends>>

(* RaiseReadEvent with a non-empty read batch, then RaiseClosedEvent with *)
(* a non-empty closed batch; the consumer of the read batch now owes a    *)
(* ReArmSession for each of its sessions.                                 *)
RaiseEvents ==
  /\ tpc = "process"
  /\ events = {}
  /\ toRearm' = toRearm \cup readingSessions
  /\ readsSinceRearm' = [s \in Sessions |->
                           IF s \in readingSessions THEN readsSinceRearm[s] + 1
                                                    ELSE readsSinceRearm[s]]
  /\ closedCount' = [s \in Sessions |->
                       IF s \in closedSessions THEN closedCount[s] + 1
                                               ELSE closedCount[s]]
  /\ readingSessions' = {}
  /\ closedSessions' = {}
  /\ tpc' = "top"
  /\ UNCHANGED <<started, cancelled, mutexOwner, sessions, reg, fdOwner, life,
                 passed, connectionState, rx, hup, events, upc, newArg,
                 closedArg, spc, updates, sends>>

-----------------------------------------------------------------------------
(* The environment *)

(* The accept path constructs a Connected VCommSessionInfo for a socket   *)
(* it accepted on a free fd number (ConfigureSocketEvent fills the mask). *)
Accept(s) ==
  /\ life[s] = "new"
  /\ fdOwner[FdOf[s]] = None
  /\ life' = [life EXCEPT ![s] = "open"]
  /\ fdOwner' = [fdOwner EXCEPT ![FdOf[s]] = s]
  /\ connectionState' = [connectionState EXCEPT ![s] = "Connected"]
  /\ UNCHANGED <<started, cancelled, mutexOwner, sessions, reg, passed, rx,
                 hup, tpc, events, readingSessions, closedSessions, upc,
                 newArg, closedArg, spc, toRearm, readsSinceRearm,
                 closedCount, updates, sends>>

(* The server closes a session's socket: the fd number becomes free and  *)
(* the kernel drops the socket's epoll registration.                      *)
CloseSocket(s) ==
  /\ life[s] = "open"
  /\ life' = [life EXCEPT ![s] = "closed"]
  /\ fdOwner' = [fdOwner EXCEPT ![FdOf[s]] = None]
  /\ reg' = [reg EXCEPT ![s] = "none"]
  /\ UNCHANGED <<started, cancelled, mutexOwner, sessions, passed,
                 connectionState, rx, hup, tpc, events, readingSessions,
                 closedSessions, upc, newArg, closedArg, spc, toRearm,
                 readsSinceRearm, closedCount, updates, sends>>

PeerSend(s) ==
  /\ life[s] = "open"
  /\ ~hup[s] /\ ~rx[s]
  /\ sends < MaxSends
  /\ rx' = [rx EXCEPT ![s] = TRUE]
  /\ sends' = sends + 1
  /\ UNCHANGED <<started, cancelled, mutexOwner, sessions, reg, fdOwner, life,
                 passed, connectionState, hup, tpc, events, readingSessions,
                 closedSessions, upc, newArg, closedArg, spc, toRearm,
                 readsSinceRearm, closedCount, updates>>

PeerClose(s) ==
  /\ life[s] = "open"
  /\ ~hup[s]
  /\ hup' = [hup EXCEPT ![s] = TRUE]
  /\ UNCHANGED <<started, cancelled, mutexOwner, sessions, reg, fdOwner, life,
                 passed, connectionState, rx, tpc, events, readingSessions,
                 closedSessions, upc, newArg, closedArg, spc, toRearm,
                 readsSinceRearm, closedCount, updates, sends>>

-----------------------------------------------------------------------------
PollingThread == LoopHead \/ EpollWait \/ ProcessEvent \/ RaiseEvents
UpdateSteps == UpdateLock \/ UpdateErase \/ UpdateAdd
StopSteps == StopLock \/ StopJoin

Next ==
  \/ PollingThread \/ EpollWaitFails
  \/ Start \/ StopCall \/ StopSteps \/ UpdateCall \/ UpdateSteps
  \/ \E s \in Sessions : \/ ReArmSession(s)
                         \/ Accept(s) \/ CloseSocket(s)
                         \/ PeerSend(s) \/ PeerClose(s)

(* The polling thread and the callers inside UpdateSessions and Stop are  *)
(* scheduled; the consumer of a read batch eventually re-arms what it got *)
(* (it is how the read path is meant to be used).  Calls, sockets and     *)
(* peers, and epoll_wait failing, are up to the environment, except that  *)
(* epoll_wait does not fail on every call forever while sockets are ready *)
(* (strong fairness of a successful epoll_wait).                          *)
Fairness ==
  /\ WF_vars(PollingThread)
  /\ SF_vars(EpollWait)
  /\ WF_vars(UpdateSteps)
  /\ WF_vars(StopSteps)
  /\ \A s \in Sessions : WF_vars(ReArmSession(s))

Spec == Init /\ [][Next]_vars /\ Fairness

-----------------------------------------------------------------------------
TypeOK ==
  /\ sessions \in [Fds -> Sessions \cup {None}]
  /\ reg \in [Sessions -> {"none", "armed", "disarmed"}]
  /\ fdOwner \in [Fds -> Sessions \cup {None}]
  /\ connectionState \in [Sessions -> {"NotConnected", "Connected",
                                       "Disconnected"}]
  /\ tpc \in {"none", "top", "wait", "process", "exited", "crashed"}
  /\ events \subseteq Event
  /\ readingSessions \cup closedSessions \cup toRearm \subseteq Sessions
  /\ readsSinceRearm \in [Sessions -> 0..MaxSends]
  /\ closedCount \in [Sessions -> Nat]
(* Spec property 2: no session is in more than one closed batch.  The     *)
(* producer relies on EPOLLONESHOT having disabled the socket and on the  *)
(* EPOLL_CTL_DEL that follows the first EPOLLRDHUP, while consumers may   *)
(* still re-arm the session with ReArmSession from an older read batch.   *)
ClosedAtMostOnce == \A s \in Sessions : closedCount[s] <= 1

(* Spec property 4 (re-arm guard): between two read batches holding the   *)
(* same session, ReArmSession must have been called for that session.     *)
RearmGuard == \A s \in Sessions : readsSinceRearm[s] <= 1

(* A peer's close of a session the producer monitors reaches a closed     *)
(* batch, even when data arrived with it or the socket waits for a        *)
(* re-arm, unless the producer is cancelled, the server closes the socket *)
(* itself, or the thread has died.                                        *)
CloseEventuallyReported ==
  \A s \in Sessions :
    (hup[s] /\ sessions[FdOf[s]] = s /\ reg[s] # "none")
      ~> (closedCount[s] >= 1 \/ cancelled \/ life[s] = "closed"
          \/ tpc = "crashed")

(* The polling thread's inSessions->at(fd) (lines 149, 155) finds every   *)
(* fd number epoll reports; otherwise std::out_of_range ends the process. *)
LookupNeverThrows == tpc # "crashed"

(* Stop clears the map after joining the thread: once Stop has returned  *)
(* and no UpdateSessions is in progress, the producer holds no session.  *)
StopLeavesProducerEmpty ==
  spc = "done" /\ upc = "idle" => \A f \in Fds : sessions[f] = None

(* Every Stop that passed its check returns: join_all sees the polling    *)
(* thread leave its loop.                                                 *)
StopCompletes == spc = "lock" ~> spc = "done"
=============================================================================
