---------------------------- MODULE NetworkMonitor ----------------------------
(***************************************************************************)
(* Network-statistics accounting (src/networkmonitor.cpp, reached from    *)
(* src/vsocketbase.cpp).  The NetworkMonitor singleton keeps, under       *)
(* _sessionsMapMutex, a map from client id to the list of its             *)
(* NetworkSession objects, at most MAX_SESSIONS_HISTORY of them.  Each    *)
(* NetworkSession keeps the Rx and Tx NetworkTransactionLogs added by the *)
(* socket's read and write paths, at most MAX_LOGS_HISTORY per direction, *)
(* the Rx list under _rxLogsMutex and the Tx list under _txLogsMutex.     *)
(*                                                                         *)
(* Actors: the socket's reading thread (addRxTransactionLog), its writing *)
(* thread (addTxTransactionLog), a viewer calling getRxTransactionLogs,   *)
(* getTxTransactionLogs and getTransactionLogs, and callers of the        *)
(* monitor (createNetworkSessionForMonitoring, clearClientLogs,           *)
(* clearAllLogs, destroyInstance).  The session observed is session 1 of  *)
(* client Home, created before the model starts.  Logs and sessions are   *)
(* numbered in the order they are added.  A separate NetworkTransactionLog *)
(* with its clock checks the time accounting.                             *)
(***************************************************************************)
EXTENDS Integers, Sequences, SequencesExt

CONSTANTS
  Clients,               \* client ids (the sockets' host names)
  Home,                  \* the client of the observed session
  RxThread, TxThread, Viewer,
  MAX_LOGS_HISTORY,      \* 100 in the code
  MAX_SESSIONS_HISTORY,  \* 100 in the code
  MaxLogs,               \* logs added per direction
  MaxSessions,           \* sessions created in all
  MaxViews,              \* viewer calls
  MaxTime,               \* clock bound for the transaction-log timing
  MaxTransacted,         \* bytes a NetworkTransactionLog accounts
  None

ASSUME Home \in Clients
ASSUME MAX_LOGS_HISTORY >= 2 /\ MAX_SESSIONS_HISTORY >= 2

Mutexes == {"rx", "tx"}
Threads == {RxThread, TxThread, Viewer}

VARIABLES
  owner,        \* owner[m]: the thread holding _rxLogsMutex ("rx") or
                \*   _txLogsMutex ("tx"), or None
  rxpc, txpc,   \* "idle" | "locked": an add in its critical section
  rxLogs, txLogs,        \* the observed session's _rxLogs, _txLogs
  nRx, nTx,     \* logs added so far, per direction
  vplan,        \* the list mutexes the viewer's current call still visits
  vheld,        \* the mutex the viewer holds, or None
  views,        \* viewer calls made
  sessions,     \* client -> its session list; DOMAIN is the map's keys
  created,      \* sessions created so far (the observed one is 1)
  lastFor,      \* client -> the session most recently created for it
  instance,     \* instanceCreated: "created" | "destroyed"
  monitorError, \* createNetworkSessionForMonitoring threw
  clock,        \* VHighResolutionTimeHelper::GetTimeInNanoSeconds()
  tlog          \* one NetworkTransactionLog and its birth time, or None

logVars == <<rxpc, txpc, rxLogs, txLogs, nRx, nTx>>
viewVars == <<vplan, vheld, views>>
mapVars == <<sessions, created, lastFor, instance, monitorError>>
timeVars == <<clock, tlog>>
vars == <<owner, logVars, viewVars, mapVars, timeVars>>

(* The observed session is alive while the map holds it: the socket's    *)
(* weak pointer mNetworkSession expires when it is evicted or cleared.   *)
HomeAlive == \E c \in DOMAIN sessions : 1 \in Range(sessions[c])

(* Mutant: the list counts as full only past max.                        *)
AddToHistoryLate(list, x, max) ==
  Append(IF Len(list) > max THEN RemoveAt(list, 2) ELSE list, x)

(* vector::erase(begin() + 1) when the list is full, then push_back.      *)
AddToHistory(list, x, max) ==
  Append(IF Len(list) >= max THEN RemoveAt(list, 2) ELSE list, x)

Init ==
  /\ owner = [m \in Mutexes |-> None]
  /\ rxpc = "idle" /\ txpc = "idle"
  /\ rxLogs = <<>> /\ txLogs = <<>> /\ nRx = 0 /\ nTx = 0
  /\ vplan = <<>> /\ vheld = None /\ views = 0
  /\ sessions = (Home :> <<1>>) /\ created = 1
  /\ lastFor = [c \in Clients |-> IF c = Home THEN 1 ELSE 0]
  /\ instance = "created" /\ monitorError = FALSE
  /\ clock = 0 /\ tlog = None

-----------------------------------------------------------------------------
RxAddMutex == "rx"

TxAddMutex == "rx"

(* NetworkSession::addRxTransactionLog.  A log of no bytes returns before *)
(* locking and changes nothing.  VSocketBase::_addRxTransactionLog calls  *)
(* it only while mNetworkSession has not expired.                         *)
AddRxLock ==
  /\ rxpc = "idle" /\ nRx < MaxLogs /\ HomeAlive
  /\ owner[RxAddMutex] = None
  /\ owner' = [owner EXCEPT ![RxAddMutex] = RxThread]
  /\ rxpc' = "locked"
  /\ UNCHANGED <<txpc, rxLogs, txLogs, nRx, nTx, viewVars, mapVars, timeVars>>

AddRxCommit ==
  /\ rxpc = "locked"
  /\ rxLogs' = AddToHistory(rxLogs, nRx + 1, MAX_LOGS_HISTORY)
  /\ nRx' = nRx + 1
  /\ owner' = [owner EXCEPT ![RxAddMutex] = None]
  /\ rxpc' = "idle"
  /\ UNCHANGED <<txpc, txLogs, nTx, viewVars, mapVars, timeVars>>

(* NetworkSession::addTxTransactionLog: the same on _txLogs, but it locks *)
(* _rxLogsMutex.                                                          *)
AddTxLock ==
  /\ txpc = "idle" /\ nTx < MaxLogs /\ HomeAlive
  /\ owner[TxAddMutex] = None
  /\ owner' = [owner EXCEPT ![TxAddMutex] = TxThread]
  /\ txpc' = "locked"
  /\ UNCHANGED <<rxpc, rxLogs, txLogs, nRx, nTx, viewVars, mapVars, timeVars>>

AddTxCommit ==
  /\ txpc = "locked"
  /\ txLogs' = AddToHistory(txLogs, nTx + 1, MAX_LOGS_HISTORY)
  /\ nTx' = nTx + 1
  /\ owner' = [owner EXCEPT ![TxAddMutex] = None]
  /\ txpc' = "idle"
  /\ UNCHANGED <<rxpc, rxLogs, nRx, viewVars, mapVars, timeVars>>

(* The viewer: getRxTransactionLogs and getTransactionLogs(Rx) copy the  *)
(* Rx list under _rxLogsMutex, getTxTransactionLogs and                   *)
(* getTransactionLogs(Tx) the Tx list under _txLogsMutex, and             *)
(* getTransactionLogs(TransactionDirection_Unavailable) one after the     *)
(* other.  The copies are weak pointers and change nothing.               *)
ViewerCall ==
  /\ vplan = <<>> /\ vheld = None /\ views < MaxViews
  /\ vplan' \in {<<"rx">>, <<"tx">>, <<"rx", "tx">>}
  /\ views' = views + 1
  /\ UNCHANGED <<owner, vheld, logVars, mapVars, timeVars>>

ViewerLock ==
  /\ vplan # <<>> /\ vheld = None
  /\ owner[Head(vplan)] = None
  /\ owner' = [owner EXCEPT ![Head(vplan)] = Viewer]
  /\ vheld' = Head(vplan)
  /\ UNCHANGED <<vplan, views, logVars, mapVars, timeVars>>

ViewerCopy ==
  /\ vheld # None
  /\ owner' = [owner EXCEPT ![vheld] = None]
  /\ vheld' = None
  /\ vplan' = Tail(vplan)
  /\ UNCHANGED <<views, logVars, mapVars, timeVars>>

-----------------------------------------------------------------------------
(* VSocketBase::createNetworkSessionForMonitoring for a socket of client  *)
(* NetworkMonitor::getInstance under instanceMutex: the singleton, or an  *)
(* exception once destroyInstance has run.                                *)
getInstance == IF instance = "destroyed" THEN "throw" ELSE "monitor"

(* c: NetworkMonitor::getInstance, which throws once the singleton is     *)
(* destroyed; then createNetworkSession under _sessionsMapMutex: a new    *)
(* list for a new client id, erase(begin() + 1) of a full list, and       *)
(* push_back.  The socket's arguments pass validateInitialization.        *)
CreateNetworkSession(c) ==
  /\ created < MaxSessions
  /\ IF getInstance = "throw"
       THEN /\ monitorError' = TRUE
            /\ UNCHANGED <<sessions, created, lastFor, instance>>
       ELSE /\ created' = created + 1
            /\ sessions' =
                 IF c \in DOMAIN sessions
                   THEN [sessions EXCEPT ![c] =
                           AddToHistory(@, created + 1, MAX_SESSIONS_HISTORY)]
                   ELSE sessions @@ (c :> <<created + 1>>)
            /\ lastFor' = [lastFor EXCEPT ![c] = created + 1]
            /\ UNCHANGED <<instance, monitorError>>
  /\ UNCHANGED <<owner, logVars, viewVars, timeVars>>

(* clearClientLogs erases the client's entry; for an unknown client it    *)
(* throws and changes nothing.                                            *)
ClearClientLogs(c) ==
  /\ instance = "created" /\ c \in DOMAIN sessions
  /\ sessions' = [d \in DOMAIN sessions \ {c} |-> sessions[d]]
  /\ UNCHANGED <<created, lastFor, instance, monitorError, owner, logVars,
                 viewVars, timeVars>>

ClearAllLogs ==
  /\ instance = "created"
  /\ sessions' = << >>
  /\ UNCHANGED <<created, lastFor, instance, monitorError, owner, logVars,
                 viewVars, timeVars>>

(* destroyInstance resets the singleton's shared pointer: the monitor and *)
(* every session it held are destroyed.                                   *)
DestroyInstance ==
  /\ instance = "created"
  /\ instance' = "destroyed"
  /\ sessions' = << >>
  /\ UNCHANGED <<created, lastFor, monitorError, owner, logVars, viewVars,
                 timeVars>>

-----------------------------------------------------------------------------
(* NetworkTransactionLog and its clock.  The constructor with            *)
(* startLogging sets _isTransacting in its initializer list and then      *)
(* calls startTransaction, which returns at once because the flag is      *)
(* already set, so _transactionStartTimeInNS stays 0.0.                   *)
Tick ==
  /\ clock < MaxTime
  /\ clock' = clock + 1
  /\ UNCHANGED <<tlog, owner, logVars, viewVars, mapVars>>

ConstructLog ==
  /\ tlog = None
  /\ \E startLogging \in BOOLEAN :
       tlog' = [transacting |-> startLogging, bytes |-> 0, start |-> 0,
                total |-> 0, born |-> clock]
  /\ UNCHANGED <<clock, owner, logVars, viewVars, mapVars>>

startTransaction ==
  /\ tlog # None /\ ~tlog.transacting /\ tlog.bytes < MaxTransacted
  /\ tlog' = [tlog EXCEPT !.transacting = TRUE, !.start = clock]
  /\ UNCHANGED <<clock, owner, logVars, viewVars, mapVars>>

(* completeTransaction(bytesTransacted); a call while not transacting     *)
(* returns at once.                                                       *)
completeTransaction ==
  /\ tlog # None /\ tlog.transacting
  /\ \E b \in {0, 1} :
       tlog' = [tlog EXCEPT !.transacting = FALSE,
                            !.bytes = IF b > 0 THEN @ + b ELSE @,
                            !.total = IF b > 0 THEN @ + (clock - tlog.start)
                                               ELSE @,
                            !.start = 0]
  /\ UNCHANGED <<clock, owner, logVars, viewVars, mapVars>>

-----------------------------------------------------------------------------
(* The enum <-> text conversions.  An enum value is its integer; names[v + 1] *)
(* is the text of value v, names[1] that of the _Unavailable value 0.      *)
(* compareIgnoreCase compares case-folded texts: a text here is the folded *)
(* word.  Foreign is a text that is no name.                               *)
SessionTypeNames == <<"SessionType_Unavailable", "ClientSession", "Query", "Standard">>
SessionDirectionNames == <<"SessionDirection_Unavailable", "Incoming", "Outgoing">>
TransactionDirectionNames == <<"TransactionDirection_Unavailable", "Rx", "Tx">>
Foreign == "foreign"
Throws == -1  \* the VException, distinct from every enum value

(* toString: the text starts as the _Unavailable name and the switch sets *)
(* the name of each other enumerator; any other integer keeps the default. *)
ToText(names, v) == IF v \in 1..Len(names) - 1 THEN names[v + 1] ELSE names[1]

toStringSessionType(v) == ToText(SessionTypeNames, v)

toStringSessionDirection(v) == ToText(SessionDirectionNames, v)

toStringTransactionDirection(v) == ToText(TransactionDirectionNames, v)

(* convertTo...: the if-else chain compares the text with toString of each *)
(* enumerator in the order of order; no match throws, or in passiveMode     *)
(* gives the _Unavailable value 0.                                         *)
ConvertText(names, order, text, passiveMode) ==
  LET hits == SelectSeq(order, LAMBDA v : ToText(names, v) = text)
  IN  IF hits # <<>> THEN Head(hits) ELSE IF passiveMode THEN 0 ELSE Throws

convertToSessionType(text, passiveMode) ==
  ConvertText(SessionTypeNames, <<1, 2, 3, 0>>, text, passiveMode)

(* Mutant: the second branch tests toString(Incoming) again.             *)
convertToSessionDirectionCopyPaste(text, passiveMode) ==
  ConvertText(SessionDirectionNames, <<1, 1, 0>>, text, passiveMode)

convertToSessionDirection(text, passiveMode) ==
  ConvertText(SessionDirectionNames, <<1, 2, 0>>, text, passiveMode)

convertToTransactionDirection(text, passiveMode) ==
  ConvertText(TransactionDirectionNames, <<1, 2, 0>>, text, passiveMode)

-----------------------------------------------------------------------------
Next ==
  \/ AddRxLock \/ AddRxCommit \/ AddTxLock \/ AddTxCommit
  \/ ViewerCall \/ ViewerLock \/ ViewerCopy
  \/ \E c \in Clients : CreateNetworkSession(c) \/ ClearClientLogs(c)
  \/ ClearAllLogs \/ DestroyInstance
  \/ Tick \/ ConstructLog \/ startTransaction \/ completeTransaction

Spec == Init /\ [][Next]_vars

-----------------------------------------------------------------------------
(* Properties                                                             *)

(* A history list holds at most max entries, in the order they were      *)
(* added, and always the most recent one: the eviction on a full list     *)
(* makes room without losing the entry just pushed or reordering.         *)
Fresh(list, latest, max) ==
  /\ Len(list) <= max
  /\ \A i \in 1..Len(list) - 1 : list[i] < list[i + 1]
  /\ latest > 0 => list # <<>> /\ Last(list) = latest

(* The Rx and Tx logs of the observed session and every client's session *)
(* list are bounded, ordered and keep their latest entry, across adds,   *)
(* evictions, clearClientLogs and clearAllLogs.                          *)
HistoriesBounded ==
  /\ Fresh(rxLogs, nRx, MAX_LOGS_HISTORY)
  /\ Fresh(txLogs, nTx, MAX_LOGS_HISTORY)
  /\ \A c \in DOMAIN sessions :
       Fresh(sessions[c], lastFor[c], MAX_SESSIONS_HISTORY)

(* networkmonitor.h: "When the number of transactions exceeds             *)
(* MAX_LOGS_HISTORY, older transactions would be discarded ... the list   *)
(* size is maintained to be MAX_LOGS_HISTORY": the Rx history is the      *)
(* latest MAX_LOGS_HISTORY logs added.                                    *)
HistoryKeepsLatest ==
  LET n == Min({nRx, MAX_LOGS_HISTORY})
  IN  rxLogs = [i \in 1..n |-> nRx - n + i]

(* No thread changes the Tx list while another reads it: addTxTransactionLog *)
(* and getTxTransactionLogs / getTransactionLogs are never both inside     *)
(* their critical sections.                                                *)
TxLogsRaceFree == ~(txpc = "locked" /\ vheld = "tx")

TimeWithinLifetime == tlog # None => tlog.total <= clock - tlog.born

(* NetworkMonitor::toString and convertToSessionType,                      *)
(* convertToSessionDirection and convertToTransactionDirection are inverse: *)
(* the text of every enumerator converts back to it, in passive mode or    *)
(* not, and a text that names no enumerator gives the _Unavailable value   *)
(* in passive mode and throws otherwise.                                   *)
Inverse3(toStr(_), conv(_, _), names) ==
  /\ \A v \in 0..Len(names) - 1, pm \in BOOLEAN : conv(toStr(v), pm) = v
  /\ conv(Foreign, TRUE) = 0 /\ conv(Foreign, FALSE) = Throws

ConversionsInverse ==
  /\ Inverse3(toStringSessionType, convertToSessionType, SessionTypeNames)
  /\ Inverse3(toStringSessionDirection, convertToSessionDirection,
              SessionDirectionNames)
  /\ Inverse3(toStringTransactionDirection, convertToTransactionDirection,
              TransactionDirectionNames)

(* The three toString/convertTo pairs of NetworkMonitor round-trip, as    *)
(* Inverse3 states, at every step.                                         *)
ConversionsRoundTrip == [][ConversionsInverse]_vars

(* createNetworkSessionForMonitoring tests the weak pointer getInstance   *)
(* returns and does nothing when the monitor is gone; it never throws.    *)
NoMonitoringException == ~monitorError
=============================================================================
