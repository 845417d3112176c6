------------------------------ MODULE SocketIO ------------------------------
(***************************************************************************)
(* VSocket::read and VSocket::write, the blocking byte transport under a  *)
(* session, in the three variants the repository builds:                  *)
(*   "unix" src/_unix/vsocket.cpp: recv/send in a loop, no select, so the *)
(*          read time-out set by VSocketBase::setReadTimeOut is not used; *)
(*   "bsd"  src/source/sockets/_unix/vsocket.cpp: select (with the        *)
(*          time-out when one is set), then recv/send;                    *)
(*   "win"  src/source/sockets/_win/vsocket.cpp: select, then WSARecv /   *)
(*          WSASend, a bounded retry on WSAEWOULDBLOCK, and the           *)
(*          NetworkRxTransactionLog / NetworkTxTransactionLog of          *)
(*          src/networkmonitor.cpp when statistics are captured.          *)
(* A caller thread reads ReadSize bytes per call and a writer thread      *)
(* writes WriteSize bytes per call on the same socket; another thread may *)
(* close the socket (VSocketBase::close) or, on Win32, call available(),  *)
(* which switches the socket to non-blocking around a MSG_PEEK.  The peer *)
(* sends bytes, closes, or resets the connection.                         *)
(*                                                                         *)
(* Bytes are counted, not named: TCP keeps them in order, so the kernel   *)
(* receive buffer is the count inbuf of bytes sent and not yet received,  *)
(* and sent - inbuf bytes have been taken out of it by recv.              *)
(***************************************************************************)
EXTENDS Naturals, Sequences, SequencesExt

CONSTANTS
  Platforms,          \* the builds considered: a subset of PlatformNames
  ReadSize,           \* numBytesToRead of every read call
  WriteSize,          \* numBytesToWrite of every write call
  MaxBytes,           \* bytes the peer sends in all
  MaxReads,           \* read calls the caller makes
  MaxWrites,          \* write calls the writer makes
  MaxSignals,         \* signals that interrupt a select
  MAX_RETRY_ATTEMPTS_FOR_WSAWOULDBLOCK_ERROR,
  RequireReadAll,     \* mRequireReadAll
  ReadTimeOutActive,  \* mReadTimeOutActive
  WriteTimeOutActive, \* mWriteTimeOutActive
  Capturing,          \* NetworkMonitor::isCapturingNetworkStatistics()
  MaxAvailable        \* available() calls another thread makes

PlatformNames == {"unix", "bsd", "win"}

ASSUME Platforms \subseteq PlatformNames /\ Platforms # {}
ASSUME {ReadSize, WriteSize} \subseteq Nat \ {0}
ASSUME {RequireReadAll, ReadTimeOutActive, WriteTimeOutActive, Capturing}
         \subseteq BOOLEAN

(* The exceptions a call can end with.  Only Win32's select time-out      *)
(* (VSocketReadTimedOutException) tells the caller how many bytes the     *)
(* call had already taken; every other one is fatal to the session.       *)
Exceptions == {"invalid", "closed", "error", "eof", "timeout", "readTimeout"}

VARIABLES
  platform,           \* the build: fixed for a run
  bigFd,              \* mSocketID > FD_SETSIZE: the bsd build then skips
                      \*   select and calls recv / send directly
  sockOpen,           \* mSocketID # kNoSocketID
  nonBlocking,        \* FIONBIO set on the Win32 socket
  sent, inbuf,        \* bytes the peer sent; bytes still in the kernel
  fin, reset,         \* the peer closed / reset the connection
  signals,            \* signals delivered so far
  rpc,                \* the reader: "idle" | "select" | "recv" |
                      \*   "blocked" | "stopped"
  remaining,          \* bytesRemainingToRead
  during,             \* numBytesReadDuringThisReceive
  retry,              \* currentRetryCountForWSAWOULDBLOCKError
  actualRead,         \* actualBytesRead, the WSARecv out-parameter
  numBytesRead,       \* mNumBytesRead
  delivered,          \* bytes the caller knows it has received
  reads,              \* read calls made
  rxLog,              \* the call's NetworkRxTransactionLog
  rxLogs,             \* transacted bytes of the logs added to the session
  lastError,          \* the exception the last failed read threw
  wpc,                \* the writer: "idle" | "select" | "send" | "stopped"
  wremaining,         \* bytesRemainingToWrite
  actualWritten,      \* actualBytesWritten, the WSASend out-parameter
  numBytesWritten,    \* mNumBytesWritten
  writes,             \* write calls made
  txLog, txLogs,      \* as rxLog, rxLogs for the writer
  apc,                \* the Win32 available() caller: "idle" | "peek"
  avails              \* available() calls made

readerVars == <<rpc, remaining, during, retry, actualRead, numBytesRead,
                delivered, reads, rxLog, rxLogs, lastError>>
writerVars == <<wpc, wremaining, actualWritten, numBytesWritten, writes,
                txLog, txLogs>>
peerVars == <<sent, inbuf, fin, reset, signals>>
build == <<platform, bigFd>>
vars == <<build, sockOpen, nonBlocking, apc, avails, readerVars,
          writerVars, peerVars>>

-----------------------------------------------------------------------------
(* NetworkTransactionLog (networkmonitor.cpp): a log constructed without  *)
(* startTransacting, then startTransaction / completeTransaction around   *)
(* each OS call.  Time is not modelled, only the flag and the bytes.      *)
NoLog == [transacting |-> FALSE, bytes |-> 0]

startTransaction(log) ==
  IF log.transacting THEN log ELSE [log EXCEPT !.transacting = TRUE]

completeTransaction(log, b) ==
  IF ~log.transacting THEN log
  ELSE [transacting |-> FALSE,
        bytes |-> IF b > 0 THEN log.bytes + b ELSE log.bytes]

(* NetworkSession::addRxTransactionLog / addTxTransactionLog through      *)
(* VSocketBase::_addRxTransactionLog: a log of no bytes is dropped.  The  *)
(* history bound never bites here (MaxReads is far below 100); it is      *)
(* modelled in NetworkMonitor.                                            *)
addTransactionLog(logs, log) ==
  IF log.bytes = 0 THEN logs ELSE Append(logs, log.bytes)

(* What the peer can make the kernel report to recv on this socket.       *)
Readable == inbuf > 0 \/ fin \/ reset

(* The statistics calls around one WSARecv / WSASend of b bytes.          *)
LogStep(log, b) ==
  IF Capturing /\ platform = "win"
    THEN completeTransaction(startTransaction(log), b)
    ELSE log

(* The top of the while loop of read and write: select first, except in   *)
(* the plain unix build and, in the bsd build, for a descriptor above     *)
(* FD_SETSIZE.                                                            *)
SelectsFirst == platform = "win" \/ (platform = "bsd" /\ ~bigFd)
LoopTop == IF SelectsFirst THEN "select" ELSE "recv"
WLoopTop == IF SelectsFirst THEN "select" ELSE "send"

InCall == {"select", "recv", "blocked"}

TypeOK ==
  /\ platform \in PlatformNames /\ bigFd \in BOOLEAN
  /\ {sockOpen, nonBlocking, fin, reset} \subseteq BOOLEAN
  /\ sent \in 0..MaxBytes /\ inbuf \in 0..sent
  /\ signals \in 0..MaxSignals
  /\ rpc \in InCall \cup {"idle", "stopped"}
  /\ remaining \in 0..ReadSize /\ during \in 0..ReadSize
  /\ retry \in 1..MAX_RETRY_ATTEMPTS_FOR_WSAWOULDBLOCK_ERROR
  /\ {actualRead, numBytesRead, delivered} \subseteq 0..MaxBytes
  /\ reads \in 0..MaxReads /\ writes \in 0..MaxWrites
  /\ {rxLog, txLog} \subseteq [transacting : BOOLEAN, bytes : Nat]
  /\ {rxLogs, txLogs} \subseteq Seq(Nat \ {0})
  /\ lastError \in Exceptions \cup {"none"}
  /\ wpc \in {"idle", "select", "send", "stopped"}
  /\ wremaining \in 0..WriteSize /\ actualWritten \in 0..WriteSize
  /\ numBytesWritten \in Nat
  /\ apc \in {"idle", "peek"} /\ avails \in 0..MaxAvailable

(* A connected socket (VSocketBase(VSocketID id)): counters at 0, the    *)
(* socket blocking, nothing received yet.                                 *)
Init ==
  /\ platform \in Platforms
  /\ bigFd \in IF platform = "bsd" THEN BOOLEAN ELSE {FALSE}
  /\ sockOpen = TRUE /\ nonBlocking = FALSE
  /\ sent = 0 /\ inbuf = 0 /\ fin = FALSE /\ reset = FALSE /\ signals = 0
  /\ rpc = "idle" /\ remaining = 0 /\ during = 0 /\ retry = 1
  /\ actualRead = 0 /\ numBytesRead = 0 /\ delivered = 0 /\ reads = 0
  /\ rxLog = NoLog /\ rxLogs = <<>> /\ lastError = "none"
  /\ wpc = "idle" /\ wremaining = 0 /\ actualWritten = 0
  /\ numBytesWritten = 0 /\ writes = 0 /\ txLog = NoLog /\ txLogs = <<>>
  /\ apc = "idle" /\ avails = 0

-----------------------------------------------------------------------------
(* VSocket::read.  A call ends by returning numBytesToRead - remaining or *)
(* by throwing.  The caller goes on reading after a                       *)
(* VSocketReadTimedOutException, adding the bytes it reports; any other   *)
(* exception ends its reading.                                            *)
(* Mutant: the time-out exception reports no bytes to the caller. *)
ReadFailsNoCount(e) ==
  /\ rpc' = IF e = "readTimeout" THEN "idle" ELSE "stopped"
  /\ lastError' = e
  /\ delivered' = delivered

ReadFails(e) ==
  /\ rpc' = IF e = "readTimeout" THEN "idle" ELSE "stopped"
  /\ lastError' = e
  /\ delivered' = IF e = "readTimeout" THEN delivered + during ELSE delivered

ReadReturns(rem, log) ==
  /\ rpc' = "idle"
  /\ delivered' = delivered + (ReadSize - rem)
  /\ rxLogs' = IF Capturing /\ platform = "win"
                 THEN addTransactionLog(rxLogs, log) ELSE rxLogs
  /\ UNCHANGED lastError

(* The entry check on mSocketID. *)
ReadInvalid ==
  /\ rpc = "idle" /\ reads < MaxReads /\ ~sockOpen
  /\ reads' = reads + 1
  /\ ReadFails("invalid")
  /\ UNCHANGED <<remaining, during, retry, actualRead, numBytesRead, rxLog,
                 rxLogs, build, sockOpen, nonBlocking, apc, avails,
                 writerVars, peerVars>>

ReadCall ==
  /\ rpc = "idle" /\ reads < MaxReads /\ sockOpen
  /\ reads' = reads + 1
  /\ rpc' = LoopTop
  /\ remaining' = ReadSize /\ during' = 0 /\ retry' = 1
  /\ actualRead' = 0 /\ rxLog' = NoLog
  /\ UNCHANGED <<numBytesRead, delivered, rxLogs, lastError, build,
                 sockOpen, nonBlocking, apc, avails, writerVars, peerVars>>

(* select on the socket for reading, with mReadTimeOut when it is active. *)
(* EBADF on a closed socket is VSocketClosedException in the bsd build;   *)
(* Win32 tests errno, which Winsock does not set, for EINTR, so an        *)
(* interrupted select either loops or throws.                             *)
SelectRead ==
  /\ rpc = "select"
  /\ \/ /\ ~sockOpen
        /\ ReadFails(IF platform = "bsd" THEN "closed" ELSE "error")
        /\ UNCHANGED signals
     \/ /\ sockOpen /\ ~Readable /\ signals < MaxSignals
        /\ signals' = signals + 1
        /\ \/ rpc' = "select" /\ UNCHANGED <<delivered, lastError>>
           \/ platform = "win" /\ ReadFails("error")
     \/ /\ sockOpen /\ Readable
        /\ rpc' = "recv"
        /\ UNCHANGED <<delivered, lastError, signals>>
     \/ /\ sockOpen /\ ~Readable /\ ReadTimeOutActive
        /\ ReadFails(IF platform = "win" THEN "readTimeout" ELSE "timeout")
        /\ UNCHANGED signals
  /\ UNCHANGED <<remaining, during, retry, actualRead, numBytesRead, reads,
                 rxLog, rxLogs, build, sockOpen, nonBlocking, apc, avails,
                 writerVars, sent, inbuf, fin, reset>>

(* After a chunk: loop while bytes remain, else leave the loop, add the   *)
(* statistics log and return.                                             *)
ReadContinues(rem, log) ==
  IF rem > 0
    THEN /\ rpc' = LoopTop
         /\ UNCHANGED <<delivered, rxLogs, lastError>>
    ELSE ReadReturns(rem, log)

(* Mutant: the whole kernel buffer is taken, past bytesRemainingToRead. *)
RecvDataWholeBuffer ==
  /\ rpc = "recv" /\ sockOpen /\ ~reset /\ inbuf > 0
  /\ \E k \in 1..inbuf :
       /\ inbuf' = inbuf - k
       /\ actualRead' = k
       /\ rxLog' = LogStep(rxLog, k)
       /\ remaining' = remaining - k
       /\ during' = during + k
       /\ numBytesRead' = numBytesRead + k
       /\ ReadContinues(remaining - k, LogStep(rxLog, k))
  /\ UNCHANGED <<retry, reads, build, sockOpen, nonBlocking, apc, avails,
                 writerVars, sent, fin, reset, signals>>

(* recv / WSARecv returns k > 0 bytes. *)
RecvData ==
  /\ rpc = "recv" /\ sockOpen /\ ~reset /\ inbuf > 0
  /\ \E k \in 1..Min({inbuf, remaining}) :
       /\ inbuf' = inbuf - k
       /\ actualRead' = k
       /\ rxLog' = LogStep(rxLog, k)
       /\ remaining' = remaining - k
       /\ during' = during + k
       /\ numBytesRead' = numBytesRead + k
       /\ ReadContinues(remaining - k, LogStep(rxLog, k))
  /\ UNCHANGED <<retry, reads, build, sockOpen, nonBlocking, apc, avails,
                 writerVars, sent, fin, reset, signals>>

(* recv returns 0: the peer closed.  With mRequireReadAll this throws     *)
(* (VSocketClosedException; VEOFException on Win32), otherwise the loop   *)
(* breaks and the call returns what it has.                               *)
RecvEof ==
  /\ rpc = "recv" /\ sockOpen /\ ~reset /\ inbuf = 0 /\ fin
  /\ actualRead' = 0
  /\ rxLog' = LogStep(rxLog, 0)
  /\ IF RequireReadAll
       THEN ReadFails(IF platform = "win" THEN "eof" ELSE "closed")
            /\ UNCHANGED rxLogs
       ELSE ReadReturns(remaining, LogStep(rxLog, 0))
  /\ UNCHANGED <<remaining, during, retry, numBytesRead, reads, build,
                 sockOpen, nonBlocking, apc, avails, writerVars, peerVars>>

(* recv fails on a closed or reset socket.  WSARecv's out-parameter is    *)
(* not written on failure: actualBytesRead keeps the count of the         *)
(* previous WSARecv of the call or is zeroed, and completeTransaction is  *)
(* called with it before the error is tested.                             *)
RecvError ==
  /\ rpc = "recv" /\ (~sockOpen \/ reset)
  /\ \E a \in {actualRead, 0} :
       /\ actualRead' = a
       /\ rxLog' = LogStep(rxLog, a)
  /\ ReadFails("error")
  /\ UNCHANGED <<remaining, during, retry, numBytesRead, reads, rxLogs,
                 build, sockOpen, nonBlocking, apc, avails, writerVars,
                 peerVars>>

(* Mutant: WSAEWOULDBLOCK is retried without a bound. *)
RecvWouldBlockNoCap ==
  /\ rpc = "recv" /\ platform = "win" /\ nonBlocking /\ sockOpen /\ ~reset
  /\ \E a \in {actualRead, 0} :
       /\ actualRead' = a
       /\ rxLog' = LogStep(rxLog, a)
  /\ rpc' = "select"
  /\ UNCHANGED <<retry, delivered, lastError>>
  /\ UNCHANGED <<remaining, during, numBytesRead, reads, rxLogs, build,
                 sockOpen, nonBlocking, apc, avails, writerVars, peerVars>>

(* WSAEWOULDBLOCK from WSARecv on a socket left non-blocking: retry after *)
(* 10 ms while currentRetryCountForWSAWOULDBLOCKError < MAX (it starts at *)
(* 1 and is not reset when a later WSARecv succeeds), then throw.         *)
RecvWouldBlock ==
  /\ rpc = "recv" /\ platform = "win" /\ nonBlocking /\ sockOpen /\ ~reset
  /\ \E a \in {actualRead, 0} :
       /\ actualRead' = a
       /\ rxLog' = LogStep(rxLog, a)
  /\ IF retry < MAX_RETRY_ATTEMPTS_FOR_WSAWOULDBLOCK_ERROR
       THEN /\ retry' = retry + 1
            /\ rpc' = "select"
            /\ UNCHANGED <<delivered, lastError>>
       ELSE ReadFails("error") /\ UNCHANGED retry
  /\ UNCHANGED <<remaining, during, numBytesRead, reads, rxLogs, build,
                 sockOpen, nonBlocking, apc, avails, writerVars, peerVars>>

(* A blocking recv with nothing to report waits in the kernel.  A signal  *)
(* makes it return -1 with EINTR, which the unix builds throw; closing    *)
(* the socket from another thread wakes it on Win32 only: close(2) on     *)
(* Linux leaves a thread blocked in recv on the same descriptor.          *)
RecvBlocks ==
  /\ rpc = "recv" /\ sockOpen /\ ~Readable
  /\ ~(platform = "win" /\ nonBlocking)
  /\ rpc' = "blocked"
  /\ UNCHANGED <<remaining, during, retry, actualRead, numBytesRead,
                 delivered, reads, rxLog, rxLogs, lastError, build,
                 sockOpen, nonBlocking, apc, avails, writerVars, peerVars>>

RecvWakes ==
  /\ rpc = "blocked"
  /\ Readable \/ (~sockOpen /\ platform = "win")
  /\ rpc' = "recv"
  /\ UNCHANGED <<remaining, during, retry, actualRead, numBytesRead,
                 delivered, reads, rxLog, rxLogs, lastError, build,
                 sockOpen, nonBlocking, apc, avails, writerVars, peerVars>>

RecvInterrupted ==
  /\ rpc = "blocked" /\ platform # "win" /\ signals < MaxSignals
  /\ signals' = signals + 1
  /\ ReadFails("error")
  /\ UNCHANGED <<remaining, during, retry, actualRead, numBytesRead, reads,
                 rxLog, rxLogs, build, sockOpen, nonBlocking, apc, avails,
                 writerVars, sent, inbuf, fin, reset>>

-----------------------------------------------------------------------------
(* VSocket::write: the same loop with select for writing and send /       *)
(* WSASend; send returning <= 0 or SOCKET_ERROR throws and the writer     *)
(* stops.  The send buffer is not modelled: a select for writing reports  *)
(* the socket writable or, with mWriteTimeOutActive, times out.           *)
WriteInvalid ==
  /\ wpc = "idle" /\ writes < MaxWrites /\ ~sockOpen
  /\ writes' = writes + 1
  /\ wpc' = "stopped"
  /\ UNCHANGED <<wremaining, actualWritten, numBytesWritten, txLog, txLogs,
                 build, sockOpen, nonBlocking, apc, avails, readerVars,
                 peerVars>>

WriteCall ==
  /\ wpc = "idle" /\ writes < MaxWrites /\ sockOpen
  /\ writes' = writes + 1
  /\ wpc' = WLoopTop
  /\ wremaining' = WriteSize /\ actualWritten' = 0 /\ txLog' = NoLog
  /\ UNCHANGED <<numBytesWritten, txLogs, build, sockOpen, nonBlocking,
                 apc, avails, readerVars, peerVars>>

SelectWrite ==
  /\ wpc = "select"
  /\ \/ ~sockOpen /\ wpc' = "stopped" /\ UNCHANGED signals
     \/ /\ sockOpen /\ signals < MaxSignals
        /\ signals' = signals + 1
        /\ \/ wpc' = "select"
           \/ platform = "win" /\ wpc' = "stopped"
     \/ sockOpen /\ wpc' = "send" /\ UNCHANGED signals
     \/ sockOpen /\ WriteTimeOutActive /\ wpc' = "stopped"
        /\ UNCHANGED signals
  /\ UNCHANGED <<wremaining, actualWritten, numBytesWritten, writes, txLog,
                 txLogs, build, sockOpen, nonBlocking, apc, avails,
                 readerVars, sent, inbuf, fin, reset>>

SendData ==
  /\ wpc = "send" /\ sockOpen /\ ~reset
  /\ \E k \in 1..wremaining :
       /\ actualWritten' = k
       /\ txLog' = LogStep(txLog, k)
       /\ wremaining' = wremaining - k
       /\ numBytesWritten' = numBytesWritten + k
       /\ IF wremaining - k > 0
            THEN wpc' = WLoopTop /\ UNCHANGED txLogs
            ELSE /\ wpc' = "idle"
                 /\ txLogs' = IF Capturing /\ platform = "win"
                                THEN addTransactionLog(txLogs, LogStep(txLog, k))
                                ELSE txLogs
  /\ UNCHANGED <<writes, build, sockOpen, nonBlocking, apc, avails,
                 readerVars, peerVars>>

SendError ==
  /\ wpc = "send" /\ (~sockOpen \/ reset)
  /\ \E a \in {actualWritten, 0} :
       /\ actualWritten' = a
       /\ txLog' = LogStep(txLog, a)
  /\ wpc' = "stopped"
  /\ UNCHANGED <<wremaining, numBytesWritten, writes, txLogs, build,
                 sockOpen, nonBlocking, apc, avails, readerVars, peerVars>>

-----------------------------------------------------------------------------
(* VSocket::available on Win32: FIONREAD; when it reports 0, set FIONBIO, *)
(* peek, and restore blocking mode.  Either WSAIoctl can fail and throw;  *)
(* a failed restore leaves the socket non-blocking for every later read.  *)
AvailableReturns ==
  /\ apc = "idle" /\ platform = "win" /\ avails < MaxAvailable
  /\ ~sockOpen \/ inbuf > 0
  /\ avails' = avails + 1
  /\ UNCHANGED <<build, sockOpen, nonBlocking, apc, readerVars,
                 writerVars, peerVars>>

AvailableSetNonBlocking ==
  /\ apc = "idle" /\ platform = "win" /\ avails < MaxAvailable
  /\ sockOpen /\ inbuf = 0
  /\ avails' = avails + 1
  /\ \/ nonBlocking' = TRUE /\ apc' = "peek"
     \/ UNCHANGED <<nonBlocking, apc>>
  /\ UNCHANGED <<build, sockOpen, readerVars, writerVars, peerVars>>

AvailableRestore ==
  /\ apc = "peek"
  /\ apc' = "idle"
  /\ nonBlocking' \in {FALSE, nonBlocking}
  /\ UNCHANGED <<build, sockOpen, avails, readerVars, writerVars,
                 peerVars>>

-----------------------------------------------------------------------------
(* VSocketBase::close from another thread: closesocket / close, then      *)
(* mSocketID = kNoSocketID.                                               *)
Close ==
  /\ sockOpen
  /\ sockOpen' = FALSE
  /\ UNCHANGED <<build, nonBlocking, apc, avails, readerVars, writerVars,
                 peerVars>>

(* The peer. *)
PeerSend ==
  /\ sent < MaxBytes /\ ~fin /\ ~reset
  /\ sent' = sent + 1 /\ inbuf' = inbuf + 1
  /\ UNCHANGED <<fin, reset, signals, build, sockOpen, nonBlocking, apc,
                 avails, readerVars, writerVars>>

PeerClose ==
  /\ ~fin /\ ~reset
  /\ fin' = TRUE
  /\ UNCHANGED <<sent, inbuf, reset, signals, build, sockOpen,
                 nonBlocking, apc, avails, readerVars, writerVars>>

PeerReset ==
  /\ ~reset
  /\ reset' = TRUE
  /\ UNCHANGED <<sent, inbuf, fin, signals, build, sockOpen, nonBlocking,
                 apc, avails, readerVars, writerVars>>

-----------------------------------------------------------------------------
ReaderStep ==
  \/ SelectRead \/ RecvData \/ RecvEof \/ RecvError \/ RecvWouldBlock
  \/ RecvBlocks \/ RecvWakes

WriterStep == SelectWrite \/ SendData \/ SendError

Next ==
  \/ ReadInvalid \/ ReadCall \/ ReaderStep \/ RecvInterrupted
  \/ WriteInvalid \/ WriteCall \/ WriterStep
  \/ AvailableReturns \/ AvailableSetNonBlocking \/ AvailableRestore
  \/ Close \/ PeerSend \/ PeerClose \/ PeerReset

(* The reader, writer and available() threads run while they can; the     *)
(* callers, the closing thread, the peer and signals need not act.        *)
Spec ==
  /\ Init /\ [][Next]_vars
  /\ WF_vars(ReaderStep) /\ WF_vars(WriterStep) /\ WF_vars(AvailableRestore)

-----------------------------------------------------------------------------
(* Properties                                                             *)

(* The caller's count of received bytes never falls behind the stream:    *)
(* while it still reads, the bytes returned by read, plus those reported  *)
(* by a VSocketReadTimedOutException, plus those taken by the call in     *)
(* progress, are all the bytes recv took out of the kernel.  A call that  *)
(* returned a wrong count, or a time-out that reported a wrong count,     *)
(* would leave the caller's framing off by the difference.                *)
StreamAccounted ==
  rpc # "stopped" =>
    delivered + (IF rpc \in InCall THEN during ELSE 0) = sent - inbuf

(* With a read time-out set, every read call returns or throws, whatever  *)
(* the peer does (the transport is "a blocking TCP endpoint with          *)
(* timeouts").                                                            *)
ReadTerminates ==
  ReadTimeOutActive => [](rpc \in InCall => <>(rpc \notin InCall))

(* The same for the builds that select before every recv (Win32, and the *)
(* bsd build on a descriptor within FD_SETSIZE): the time-out bounds each *)
(* wait, and the WSAEWOULDBLOCK retries are bounded, so no call loops or  *)
(* waits for ever.                                                        *)
SelectReadTerminates ==
  (SelectsFirst /\ ReadTimeOutActive) =>
    [](rpc \in InCall => <>(rpc \notin InCall))

(* The NetworkRxTransactionLog of a Win32 read call counts exactly the    *)
(* bytes the call has received; it is the log added to the session's Rx  *)
(* history when the call returns.                                         *)
LogTracksReceive ==
  (Capturing /\ platform = "win" /\ rpc \in InCall) => rxLog.bytes = during
=============================================================================
