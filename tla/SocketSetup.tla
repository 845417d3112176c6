----------------------------- MODULE SocketSetup -----------------------------
(***************************************************************************)
(* Setting up a VSocket: VSocket::_connect, VSocket::_listen, the ICMP     *)
(* probe VSocket::getIPStatus with VSocket::checkIsValidPort, and          *)
(* VSocketBase::close, in the four variants the repository builds:         *)
(*   "unix"        src/_unix/vsocket.cpp                                   *)
(*   "win"         src/source/sockets/_win/vsocket.cpp                     *)
(*   "bsd"         src/source/sockets/_unix/vsocket.cpp, plain sockets     *)
(*   "bsdEnhanced" the same file under V_BSD_ENHANCED_SOCKETS              *)
(* The "unix" and "win" connect create one socket, then try every IPv4     *)
(* address resolveHostName returns, closing the socket after a failed     *)
(* attempt.  The "bsdEnhanced" connect creates a socket per address.       *)
(*                                                                         *)
(* The process's descriptor table is shared with another thread that      *)
(* opens and closes sockets of its own.  Descriptor numbers are 1..NFds;  *)
(* POSIX hands out the lowest free number, Winsock any free handle.  0 is *)
(* kNoSocketID.  Every system call that can fail fails                    *)
(* nondeterministically; a host name resolves to a list of addresses,     *)
(* each IPv4 or IPv6 and each accepting a connection or not.              *)
(*                                                                         *)
(* The probe's echo request is built byte by byte as in the code and its  *)
(* checksum computed by _in_cksum; the reference is RFC 1071's one's-     *)
(* complement sum with end-around carry.                                  *)
(***************************************************************************)
EXTENDS Naturals, Sequences, FiniteSetsExt

CONSTANTS
  Platforms,        \* the builds considered: a subset of PlatformNames
  NFds,             \* descriptor numbers of the process
  MaxAddrs,         \* addresses a name resolves to
  MaxOps,           \* connect, listen and probe calls on the VSocket
  MaxOther,         \* socket calls of the other thread
  Ids,              \* 16-bit values rand() leaves in id and sequence
  MAX_RETRY_COUNT   \* 3 in the code

PlatformNames == {"unix", "win", "bsd", "bsdEnhanced"}
Legacy == {"unix", "win"}

ASSUME Platforms \subseteq PlatformNames /\ Platforms # {}

Fds == 1..NFds
kNoSocketID == 0
Addr == [fam : {"v4", "v6"}, ok : BOOLEAN]
(* <<>>: getaddrinfo fails, or resolves no address, and resolveHostName   *)
(* throws.                                                                *)
Resolutions == {<<>>} \cup UNION {[1..n -> Addr] : n \in 1..MaxAddrs}

-----------------------------------------------------------------------------
(* _in_cksum over a buffer of bytes.  *ptr reads a little-endian 16-bit   *)
(* word; an odd last byte is copied into the low byte of oddbyte.  The    *)
(* sum is folded twice and complemented into an unsigned short.           *)
Word(b, i) == b[2 * i - 1] + 256 * b[2 * i]

RECURSIVE WordSum(_, _)
WordSum(b, i) == IF 2 * i > Len(b) THEN 0 ELSE Word(b, i) + WordSum(b, i + 1)

(* Mutant: the second fold is left out.                                   *)
in_cksumOneFold(b) ==
  LET sum0 == WordSum(b, 1) + (IF Len(b) % 2 = 1 THEN b[Len(b)] ELSE 0)
      sum1 == (sum0 \div 65536) + (sum0 % 65536)
  IN  65535 - (sum1 % 65536)

in_cksum(b) ==
  LET sum0 == WordSum(b, 1) + (IF Len(b) % 2 = 1 THEN b[Len(b)] ELSE 0)
      sum1 == (sum0 \div 65536) + (sum0 % 65536)
      sum2 == sum1 + sum1 \div 65536
  IN  65535 - (sum2 % 65536)

(* The echo request of getIPStatus: icmphdr {type ICMP_ECHO, code 0,       *)
(* checksum, id, sequence}, then 32 payload bytes '^'.                    *)
Packet(id, sq, ck) ==
  <<8, 0, ck % 256, ck \div 256, id % 256, id \div 256, sq % 256, sq \div 256>>
    \o [i \in 1..32 |-> 94]

(* RFC 1071: 16-bit words, an odd byte padded with zero, added with       *)
(* end-around carry.                                                      *)
WordsOf(b) ==
  [i \in 1..(Len(b) + 1) \div 2 |->
     b[2 * i - 1] + (IF 2 * i <= Len(b) THEN 256 * b[2 * i] ELSE 0)]

OnesAdd(x, y) == ((x + y) % 65536) + ((x + y) \div 65536)

RECURSIVE OnesSum(_)
OnesSum(ws) == IF ws = <<>> THEN 0 ELSE OnesAdd(Head(ws), OnesSum(Tail(ws)))

-----------------------------------------------------------------------------
VARIABLES
  platform,       \* the build: fixed for a run
  owner,          \* descriptor -> "none" | "self" | "other": who opened it
  st,             \* descriptor -> "free" | "open" | "connected" | "bound"
                  \*   | "listening"
  otherHeld,      \* numbers the other thread believes are its sockets
  otherOps,       \* sockets the other thread opened
  sockID,         \* mSocketID
  op,             \* "idle" | "connect" | "listen" | "probe"
  pc,             \* the step within op
  caller,         \* "user", or "probe" for checkIsValidPort's connect()
  sid,            \* socketID / listenSockID of _connect and _listen
  resolved,       \* what the host name resolves to, or the passive
                  \*   addresses of a listen
  addrs,          \* the addresses still to try
  bindValid,      \* inet_addr(bindAddress) gave an address
  sockFail,       \* a socket() call of this connect failed
  cres,           \* how checkIsValidPort's connect() ended
  raw, s,         \* getIPStatus's ICMP socket; checkIsValidPort's socket
  retry,          \* retryCount of getIPStatus
  packet,         \* the echo request sent, <<>> before one is built
  result,         \* how the last call returned or what it returned
  lastOp,         \* the last call: "none" | "connect" | "listen" | "probe"
                  \*   | "close"
  ops             \* calls made on the VSocket

fdVars == <<owner, st>>
otherVars == <<otherHeld, otherOps>>
callVars == <<op, pc, caller, cres, result, lastOp, ops>>
connVars == <<sid, resolved, addrs, bindValid, sockFail>>
probeVars == <<raw, s, retry, packet>>
vars == <<platform, fdVars, otherVars, sockID, callVars, connVars, probeVars>>

Results == {"none", "ok", "thrown", "icmpSuccess", "icmpStartUpErr",
            "icmpCreateSockErr", "icmpSendErr", "icmpHostNoReply",
            "icmpReservePort", "SSL_ERROR"}

TypeOK ==
  /\ platform \in Platforms
  /\ owner \in [Fds -> {"none", "self", "other"}]
  /\ st \in [Fds -> {"free", "open", "connected", "bound", "listening"}]
  /\ otherHeld \subseteq Fds /\ otherOps \in 0..MaxOther
  /\ sockID \in Fds \cup {kNoSocketID} /\ sid \in Fds \cup {kNoSocketID}
  /\ raw \in Fds \cup {kNoSocketID} /\ s \in Fds \cup {kNoSocketID}
  /\ op \in {"idle", "connect", "listen", "probe"}
  /\ caller \in {"user", "probe"}
  /\ resolved \in Resolutions /\ addrs \in Seq(Addr)
  /\ bindValid \in BOOLEAN /\ sockFail \in BOOLEAN
  /\ result \in Results /\ cres \in Results
  /\ retry \in 0..MAX_RETRY_COUNT
  /\ ops \in 0..MaxOps

Init ==
  /\ platform \in Platforms
  /\ owner = [f \in Fds |-> "none"] /\ st = [f \in Fds |-> "free"]
  /\ otherHeld = {} /\ otherOps = 0
  /\ sockID = kNoSocketID
  /\ op = "idle" /\ pc = "none" /\ caller = "user" /\ cres = "none"
  /\ result = "none" /\ lastOp = "none" /\ ops = 0
  /\ sid = kNoSocketID /\ resolved = <<>> /\ addrs = <<>>
  /\ bindValid = TRUE /\ sockFail = FALSE
  /\ raw = kNoSocketID /\ s = kNoSocketID /\ retry = 0 /\ packet = <<>>

-----------------------------------------------------------------------------
(* The descriptor table.                                                  *)
FreeFds == {f \in Fds : st[f] = "free"}

(* ::socket / ::WSASocketW succeeds with number f.                        *)
NewSocket(f, who) ==
  /\ f \in FreeFds
  /\ platform = "win" \/ f = Min(FreeFds)
  /\ owner' = [owner EXCEPT ![f] = who]
  /\ st' = [st EXCEPT ![f] = "open"]

(* vault::close / ::closesocket on a number: whoever's socket has it now  *)
(* is closed; a free number fails with EBADF and changes nothing.         *)
CloseFd(f) ==
  IF st[f] = "free" THEN UNCHANGED fdVars
  ELSE /\ owner' = [owner EXCEPT ![f] = "none"]
       /\ st' = [st EXCEPT ![f] = "free"]

(* A call returns r.  connect() called by checkIsValidPort returns to it.  *)
Return(r) ==
  /\ caller' = "user"
  /\ IF caller = "probe"
       THEN op' = "probe" /\ pc' = "kReturn" /\ cres' = r
            /\ UNCHANGED <<result, lastOp>>
       ELSE op' = "idle" /\ pc' = "none" /\ result' = r /\ lastOp' = op
            /\ UNCHANGED cres

-----------------------------------------------------------------------------
(* VSocketBase::connect: _connect, then setDefaultSockOpt, whose           *)
(* setsockopt results are ignored.  The user calls it on any host.        *)
StartConnect ==
  /\ op = "idle" /\ ops < MaxOps
  /\ \E r \in Resolutions : resolved' = r
  /\ op' = "connect" /\ caller' = "user" /\ ops' = ops + 1
  /\ pc' = IF platform = "bsdEnhanced" THEN "cResolve" ELSE "cSocket"
  /\ sid' = kNoSocketID /\ addrs' = <<>> /\ sockFail' = FALSE
  /\ UNCHANGED <<platform, fdVars, otherVars, sockID, cres, result, lastOp,
                 bindValid, probeVars>>

(* unix, win, bsd: the one socket of the call.  If it cannot be created,  *)
(* mSocketID = socketID (kNoSocketID) and _connect returns normally.       *)
ConnSocket ==
  /\ op = "connect" /\ pc = "cSocket" /\ platform # "bsdEnhanced"
  /\ \/ /\ \E f \in Fds : NewSocket(f, "self") /\ sid' = f
        /\ pc' = IF platform = "bsd" THEN "cTry" ELSE "cResolve"
        /\ UNCHANGED <<sockID, sockFail, op, caller, cres, result, lastOp>>
     \/ /\ sockID' = kNoSocketID /\ sockFail' = TRUE
        /\ Return("ok")
        /\ UNCHANGED <<fdVars, sid>>
  /\ UNCHANGED <<platform, otherVars, ops, resolved, addrs, bindValid,
                 probeVars>>

(* unix, win: resolveHostName, after the socket was created; its          *)
(* exception leaves socketID open.  bsdEnhanced: _tcpGetAddrInfo, first.   *)
ConnResolve ==
  /\ op = "connect" /\ pc = "cResolve"
  /\ IF resolved = <<>>
       THEN Return("thrown") /\ UNCHANGED addrs
       ELSE /\ addrs' = resolved
            /\ pc' = IF platform \in Legacy THEN "cTry" ELSE "cSocket"
            /\ UNCHANGED <<op, caller, cres, result, lastOp>>
  /\ UNCHANGED <<platform, fdVars, otherVars, sockID, ops, sid, resolved,
                 bindValid, sockFail, probeVars>>

(* Mutant: a failed socket() returns normally, as the legacy builds do.   *)
ConnSocketEachReturnsOk ==
  /\ op = "connect" /\ pc = "cSocket" /\ platform = "bsdEnhanced"
  /\ \/ /\ \E f \in Fds : NewSocket(f, "self") /\ sid' = f
        /\ pc' = "cTry"
        /\ UNCHANGED <<addrs, sockFail, op, caller, cres, result, lastOp>>
     \/ /\ sockFail' = TRUE /\ Return("ok") /\ UNCHANGED addrs
        /\ UNCHANGED <<fdVars, sid>>
  /\ UNCHANGED <<platform, otherVars, sockID, ops, resolved, bindValid,
                 probeVars>>

(* bsdEnhanced, _tcpConnectWAddrInfo: a socket for the current address;   *)
(* a failed socket() moves on to the next one.                            *)
NextAddress ==
  IF Tail(addrs) = <<>>
    THEN Return("thrown") /\ UNCHANGED addrs
    ELSE /\ addrs' = Tail(addrs) /\ pc' = "cSocket"
         /\ UNCHANGED <<op, caller, cres, result, lastOp>>

ConnSocketEach ==
  /\ op = "connect" /\ pc = "cSocket" /\ platform = "bsdEnhanced"
  /\ \/ /\ \E f \in Fds : NewSocket(f, "self") /\ sid' = f
        /\ pc' = "cTry"
        /\ UNCHANGED <<addrs, sockFail, op, caller, cres, result, lastOp>>
     \/ /\ sockFail' = TRUE /\ NextAddress
        /\ UNCHANGED <<fdVars, sid>>
  /\ UNCHANGED <<platform, otherVars, sockID, ops, resolved, bindValid,
                 probeVars>>

(* The address connect() is called with: the head of the list, or for     *)
(* the plain bsd build inet_addr(mHostName), which is an address only     *)
(* when the name is a single IPv4 literal.                                *)
Target ==
  IF platform = "bsd"
    THEN IF Len(resolved) = 1 /\ resolved[1].fam = "v4" THEN resolved[1]
         ELSE [fam |-> "v4", ok |-> FALSE]
    ELSE Head(addrs)

(* connect() succeeds on an open, unconnected socket to an address that   *)
(* accepts; on a closed number (EBADF) or a connected one it fails.        *)
Accepts(f) == Target.ok /\ st[f] = "open"

(* unix, win: IPv6 addresses are skipped ("all the IPv6s come here").     *)
ConnSkip ==
  /\ op = "connect" /\ pc = "cTry" /\ platform \in Legacy
  /\ addrs # <<>> /\ Head(addrs).fam = "v6"
  /\ addrs' = Tail(addrs)
  /\ UNCHANGED <<platform, fdVars, otherVars, sockID, callVars, sid, resolved,
                 bindValid, sockFail, probeVars>>

(* "the good leg": mSocketID = socketID.                                  *)
ConnAccepted ==
  /\ op = "connect" /\ pc = "cTry"
  /\ platform = "bsd" \/ addrs # <<>>
  /\ platform \in Legacy => Target.fam = "v4"
  /\ Accepts(sid)
  /\ st' = [st EXCEPT ![sid] = "connected"] /\ sockID' = sid
  /\ Return("ok")
  /\ UNCHANGED <<platform, owner, otherVars, ops, connVars, probeVars>>

(* Mutant: every build goes on with the closed socketID, as unix does.    *)
ConnRefusedKeepSid ==
  /\ op = "connect" /\ pc = "cTry"
  /\ platform = "bsd" \/ addrs # <<>>
  /\ platform \in Legacy => Target.fam = "v4"
  /\ ~Accepts(sid)
  /\ CloseFd(sid)
  /\ IF platform = "bsd" THEN Return("thrown") /\ UNCHANGED addrs
     ELSE IF Tail(addrs) = <<>> THEN Return("thrown") /\ UNCHANGED addrs
     ELSE addrs' = Tail(addrs) /\ UNCHANGED <<op, pc, caller, cres, result, lastOp>>
  /\ UNCHANGED <<platform, otherVars, sockID, ops, sid, resolved, bindValid,
                 sockFail, probeVars>>

(* A failed connect() closes socketID.  unix and win go on to the next    *)
(* address with the same, now closed, socketID; bsd throws; bsdEnhanced   *)
(* goes on with a new socket.                                              *)
ConnRefused ==
  /\ op = "connect" /\ pc = "cTry"
  /\ platform = "bsd" \/ addrs # <<>>
  /\ platform \in Legacy => Target.fam = "v4"
  /\ ~Accepts(sid)
  /\ CloseFd(sid)
  /\ CASE platform \in Legacy ->
            addrs' = Tail(addrs) /\ UNCHANGED <<op, pc, caller, cres, result, lastOp>>
       [] platform = "bsd" -> Return("thrown") /\ UNCHANGED addrs
       [] OTHER -> NextAddress
  /\ UNCHANGED <<platform, otherVars, sockID, ops, sid, resolved, bindValid,
                 sockFail, probeVars>>

(* unix, win: no address could be connected to.                           *)
ConnExhausted ==
  /\ op = "connect" /\ pc = "cTry" /\ platform \in Legacy /\ addrs = <<>>
  /\ Return("thrown")
  /\ UNCHANGED <<platform, fdVars, otherVars, sockID, ops, connVars, probeVars>>

-----------------------------------------------------------------------------
(* VSocketBase::listen: _listen(bindAddress, backlog).  bsdEnhanced binds  *)
(* to the passive addresses getaddrinfo returns (resolved) and ignores    *)
(* bindAddress; the others bind to inet_addr(bindAddress).                *)
StartListen ==
  /\ op = "idle" /\ ops < MaxOps
  /\ \E r \in Resolutions : resolved' = r
  /\ bindValid' \in BOOLEAN
  /\ op' = "listen" /\ ops' = ops + 1
  /\ pc' = CASE platform = "bsdEnhanced" -> "lResolve"
             [] platform = "win" -> "lAddr"
             [] OTHER -> "lSocket"
  /\ sid' = kNoSocketID /\ addrs' = <<>>
  /\ UNCHANGED <<platform, fdVars, otherVars, sockID, caller, cres, result,
                 lastOp, sockFail, probeVars>>

(* The rest of the call, unchanged by a listen step.                      *)
ListenKeeps == UNCHANGED <<platform, otherVars, sockID, ops, resolved,
                           bindValid, sockFail, probeVars>>
Stay == UNCHANGED <<op, caller, cres, result, lastOp>>

(* win: an address inet_addr rejects throws before any socket exists.     *)
ListenAddr ==
  /\ op = "listen" /\ pc = "lAddr"
  /\ IF bindValid THEN pc' = "lSocket" /\ Stay ELSE Return("thrown")
  /\ UNCHANGED <<fdVars, sid, addrs>> /\ ListenKeeps

(* bsdEnhanced: getaddrinfo(NULL, port, AI_PASSIVE).                      *)
ListenResolve ==
  /\ op = "listen" /\ pc = "lResolve"
  /\ IF resolved = <<>>
       THEN Return("thrown") /\ UNCHANGED addrs
       ELSE addrs' = resolved /\ pc' = "lSocket" /\ Stay
  /\ UNCHANGED <<fdVars, sid>> /\ ListenKeeps

(* bsdEnhanced: "Error on this interface, we'll try the next one"; when   *)
(* none is left, res is NULL and the last error is thrown.                *)
ListenNext ==
  IF Tail(addrs) = <<>>
    THEN Return("thrown") /\ UNCHANGED addrs
    ELSE addrs' = Tail(addrs) /\ pc' = "lSocket" /\ Stay

ListenSocket ==
  /\ op = "listen" /\ pc = "lSocket"
  /\ \/ /\ \E f \in Fds : NewSocket(f, "self") /\ sid' = f
        /\ pc' = "lSockOpt" /\ Stay /\ UNCHANGED addrs
     \/ /\ IF platform = "bsdEnhanced" THEN ListenNext
           ELSE Return("thrown") /\ UNCHANGED addrs
        /\ UNCHANGED <<fdVars, sid>>
  /\ ListenKeeps

(* setsockopt(SO_REUSEADDR).  Only win closes the socket when it fails.   *)
ListenSockOpt ==
  /\ op = "listen" /\ pc = "lSockOpt"
  /\ \/ /\ pc' = IF platform = "unix" THEN "lFcntl" ELSE "lBind"
        /\ Stay /\ UNCHANGED <<fdVars, addrs>>
     \/ /\ CASE platform = "win" -> CloseFd(sid) /\ Return("thrown")
                                      /\ UNCHANGED addrs
             [] platform = "bsdEnhanced" -> ListenNext /\ UNCHANGED fdVars
             [] OTHER -> Return("thrown") /\ UNCHANGED <<fdVars, addrs>>
  /\ UNCHANGED sid /\ ListenKeeps

(* unix: fcntl(O_NONBLOCK); a failure throws without closing.             *)
ListenFcntl ==
  /\ op = "listen" /\ pc = "lFcntl"
  /\ \/ pc' = "lBind" /\ Stay
     \/ Return("thrown")
  /\ UNCHANGED <<fdVars, sid, addrs>> /\ ListenKeeps

(* bind() fails for an address inet_addr rejected, or for any other       *)
(* reason (EADDRINUSE); the socket is closed.                              *)
ListenBind ==
  /\ op = "listen" /\ pc = "lBind"
  /\ \/ /\ platform \in {"unix", "bsd"} => bindValid
        /\ st' = [st EXCEPT ![sid] = "bound"] /\ pc' = "lListen"
        /\ Stay /\ UNCHANGED <<owner, addrs>>
     \/ /\ CloseFd(sid)
        /\ IF platform = "bsdEnhanced" THEN ListenNext
           ELSE Return("thrown") /\ UNCHANGED addrs
  /\ UNCHANGED sid /\ ListenKeeps

(* Mutant: every build ignores the listen() result.                       *)
ListenListenIgnored ==
  /\ op = "listen" /\ pc = "lListen"
  /\ \/ /\ st' = [st EXCEPT ![sid] = "listening"] /\ sockID' = sid
        /\ Return("ok") /\ UNCHANGED owner
     \/ /\ sockID' = sid /\ Return("ok") /\ UNCHANGED fdVars
  /\ UNCHANGED <<platform, otherVars, ops, connVars, probeVars>>

(* listen().  unix and bsd discard its result and test the bind result    *)
(* again, so the call returns normally either way.                        *)
ListenListen ==
  /\ op = "listen" /\ pc = "lListen"
  /\ \/ /\ st' = [st EXCEPT ![sid] = "listening"] /\ sockID' = sid
        /\ Return("ok") /\ UNCHANGED owner
     \/ /\ platform \in {"unix", "bsd"}
        /\ sockID' = sid /\ Return("ok") /\ UNCHANGED fdVars
     \/ /\ platform \in {"win", "bsdEnhanced"}
        /\ CloseFd(sid) /\ Return("thrown") /\ UNCHANGED sockID
  /\ UNCHANGED <<platform, otherVars, ops, connVars, probeVars>>

-----------------------------------------------------------------------------
(* VSocket::getIPStatus(ipAddr, port), unix and win.  Neither the ICMP    *)
(* socket nor the buffers are ever released.                              *)
StartProbe ==
  /\ op = "idle" /\ ops < MaxOps /\ platform \in Legacy
  /\ op' = "probe" /\ pc' = "pRaw" /\ ops' = ops + 1
  /\ raw' = kNoSocketID /\ s' = kNoSocketID /\ retry' = 0 /\ packet' = <<>>
  /\ UNCHANGED <<platform, fdVars, otherVars, sockID, caller, cres, result,
                 lastOp, connVars>>

ProbeKeeps == UNCHANGED <<platform, otherVars, sockID, ops, connVars>>

(* win: WSAStartup; then socket(AF_INET, SOCK_RAW, IPPROTO_ICMP), and the  *)
(* echo request with id and sequence from rand() and its checksum.        *)
ProbeRaw ==
  /\ op = "probe" /\ pc = "pRaw"
  /\ \/ /\ platform = "win" /\ Return("icmpStartUpErr")
        /\ UNCHANGED <<fdVars, raw, packet>>
     \/ /\ Return("icmpCreateSockErr") /\ UNCHANGED <<fdVars, raw, packet>>
     \/ /\ \E f \in Fds : NewSocket(f, "self") /\ raw' = f
        /\ \E id, sq \in Ids :
             packet' = Packet(id, sq, in_cksum(Packet(id, sq, 0)))
        /\ pc' = "pSend" /\ Stay
  /\ UNCHANGED <<s, retry>> /\ ProbeKeeps

(* Mutant: the loop runs while retry <= MAX_RETRY_COUNT.                  *)
ProbeSendOffByOne ==
  /\ op = "probe" /\ pc = "pSend"
  /\ \/ retry > MAX_RETRY_COUNT /\ Return("icmpHostNoReply")
     \/ retry <= MAX_RETRY_COUNT /\ Return("icmpSendErr")
     \/ retry <= MAX_RETRY_COUNT /\ pc' = "pSelect" /\ Stay
  /\ UNCHANGED <<fdVars, probeVars>> /\ ProbeKeeps

(* The loop head: MAX_RETRY_COUNT attempts, then send / sendto.           *)
ProbeSend ==
  /\ op = "probe" /\ pc = "pSend"
  /\ \/ retry = MAX_RETRY_COUNT /\ Return("icmpHostNoReply")
     \/ retry < MAX_RETRY_COUNT /\ Return("icmpSendErr")
     \/ retry < MAX_RETRY_COUNT /\ pc' = "pSelect" /\ Stay
  /\ UNCHANGED <<fdVars, probeVars>> /\ ProbeKeeps

(* select with a one-second time-out: a reply goes on to                  *)
(* checkIsValidPort, unless (unix) recv fails with EPIPE and throws; none *)
(* counts a retry and sleeps.                                             *)
ProbeSelect ==
  /\ op = "probe" /\ pc = "pSelect"
  /\ \/ pc' = "kPort" /\ UNCHANGED retry /\ Stay
     \/ platform = "unix" /\ Return("thrown") /\ UNCHANGED retry
     \/ pc' = "pSend" /\ retry' = retry + 1 /\ Stay
  /\ UNCHANGED <<fdVars, raw, s, packet>> /\ ProbeKeeps

(* checkIsValidPort: reserved ports, WSAStartup (win), a socket s that is *)
(* never used, then setHostAndPort(ip, port) and connect() on this very   *)
(* VSocket; ip is an IPv4 literal, whose port accepts or not.             *)
CheckPort ==
  /\ op = "probe" /\ pc = "kPort"
  /\ \/ /\ Return("icmpReservePort") /\ UNCHANGED <<fdVars, s, connVars>>
     \/ /\ platform = "win" /\ Return("icmpStartUpErr")
        /\ UNCHANGED <<fdVars, s, connVars>>
     \/ /\ Return(IF platform = "unix" THEN "icmpCreateSockErr" ELSE "icmpStartUpErr")
        /\ UNCHANGED <<fdVars, s, connVars>>
     \/ /\ \E f \in Fds : NewSocket(f, "self") /\ s' = f
        /\ \E ok \in BOOLEAN : resolved' = <<[fam |-> "v4", ok |-> ok]>>
        /\ op' = "connect" /\ caller' = "probe" /\ pc' = "cSocket"
        /\ sid' = kNoSocketID /\ addrs' = <<>> /\ sockFail' = FALSE
        /\ UNCHANGED <<cres, result, lastOp, bindValid>>
  /\ UNCHANGED <<platform, otherVars, sockID, ops, raw, retry, packet>>

(* connect() returned or threw: closesocket(s), then icmpPortValid        *)
(* (getIPStatus returns icmpSuccess) or SSL_ERROR.                        *)
CheckPortReturn ==
  /\ op = "probe" /\ pc = "kReturn"
  /\ CloseFd(s)
  /\ Return(IF cres = "ok" THEN "icmpSuccess" ELSE "SSL_ERROR")
  /\ UNCHANGED probeVars /\ ProbeKeeps

(* Mutant: close leaves mSocketID set.                                    *)
CloseKeepsID ==
  /\ op = "idle" /\ sockID # kNoSocketID
  /\ CloseFd(sockID) /\ lastOp' = "close"
  /\ UNCHANGED <<platform, otherVars, sockID, op, pc, caller, cres, result,
                 ops, connVars, probeVars>>

-----------------------------------------------------------------------------
(* VSocketBase::close.                                                    *)
Close ==
  /\ op = "idle" /\ sockID # kNoSocketID
  /\ CloseFd(sockID) /\ sockID' = kNoSocketID /\ lastOp' = "close"
  /\ UNCHANGED <<platform, otherVars, op, pc, caller, cres, result, ops,
                 connVars, probeVars>>

(* Another thread of the process opens and closes its own sockets.        *)
OtherOpen ==
  /\ otherOps < MaxOther
  /\ \E f \in Fds : NewSocket(f, "other") /\ otherHeld' = otherHeld \cup {f}
  /\ otherOps' = otherOps + 1
  /\ UNCHANGED <<platform, sockID, callVars, connVars, probeVars>>

OtherClose ==
  /\ \E f \in otherHeld : CloseFd(f) /\ otherHeld' = otherHeld \ {f}
  /\ UNCHANGED <<otherOps, platform, sockID, callVars, connVars, probeVars>>

Next ==
  \/ StartConnect \/ ConnSocket \/ ConnResolve \/ ConnSocketEach
  \/ ConnSkip \/ ConnAccepted \/ ConnRefused \/ ConnExhausted
  \/ StartListen \/ ListenAddr \/ ListenResolve \/ ListenSocket
  \/ ListenSockOpt \/ ListenFcntl \/ ListenBind \/ ListenListen
  \/ StartProbe \/ ProbeRaw \/ ProbeSend \/ ProbeSelect \/ CheckPort
  \/ CheckPortReturn
  \/ Close \/ OtherOpen \/ OtherClose

Spec == Init /\ [][Next]_vars

-----------------------------------------------------------------------------
(* Properties                                                             *)

(* The echo request getIPStatus sends passes the receiver's check: its     *)
(* one's-complement sum, checksum included, is all ones.                  *)
ChecksumVerifies ==
  packet # <<>> => OnesSum(WordsOf(packet)) = 65535

(* connect() throws only if no IPv4 address of the host accepts, unless   *)
(* the system refused a socket: "This ip address failed - the next one    *)
(* may pass".                                                              *)
ConnectSucceedsIfAnyAccepts ==
  (op = "idle" /\ lastOp = "connect" /\ result = "thrown" /\ ~sockFail) =>
    \A i \in DOMAIN resolved : ~(resolved[i].fam = "v4" /\ resolved[i].ok)

(* A connect() that returns normally leaves mSocketID a connected socket  *)
(* of this VSocket.                                                        *)
ConnectReturnsConnected ==
  (op = "idle" /\ lastOp = "connect" /\ result = "ok") =>
    sockID # kNoSocketID /\ owner[sockID] = "self" /\ st[sockID] = "connected"

(* A listen() that returns normally leaves mSocketID a listening socket   *)
(* of this VSocket.                                                        *)
ListenReturnsListening ==
  (op = "idle" /\ lastOp = "listen" /\ result = "ok") =>
    sockID # kNoSocketID /\ owner[sockID] = "self" /\ st[sockID] = "listening"

(* No step of the VSocket closes, connects or binds a socket that the     *)
(* other thread opened and still holds.                                   *)
ForeignFdsKept ==
  otherHeld' = otherHeld =>
    \A f \in otherHeld : owner[f] = "other" => st'[f] = st[f]

NoForeignFdTouched == [][ForeignFdsKept]_vars

(* Between calls, every socket the VSocket opened is mSocketID: no call   *)
(* leaks a descriptor.                                                    *)
FdsReleased ==
  op = "idle" => \A f \in Fds : owner[f] = "self" => f = sockID

(* The properties above, for the BSD enhanced build (the one where every  *)
(* VSocket call is meant to hold them): the run over all builds checks     *)
(* them there, the other builds' violations are the findings.              *)
EnhancedConnectSucceedsIfAnyAccepts ==
  platform = "bsdEnhanced" => ConnectSucceedsIfAnyAccepts

EnhancedConnectReturnsConnected ==
  platform = "bsdEnhanced" => ConnectReturnsConnected

EnhancedListenReturnsListening ==
  platform = "bsdEnhanced" => ListenReturnsListening

EnhancedNoForeignFdTouched ==
  [][platform = "bsdEnhanced" => ForeignFdsKept]_vars
====
