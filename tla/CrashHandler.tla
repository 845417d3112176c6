---------------------------- MODULE CrashHandler ----------------------------
(***************************************************************************)
(* The Windows crash handler of src/source/toolbox/stack_crawler.cpp      *)
(* (ENABLE_WINDOWS_STACK_CRAWLER with VAULT_USER_STACKCRAWL_SUPPORT):      *)
(* the per-thread StackCrawlThreadInfo registry, the unhandled-exception   *)
(* filter _stackCrawlExceptionFilter that runs on the crashing thread, the *)
(* STDLOG writer _writeCrashDumpToStandardLogFile under its crashDumpMutex *)
(* with the isInExceptionHandler recursion guard, the on-demand            *)
(* VThread::logStackCrawl under logStackCrawlSynchronizer, thread start    *)
(* and exit through userThreadMain, and the configuration setters.         *)
(*                                                                         *)
(* The Linux build has no filter: userThreadMain removes the previous      *)
(* ./XPS-Crash-Dump.dump and installs RegisterApplicationExceptionHandlerLinux *)
(* for SIGINT, SIGSEGV and SIGABRT, and the handler writes the stack trace *)
(* to that file and ends the process with raise(SIGABRT).  Dispositions    *)
(* are per process; the handler runs on the thread the signal is           *)
(* delivered to, with frames of its own (hstack).                          *)
(*                                                                         *)
(* Each thread runs a call stack of program counters: a filter can be      *)
(* entered from a fault inside the dump code of the same thread, and its   *)
(* recursion guard is what the properties are about.  When a filter        *)
(* returns, the operating system ends the process: exit records how.       *)
(***************************************************************************)
EXTENDS Naturals, Sequences, FiniteSets

CONSTANTS
  Platforms,      \* builds considered: a subset of {"win", "linux"}
  LinuxSignals,   \* signals that can arrive on Linux: a subset of LinuxSigs
  Threads,        \* thread ids (model values)
  Main,           \* the thread that called RegisterApplicationExceptionHandler
  StdlogChoices,  \* generateStdlog values passed to configureCrashHandler
  DumpChoices,    \* dump types passed to configureCrashHandler/setCrashDumpType
  MaxDemands,     \* bound on on-demand logStackCrawl calls
  MaxStarts       \* bound on thread starts (thread ids are reused)

ASSUME Main \in Threads

DumpTypes == {"None", "Tiny", "Full"}

ASSUME StdlogChoices \subseteq BOOLEAN /\ DumpChoices \subseteq DumpTypes

NoThread == "none"

VARIABLES
  life,            \* "idle" (no thread has the id), "main", "user", "foreign"
  info,            \* gStackCrawlThreadInfoMap: "none", or the fIsInExceptionHandler
                   \*   flag of the registered StackCrawlThreadInfo: "ready"/"busy"
  stack,           \* the thread's nested handler calls, innermost last
  added,           \* logStackCrawl's threadInfoAdded
  toLogger,        \* logStackCrawl's logger argument is not NULL
  code,            \* the exception code of the thread's fault: "nomem" or "other"
  report,          \* what the crash handling of the thread wrote
  crashDumpMutex,  \* owner of the static VMutex of _writeCrashDumpToStandardLogFile
  synchronizer,    \* owner of VThread::logStackCrawlSynchronizer
  emergency,       \* gSEHEmergencyMemory: "block" or "null"
  frees,           \* ::free calls made on the emergency block
  generateStdlog,  \* gGenerateStdlog
  dumpType,        \* gDumpTypeToGenerate
  dumpConfigured,  \* gDumpTypeConfigured (getDefaultCrashDumpType)
  snapDump,        \* stackCrawlerSettings.DumpTypeToGenerate of the thread's filter
  demands,         \* logStackCrawl calls made so far
  starts,          \* thread starts so far
  exit,            \* "running", or how a filter ended the process
  platform,        \* the build
  disp,            \* Linux: the disposition of each signal, "dfl" or "handler"
  dumpFile,        \* Linux: ./XPS-Crash-Dump.dump: "none", "stale" (from an
                   \*   earlier run), "empty" (created), "written"
  hstack,          \* Linux: the thread's running signal handlers, innermost last
  handled          \* Linux: a handler was entered for a signal from outside

vars == <<life, info, stack, added, toLogger, code, report, crashDumpMutex,
          synchronizer, emergency, frees, generateStdlog, dumpType, dumpConfigured,
          snapDump, demands, starts, exit, platform, disp, dumpFile, hstack,
          handled>>

linuxVars == <<platform, disp, dumpFile, hstack, handled>>

LinuxSigs == {"SIGSEGV", "SIGABRT", "SIGINT"}

(* Where a signal entering the handler comes from: a fault, a call of      *)
(* abort(), Ctrl-C, or the handler's own raise(SIGABRT) ("raise").         *)
Origin == [s \in LinuxSigs |-> CASE s = "SIGSEGV" -> "fault"
                                 [] s = "SIGABRT" -> "abort"
                                 [] s = "SIGINT"  -> "int"]

HPCs == {"hDfl", "hOpen", "hWrite", "hRearm", "hRaise", "hRet"}

PCs == {"lLock", "lLogger", "lGen", "fLookup", "fFree", "fClear", "fDone",
        "wLock", "wWrite"}

Top(t) == stack[t][Len(stack[t])]
Pop(t) == stack' = [stack EXCEPT ![t] = SubSeq(@, 1, Len(@) - 1)]
Goto(t, pc) == stack' = [stack EXCEPT ![t] = [@ EXCEPT ![Len(@)] = pc]]
Call(t, here, pc) == stack' = [stack EXCEPT ![t] = SubSeq(@, 1, Len(@) - 1) \o <<here, pc>>]
(* exit while the process runs *)
Running == [thread |-> NoThread, how |-> "running", nested |-> FALSE,
            configured |-> FALSE, wrote |-> {}]
Alive == exit.how = "running"
Idle(t) == life[t] # "idle" /\ stack[t] = <<>> /\ hstack[t] = <<>>

(* The filter's return makes the OS end the process.  nested: the fault   *)
(* happened inside handler code of the same thread.                        *)
Terminate(t, how) ==
  exit' = [thread |-> t, how |-> how, nested |-> Len(stack[t]) > 1,
           configured |-> generateStdlog \/ dumpType # "None",
           wrote |-> report[t]]

(* RegisterApplicationExceptionHandler (Windows): allocate the emergency   *)
(* block, register the main thread and install the filter.  The process   *)
(* starts with the DEFAULT_DUMP_TYPE (Full) and gGenerateStdlog = true.    *)
(* On Linux nothing is registered or installed before a VThread starts,   *)
(* and a dump of an earlier run may be on disk.                            *)
Init ==
  /\ platform \in Platforms
  /\ life = [t \in Threads |-> IF t = Main THEN "main" ELSE "idle"]
  /\ info = [t \in Threads |-> IF t = Main /\ platform = "win" THEN "ready" ELSE "none"]
  /\ stack = [t \in Threads |-> <<>>]
  /\ added = [t \in Threads |-> FALSE]
  /\ toLogger = [t \in Threads |-> FALSE]
  /\ code = [t \in Threads |-> "other"]
  /\ report = [t \in Threads |-> {}]
  /\ crashDumpMutex = NoThread /\ synchronizer = NoThread
  /\ emergency = IF platform = "win" THEN "block" ELSE "null"
  /\ frees = 0
  /\ generateStdlog = TRUE /\ dumpType = "Full" /\ dumpConfigured = "Full"
  /\ snapDump = [t \in Threads |-> "None"]
  /\ demands = 0 /\ starts = 0
  /\ exit = Running
  /\ disp = [sg \in LinuxSigs |-> "dfl"]
  /\ dumpFile \in IF platform = "linux" THEN {"none", "stale"} ELSE {"none"}
  /\ hstack = [t \in Threads |-> <<>>]
  /\ handled = FALSE

-----------------------------------------------------------------------------
(* _registerThreadInfo: a thread id already in the map is only complained *)
(* about; the entry it has stays.                                          *)
Registered(t) == IF info[t] = "none" THEN [info EXCEPT ![t] = "ready"] ELSE info

(* _deregisterThreadInfo *)
Deregistered(t) == [info EXCEPT ![t] = "none"]

(* The minidump types _writeMiniDumpToNewFile can leave: CreateFile may   *)
(* fail, and a failed Full dump is retried as a Tiny one on the same file. *)
DumpsCreated(d) ==
  CASE d = "Full" -> {"Full", "Tiny", "None"}
    [] d = "Tiny" -> {"Tiny", "None"}
    [] d = "None" -> {"None"}

Codes == {"nomem", "other"}

FilterPCs == {"fLookup", "fFree", "fClear", "fDone"}

Frozen == UNCHANGED <<emergency, frees, generateStdlog, dumpType, dumpConfigured,
                      demands, starts>>

(* A new thread gets an id that is not in use: through userThreadMain,    *)
(* which registers it, or as a thread that does not (a foreign thread).   *)
Start(t) ==
  /\ Alive /\ platform = "win" /\ life[t] = "idle" /\ starts < MaxStarts
  /\ \/ life' = [life EXCEPT ![t] = "user"] /\ info' = Registered(t)
     \/ life' = [life EXCEPT ![t] = "foreign"] /\ UNCHANGED info
  /\ starts' = starts + 1
  /\ UNCHANGED <<stack, added, toLogger, code, report, crashDumpMutex,
                 synchronizer, emergency, frees, generateStdlog, dumpType,
                 dumpConfigured, snapDump, demands, exit>>

(* threadMain returns: userThreadMain deregisters the id; a foreign       *)
(* thread leaves whatever entry its id has.  The main thread stays.        *)
ThreadExit(t) ==
  /\ Alive /\ platform = "win" /\ Idle(t) /\ life[t] \in {"user", "foreign"}
  /\ life' = [life EXCEPT ![t] = "idle"]
  /\ info' = IF life[t] = "user" THEN Deregistered(t) ELSE info
  /\ UNCHANGED <<stack, added, toLogger, code, report, crashDumpMutex,
                 synchronizer, emergency, frees, generateStdlog, dumpType,
                 dumpConfigured, snapDump, demands, starts, exit>>

(* StackCrawl::configureCrashHandler and StackCrawl::setCrashDumpType.    *)
ConfigureCrashHandler(t) ==
  /\ Alive /\ Idle(t)
  /\ \E g \in StdlogChoices, d \in DumpChoices :
       generateStdlog' = g /\ dumpConfigured' = d /\ dumpType' = d
  /\ UNCHANGED <<life, info, stack, added, toLogger, code, report,
                 crashDumpMutex, synchronizer, emergency, frees, snapDump,
                 demands, starts, exit>>

SetCrashDumpType(t) ==
  /\ Alive /\ Idle(t)
  /\ \E d \in DumpChoices : dumpType' = d
  /\ UNCHANGED <<life, info, stack, added, toLogger, code, report,
                 crashDumpMutex, synchronizer, emergency, frees,
                 generateStdlog, dumpConfigured, snapDump, demands, starts, exit>>

(* The logger logStackCrawl passes on: on Linux a NULL logger is replaced *)
(* by a console logger first.                                              *)
LoggerChoices == IF platform = "win" THEN BOOLEAN ELSE {TRUE}

(* The dispatch of the crawl: Windows writes STDLOG for a NULL logger;    *)
(* _generateStackCrawlLinux does whenever gGenerateStdlog.                 *)
ToStdlog(t) == IF platform = "win" THEN ~toLogger[t] ELSE generateStdlog

(* VThread::logStackCrawl is called with a logger or with NULL (STDLOG).  *)
LogStackCrawl(t) ==
  /\ Alive /\ Idle(t) /\ demands < MaxDemands
  /\ \E lg \in LoggerChoices : toLogger' = [toLogger EXCEPT ![t] = lg]
  /\ stack' = [stack EXCEPT ![t] = <<"lLock">>]
  /\ demands' = demands + 1
  /\ UNCHANGED <<life, info, added, code, report, crashDumpMutex,
                 synchronizer, emergency, frees, generateStdlog, dumpType,
                 dumpConfigured, snapDump, starts, exit>>

(* Take logStackCrawlSynchronizer, register the thread if it has no entry *)
(* (threadInfoAdded), and _generateStackCrawlWithRegisters dispatches:     *)
(* to the logger, or to _writeCrashDumpToStandardLogFile (ToStdlog).       *)
LockSynchronizer(t) ==
  /\ Alive /\ stack[t] # <<>> /\ Top(t) = "lLock" /\ synchronizer = NoThread
  /\ synchronizer' = t
  /\ added' = [added EXCEPT ![t] = (info[t] = "none")]
  /\ info' = Registered(t)
  /\ IF ToStdlog(t) THEN Call(t, "lGen", "wLock") ELSE Goto(t, "lLogger")
  /\ Frozen
  /\ UNCHANGED <<life, toLogger, code, report, crashDumpMutex, snapDump, exit>>

(* The end of logStackCrawl: deregister the entry it added, and the       *)
(* lock_guard releases the synchronizer.                                   *)
EndCrawl(t) ==
  /\ info' = IF added[t] THEN Deregistered(t) ELSE info
  /\ synchronizer' = NoThread
  /\ Pop(t)

FinishCrawl(t) ==
  /\ Alive /\ stack[t] # <<>> /\ Top(t) = "lGen"
  /\ EndCrawl(t)
  /\ Frozen
  /\ UNCHANGED <<life, added, toLogger, code, report, crashDumpMutex, snapDump, exit>>

(* _writeCrashDumpInfoToLogger writes to the caller's logger.  It returns, *)
(* throws (logStackCrawl has no handler: the lock_guard unlocks, the       *)
(* deregistration is skipped, the caller catches), or faults (on Linux a  *)
(* fault is a signal, see Signal).                                         *)
WriteToLogger(t) ==
  /\ Alive /\ stack[t] # <<>> /\ Top(t) = "lLogger"
  /\ \/ EndCrawl(t) /\ UNCHANGED code
     \/ synchronizer' = NoThread /\ Pop(t) /\ UNCHANGED <<info, code>>
     \/ /\ platform = "win"
        /\ stack' = [stack EXCEPT ![t] = Append(@, "fLookup")]
        /\ \E c \in Codes : code' = [code EXCEPT ![t] = c]
        /\ UNCHANGED <<info, synchronizer>>
  /\ Frozen
  /\ UNCHANGED <<life, added, toLogger, report, crashDumpMutex, snapDump, exit>>

(* An SEH fault on a thread outside any handler code: the OS calls the    *)
(* unhandled-exception filter on that thread.                             *)
Crash(t) ==
  /\ Alive /\ platform = "win" /\ Idle(t)
  /\ stack' = [stack EXCEPT ![t] = <<"fLookup">>]
  /\ \E c \in Codes : code' = [code EXCEPT ![t] = c]
  /\ Frozen
  /\ UNCHANGED <<life, info, added, toLogger, report, crashDumpMutex,
                 synchronizer, snapDump, exit>>

(* _stackCrawlExceptionFilter, first lines: register a thread with no    *)
(* entry; a thread whose entry is marked isInExceptionHandler has faulted *)
(* inside the dump code, and the filter returns EXCEPTION_EXECUTE_HANDLER. *)
FilterLookup(t) ==
  /\ Alive /\ stack[t] # <<>> /\ Top(t) = "fLookup"
  /\ \/ info[t] = "busy" /\ Terminate(t, "guard") /\ UNCHANGED <<info, stack>>
     \/ info[t] # "busy" /\ info' = Registered(t) /\ Goto(t, "fFree")
          /\ UNCHANGED exit
  /\ Frozen
  /\ UNCHANGED <<life, added, toLogger, code, report, crashDumpMutex,
                 synchronizer, snapDump>>

(* ::free(gSEHEmergencyMemory): frees whatever the global holds now.      *)
FilterFree(t) ==
  /\ Alive /\ stack[t] # <<>> /\ Top(t) = "fFree"
  /\ frees' = IF emergency = "block" THEN frees + 1 ELSE frees
  /\ Goto(t, "fClear")
  /\ UNCHANGED <<life, info, added, toLogger, code, report, crashDumpMutex,
                 synchronizer, emergency, generateStdlog, dumpType,
                 dumpConfigured, snapDump, demands, starts, exit>>

(* gSEHEmergencyMemory = 0; STATUS_NO_MEMORY returns                      *)
(* EXCEPTION_CONTINUE_SEARCH at once; any other code fills the settings   *)
(* from gDumpTypeToGenerate and, if gGenerateStdlog, writes STDLOG.        *)
FilterClear(t) ==
  /\ Alive /\ stack[t] # <<>> /\ Top(t) = "fClear"
  /\ emergency' = "null"
  /\ \/ code[t] = "nomem" /\ Terminate(t, "nomem") /\ UNCHANGED <<stack, snapDump>>
     \/ /\ code[t] = "other"
        /\ snapDump' = [snapDump EXCEPT ![t] = dumpType]
        /\ IF generateStdlog
             THEN Call(t, "fDone", "wLock") /\ UNCHANGED exit
             ELSE Terminate(t, "nostdlog") /\ UNCHANGED stack
  /\ UNCHANGED <<life, info, added, toLogger, code, report, crashDumpMutex,
                 synchronizer, frees, generateStdlog, dumpType, dumpConfigured,
                 demands, starts>>

(* The filter's last lines after the STDLOG writer returned.              *)
FilterDone(t) ==
  /\ Alive /\ stack[t] # <<>> /\ Top(t) = "fDone"
  /\ Terminate(t, "handled")
  /\ Frozen
  /\ UNCHANGED <<life, info, stack, added, toLogger, code, report,
                 crashDumpMutex, synchronizer, snapDump>>

(* The writer serves the filter (below it "fDone") or logStackCrawl.      *)
ForCrash(t) == stack[t][Len(stack[t]) - 1] = "fDone"

Attempted(t) ==
  report' = IF ForCrash(t) THEN [report EXCEPT ![t] = @ \cup {"attempt"}] ELSE report

(* Mutant: enteringExceptionHandler is not called before the write.      *)
WriteLockNoMark(t) ==
  /\ Alive /\ stack[t] # <<>> /\ Top(t) = "wLock" /\ crashDumpMutex = NoThread
  /\ \/ crashDumpMutex' = NoThread /\ Pop(t) /\ Attempted(t) /\ UNCHANGED info
     \/ /\ info[t] = "busy"
        /\ crashDumpMutex' = NoThread /\ Pop(t) /\ UNCHANGED <<info, report>>
     \/ /\ info[t] = "ready"
        /\ crashDumpMutex' = t /\ UNCHANGED info
        /\ Goto(t, "wWrite") /\ Attempted(t)
  /\ Frozen
  /\ UNCHANGED <<life, added, toLogger, code, synchronizer, snapDump, exit>>

(* Mutant: the early return after a failed open leaves the mutex locked. *)
WriteLockKeepsMutex(t) ==
  /\ Alive /\ stack[t] # <<>> /\ Top(t) = "wLock" /\ crashDumpMutex = NoThread
  /\ \/ crashDumpMutex' = t /\ Pop(t) /\ Attempted(t) /\ UNCHANGED info
     \/ /\ info[t] = "busy"
        /\ crashDumpMutex' = NoThread /\ Pop(t) /\ UNCHANGED <<info, report>>
     \/ /\ info[t] = "ready"
        /\ crashDumpMutex' = t
        /\ info' = [info EXCEPT ![t] = "busy"]
        /\ Goto(t, "wWrite") /\ Attempted(t)
  /\ Frozen
  /\ UNCHANGED <<life, added, toLogger, code, synchronizer, snapDump, exit>>

(* _writeCrashDumpToStandardLogFile up to the write: lock crashDumpMutex; *)
(* if STDLOG.TXT cannot be opened, abort; if the entry is marked          *)
(* isInExceptionHandler, log "already in progress"; else mark it.         *)
WriteLock(t) ==
  /\ Alive /\ platform = "win"
  /\ stack[t] # <<>> /\ Top(t) = "wLock" /\ crashDumpMutex = NoThread
  /\ \/ crashDumpMutex' = NoThread /\ Pop(t) /\ Attempted(t) /\ UNCHANGED info
     \/ /\ info[t] = "busy"
        /\ crashDumpMutex' = NoThread /\ Pop(t) /\ UNCHANGED <<info, report>>
     \/ /\ info[t] = "ready"
        /\ crashDumpMutex' = t
        /\ info' = [info EXCEPT ![t] = "busy"]
        /\ Goto(t, "wWrite") /\ Attempted(t)
  /\ Frozen
  /\ UNCHANGED <<life, added, toLogger, code, synchronizer, snapDump, exit>>

(* _writeCrashDumpInfoToLogger and StackCrawlerEx::WriteCrashDumpInfo:    *)
(* the minidump (only a crash's settings ask for one), then the text.     *)
(* It returns (leavingExceptionHandler), throws a std::exception that the *)
(* writer catches with the entry still marked, or faults; the VMutexLocker *)
(* unlocks on both returns.                                                *)
WriteDone(t) ==
  /\ Alive /\ platform = "win" /\ stack[t] # <<>> /\ Top(t) = "wWrite"
  /\ \/ /\ \E d \in DumpsCreated(IF ForCrash(t) THEN snapDump[t] ELSE "None") :
             report' = [report EXCEPT ![t] = @ \cup ({d} \ {"None"})]
        /\ \/ info' = [info EXCEPT ![t] = "ready"]
           \/ UNCHANGED info
        /\ crashDumpMutex' = NoThread /\ Pop(t) /\ UNCHANGED code
     \/ /\ stack' = [stack EXCEPT ![t] = Append(@, "fLookup")]
        /\ \E c \in Codes : code' = [code EXCEPT ![t] = c]
        /\ UNCHANGED <<info, report, crashDumpMutex>>
  /\ Frozen
  /\ UNCHANGED <<life, added, toLogger, synchronizer, snapDump, exit>>

(* The Linux _writeCrashDumpToStandardLogFile: lock crashDumpMutex; if    *)
(* STDLOG.TXT cannot be opened, return.  There is no isInExceptionHandler  *)
(* mark.                                                                   *)
LinuxWriteLock(t) ==
  /\ Alive /\ platform = "linux"
  /\ stack[t] # <<>> /\ Top(t) = "wLock" /\ crashDumpMutex = NoThread
  /\ \/ crashDumpMutex' = NoThread /\ Pop(t)
     \/ crashDumpMutex' = t /\ Goto(t, "wWrite")
  /\ Frozen
  /\ UNCHANGED <<life, info, added, toLogger, code, report, synchronizer,
                 snapDump, exit>>

(* WriteCrashDumpInfo with the Tiny dump logStackCrawl asks for: the      *)
(* Linux _writeMiniDumpToNewFile reports the dump created whatever the     *)
(* stream did, a std::exception is caught, and the VMutexLocker unlocks.   *)
(* A fault here is a signal to the thread (Signal).                        *)
LinuxWriteDone(t) ==
  /\ Alive /\ platform = "linux" /\ stack[t] # <<>> /\ Top(t) = "wWrite"
  /\ crashDumpMutex' = NoThread /\ Pop(t)
  /\ Frozen
  /\ UNCHANGED <<life, info, added, toLogger, code, report, synchronizer,
                 snapDump, exit>>

-----------------------------------------------------------------------------
(* Linux.  The windows build's variables stay as they are.                *)
winVars == <<life, info, stack, added, toLogger, code, report, crashDumpMutex,
             synchronizer, emergency, frees, generateStdlog, dumpType,
             dumpConfigured, snapDump, demands, starts>>

HTop(t) == hstack[t][Len(hstack[t])]
HGoto(t, pc) == hstack' = [hstack EXCEPT ![t][Len(hstack[t])].pc = pc]
Frame(sig, from) == [sig |-> sig, from |-> from, pc |-> "hDfl", linked |-> FALSE]

(* Removing the file unlinks it: the streams open on it write to a file   *)
(* no name refers to any more.                                            *)
Unlinked(hs) == [u \in Threads |-> [i \in DOMAIN hs[u] |-> [hs[u][i] EXCEPT !.linked = FALSE]]]

(* The default action of the three signals ends the process.              *)
LinuxTerminate(t, sig) ==
  exit' = [thread |-> t, how |-> sig, nested |-> hstack[t] # <<>>,
           configured |-> FALSE, wrote |-> {}]

(* The kernel delivers sig to thread t, whose handler frames are then hs: *)
(* the default action ends the process, a handler runs on top of hs.      *)
Deliver(t, sig, from, hs) ==
  \/ /\ disp[sig] = "dfl" /\ LinuxTerminate(t, sig)
     /\ hstack' = [hstack EXCEPT ![t] = hs] /\ UNCHANGED handled
  \/ /\ disp[sig] = "handler"
     /\ hstack' = [hstack EXCEPT ![t] = Append(hs, Frame(sig, from))]
     /\ handled' = (handled \/ from # "raise") /\ UNCHANGED exit

(* VThread::userThreadMain: remove the previous dump, install the handler *)
(* for SIGINT, SIGSEGV and SIGABRT, then run threadMain.                  *)
LinuxStart(t) ==
  /\ Alive /\ platform = "linux" /\ life[t] = "idle" /\ starts < MaxStarts
  /\ life' = [life EXCEPT ![t] = "user"] /\ starts' = starts + 1
  /\ dumpFile' = "none"
  /\ hstack' = IF dumpFile # "none" THEN Unlinked(hstack) ELSE hstack
  /\ disp' = [sg \in LinuxSigs |-> "handler"]
  /\ UNCHANGED <<info, stack, added, toLogger, code, report, crashDumpMutex,
                 synchronizer, emergency, frees, generateStdlog, dumpType,
                 dumpConfigured, snapDump, demands, exit, platform, handled>>

(* threadMain returns; the Linux userThreadMain deregisters nothing.      *)
LinuxThreadExit(t) ==
  /\ Alive /\ platform = "linux" /\ Idle(t) /\ life[t] = "user"
  /\ life' = [life EXCEPT ![t] = "idle"]
  /\ UNCHANGED <<info, stack, added, toLogger, code, report, crashDumpMutex,
                 synchronizer, emergency, frees, generateStdlog, dumpType,
                 dumpConfigured, snapDump, demands, starts, exit, linuxVars>>

(* A fault, an abort() or a Ctrl-C reaches a thread outside the handler.  *)
Signal(t) ==
  /\ Alive /\ platform = "linux" /\ life[t] # "idle" /\ hstack[t] = <<>>
  /\ \E sig \in LinuxSignals : Deliver(t, sig, Origin[sig], <<>>)
  /\ UNCHANGED <<winVars, platform, disp, dumpFile>>

(* RegisterApplicationExceptionHandlerLinux: ::signal(signum, SIG_DFL).   *)
HandlerDfl(t) ==
  /\ Alive /\ hstack[t] # <<>> /\ HTop(t).pc = "hDfl"
  /\ disp' = [disp EXCEPT ![HTop(t).sig] = "dfl"]
  /\ HGoto(t, "hOpen")
  /\ UNCHANGED <<winVars, exit, platform, dumpFile, handled>>

(* Remove the dump if it exists, then the ofstream creates the file.      *)
HandlerOpen(t) ==
  /\ Alive /\ hstack[t] # <<>> /\ HTop(t).pc = "hOpen"
  /\ dumpFile' = "empty"
  /\ LET hs == IF dumpFile # "none" THEN Unlinked(hstack) ELSE hstack
     IN  hstack' = [hs EXCEPT ![t][Len(hs[t])].pc = "hWrite",
                              ![t][Len(hs[t])].linked = TRUE]
  /\ UNCHANGED <<winVars, exit, platform, disp, handled>>

(* Write the stack trace and close the stream; SIGABRT's handler returns, *)
(* the others go on to end the process.                                   *)
HandlerWrite(t) ==
  /\ Alive /\ hstack[t] # <<>> /\ HTop(t).pc = "hWrite"
  /\ dumpFile' = IF HTop(t).linked THEN "written" ELSE dumpFile
  /\ HGoto(t, IF HTop(t).sig # "SIGABRT" THEN "hRearm" ELSE "hRet")
  /\ UNCHANGED <<winVars, exit, platform, disp, handled>>

(* ::signal(SIGABRT, NULL): NULL is SIG_DFL.                               *)
HandlerRearm(t) ==
  /\ Alive /\ hstack[t] # <<>> /\ HTop(t).pc = "hRearm"
  /\ disp' = [disp EXCEPT !["SIGABRT"] = "dfl"]
  /\ HGoto(t, "hRaise")
  /\ UNCHANGED <<winVars, exit, platform, dumpFile, handled>>

(* ::raise(SIGABRT): delivered at once to the calling thread.             *)
HandlerRaise(t) ==
  /\ Alive /\ hstack[t] # <<>> /\ HTop(t).pc = "hRaise"
  /\ Deliver(t, "SIGABRT", "raise",
             [hstack[t] EXCEPT ![Len(hstack[t])].pc = "hRet"])
  /\ UNCHANGED <<winVars, platform, disp, dumpFile>>

(* The handler returns.  After a fault the faulting instruction runs      *)
(* again; abort() restores SIG_DFL and raises SIGABRT again; after Ctrl-C *)
(* the thread goes on, and raise returns into the handler that called it. *)
HandlerReturn(t) ==
  /\ Alive /\ hstack[t] # <<>> /\ HTop(t).pc = "hRet"
  /\ LET f == HTop(t)
         rest == SubSeq(hstack[t], 1, Len(hstack[t]) - 1)
     IN  CASE f.from = "fault" -> Deliver(t, "SIGSEGV", "fault", rest)
           [] f.from = "abort" -> /\ LinuxTerminate(t, "SIGABRT")
                                  /\ hstack' = [hstack EXCEPT ![t] = rest]
                                  /\ UNCHANGED handled
           [] OTHER -> /\ hstack' = [hstack EXCEPT ![t] = rest]
                       /\ UNCHANGED <<handled, exit>>
  /\ UNCHANGED <<winVars, platform, disp, dumpFile>>

HandlerStep(t) ==
  \/ HandlerDfl(t) \/ HandlerOpen(t) \/ HandlerWrite(t) \/ HandlerRearm(t)
  \/ HandlerRaise(t) \/ HandlerReturn(t)

-----------------------------------------------------------------------------
WinStep(t) ==
  \/ LockSynchronizer(t) \/ WriteToLogger(t) \/ FinishCrawl(t)
  \/ FilterLookup(t) \/ FilterFree(t) \/ FilterClear(t) \/ FilterDone(t)
  \/ WriteLock(t) \/ WriteDone(t) \/ LinuxWriteLock(t) \/ LinuxWriteDone(t)

(* A thread inside a signal handler runs only the handler.                *)
Step(t) == (hstack[t] = <<>> /\ WinStep(t) /\ UNCHANGED linuxVars) \/ HandlerStep(t)

Next ==
  \E t \in Threads :
    \/ /\ \/ Start(t) \/ ThreadExit(t) \/ ConfigureCrashHandler(t)
          \/ SetCrashDumpType(t) \/ LogStackCrawl(t) \/ Crash(t)
       /\ UNCHANGED linuxVars
    \/ LinuxStart(t) \/ LinuxThreadExit(t) \/ Signal(t) \/ Step(t)

(* The OS keeps scheduling a thread that can run; calls, faults, signals, *)
(* thread starts and exits are the program's choice and get no fairness.  *)
Spec == Init /\ [][Next]_vars /\ \A t \in Threads : WF_vars(Step(t))

-----------------------------------------------------------------------------
TypeOK ==
  /\ life \in [Threads -> {"idle", "main", "user", "foreign"}]
  /\ info \in [Threads -> {"none", "ready", "busy"}]
  /\ \A t \in Threads : stack[t] \in Seq(PCs) /\ Len(stack[t]) <= 4
  /\ added \in [Threads -> BOOLEAN] /\ toLogger \in [Threads -> BOOLEAN]
  /\ code \in [Threads -> Codes]
  /\ report \in [Threads -> SUBSET {"attempt", "Tiny", "Full"}]
  /\ crashDumpMutex \in Threads \cup {NoThread}
  /\ synchronizer \in Threads \cup {NoThread}
  /\ emergency \in {"block", "null"} /\ frees \in Nat
  /\ generateStdlog \in BOOLEAN /\ dumpType \in DumpTypes
  /\ dumpConfigured \in DumpTypes
  /\ snapDump \in [Threads -> DumpTypes]
  /\ demands \in 0..MaxDemands /\ starts \in 0..MaxStarts
  /\ platform \in Platforms /\ disp \in [LinuxSigs -> {"dfl", "handler"}]
  /\ dumpFile \in {"none", "stale", "empty", "written"}
  /\ \A t \in Threads : \A i \in DOMAIN hstack[t] :
       hstack[t][i] \in [sig : LinuxSigs, from : {"fault", "abort", "int", "raise"},
                         pc : HPCs, linked : BOOLEAN]

(* The isInExceptionHandler guard of the filter and of the STDLOG writer  *)
(* keeps a fault inside the dump code from reaching the writer again: no  *)
(* thread ever waits for crashDumpMutex while it holds it (a self-deadlock *)
(* of a non-recursive mutex, or a second dump into the open STDLOG file).  *)
NoSelfWait ==
  \A t \in Threads : (stack[t] # <<>> /\ Top(t) = "wLock") => crashDumpMutex # t

(* A fault anywhere, in a thread's own code or inside the dump code,      *)
(* eventually ends the process: no filter blocks forever on a mutex held  *)
(* by a thread that no longer runs, nor on its own.  On Linux, a fault or  *)
(* an abort() that reached the handler ends the process too, even when a  *)
(* thread start re-installs the handler while it runs.                    *)
CrashTerminates ==
  (\E t \in Threads :
     \/ \E i \in DOMAIN stack[t] : stack[t][i] \in FilterPCs
     \/ \E i \in DOMAIN hstack[t] : hstack[t][i].from \in {"fault", "abort"})
    ~> ~Alive

(* A fault outside the dump code, while STDLOG or a dump is configured,   *)
(* ends the process only after the handler attempted to write them.       *)
(* Comment at the filter's end: with gGenerateStdlog false the .dmp file  *)
(* is still expected unless the dump type is None.                         *)
CrashReported ==
  (~Alive /\ exit.how # "nomem" /\ ~exit.nested /\ exit.configured)
    => exit.wrote # {}

(* The emergency block of RegisterApplicationExceptionHandler is freed at *)
(* most once, however many threads fault.                                 *)
EmergencyFreedOnce == frees <= 1

(* Linux: once the handler was entered for a fault, an abort() or a       *)
(* Ctrl-C, the process ends with the stack trace in ./XPS-Crash-Dump.dump *)
(* ("Capture the stack trace" before the process is ended).                *)
LinuxCrashLeavesDump == (~Alive /\ handled) => dumpFile = "written"
=============================================================================
