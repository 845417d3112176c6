--------------------------- MODULE ThroughputMonitor ---------------------------
(***************************************************************************)
(* Freeze detection (src/vutils.cpp).  Each TaskQueueDiagnostics object   *)
(* belongs to a task queue: the queue's producer calls                    *)
(* RegisterItemsQueued, its consumer RegisterItemsProcessed, and its      *)
(* owner UpdateLoggerName, Enable, Disable or the destructor.  Once per   *)
(* logFrequencyInMinutes a RegisterItemsQueued call computes the          *)
(* processing rate and, with freeze monitoring on, reports it under the   *)
(* logger name to the SlowThroughputMonitor singleton.  The singleton     *)
(* keeps, under dataSynchronizer, the time each component was first seen  *)
(* at 0% throughput, and creates one freeze dump when a component stays   *)
(* at 0% for the tolerance period.                                        *)
(*                                                                         *)
(* Time is counted in minutes.  The producer's call is two steps: up to   *)
(* and including MonitorThroughput, then the reset of                     *)
(* itemsProcessedSinceStartTime and the count of the new items, since the *)
(* consumer adds to that atomic counter concurrently.  UpdateLoggerName   *)
(* is two steps as well: StopMonitoringComponent under the singleton's    *)
(* lock, then the assignment of the new name.  Rates are abstracted to    *)
(* what MonitorThroughput compares: zero, positive, or NaN (0/0).         *)
(***************************************************************************)
EXTENDS Naturals, FiniteSets, TLC

CONSTANTS
  Queues,             \* TaskQueueDiagnostics objects
  Names,              \* logger names
  DiagnosticsEnabled, \* enableDiagnostics passed to the constructor
  FreezeMonitoring,   \* enableFreezeMonitoring passed to the constructor
  LogFrequency,       \* logFrequencyInMinutes
  Tolerance,          \* getZeroThroughputToleranceInMinutes()
  MaxTime,            \* minutes the model runs
  MaxItems,           \* bound on the item counters
  MaxRenames          \* UpdateLoggerName calls per object

ASSUME LogFrequency >= 1 /\ Tolerance >= 1

NoDump == [created |-> FALSE, creator |-> "none", time |-> 0]

VARIABLES
  clock,        \* minutes; GetTimeInSeconds / GetTimeInNanoSeconds
  alive,        \* the object is not yet destroyed
  name,         \* loggerName
  diag,         \* diagnosticsEnabled
  start,        \* diagnosticsStartTime, 0 when unset
  queued,       \* itemsQueuedSinceStartTime
  processed,    \* itemsProcessedSinceStartTime (atomic)
  ppc,          \* producer: "idle" | "reported" (after MonitorThroughput)
  rpc,          \* owner in UpdateLoggerName: "idle" | "stopped"
  renames,      \* UpdateLoggerName calls made
  tmap,         \* throughputMap: component -> zero-throughput start, 0 = none
  dump,         \* freezeDumpInfo
  lastProgress  \* the last minute the consumer processed items (history)

queueVars == <<alive, name, diag, start, queued, processed, ppc, rpc, renames>>
monitorVars == <<tmap, dump>>
vars == <<clock, queueVars, monitorVars, lastProgress>>

TypeOK ==
  /\ clock \in 1..MaxTime
  /\ alive \in [Queues -> BOOLEAN]
  /\ name \in [Queues -> Names]
  /\ diag \in [Queues -> BOOLEAN]
  /\ start \in [Queues -> 0..MaxTime]
  /\ queued \in [Queues -> 0..MaxItems]
  /\ processed \in [Queues -> 0..MaxItems]
  /\ ppc \in [Queues -> {"idle", "reported"}]
  /\ rpc \in [Queues -> {"idle", "stopped"}]
  /\ renames \in [Queues -> 0..MaxRenames]
  /\ DOMAIN tmap \subseteq Names /\ \A n \in DOMAIN tmap : tmap[n] \in 0..MaxTime
  /\ dump.created \in BOOLEAN /\ dump.time \in 0..MaxTime
  /\ lastProgress \in [Queues -> 0..MaxTime]

Init ==
  /\ clock = 1
  /\ alive = [q \in Queues |-> TRUE]
  /\ name \in [Queues -> Names]   \* the loggerName given to each constructor
  /\ diag = [q \in Queues |-> DiagnosticsEnabled]
  /\ start = [q \in Queues |-> 0]
  /\ queued = [q \in Queues |-> 0]
  /\ processed = [q \in Queues |-> 0]
  /\ ppc = [q \in Queues |-> "idle"]
  /\ rpc = [q \in Queues |-> "idle"]
  /\ renames = [q \in Queues |-> 0]
  /\ tmap = << >>
  /\ dump = NoDump
  /\ lastProgress = [q \in Queues |-> 0]

-----------------------------------------------------------------------------
(* SlowThroughputMonitor, as operators on the map and the dump info.      *)

Frozen(m) == {n \in DOMAIN m : m[n] # 0}

(* ResetDumpCreationStatusIfPossible: forget the dump once no component   *)
(* is at zero throughput.                                                 *)
ResetDumpCreationStatusIfPossible(m, d) ==
  IF d.created /\ Frozen(m) = {} THEN NoDump ELSE d

(* Mutant: the entry is erased without resetting the dump status.        *)
StopMonitoringNoReset(n) ==
  IF n \in DOMAIN tmap
    THEN tmap' = [c \in DOMAIN tmap \ {n} |-> tmap[c]] /\ UNCHANGED dump
    ELSE UNCHANGED <<tmap, dump>>

(* StopMonitoringComponent: an empty map returns at once; a known         *)
(* component is erased and the dump status reset if possible.             *)
StopMonitoring(n) ==
  IF n \in DOMAIN tmap
    THEN LET m == [c \in DOMAIN tmap \ {n} |-> tmap[c]]
         IN  /\ tmap' = m
             /\ dump' = ResetDumpCreationStatusIfPossible(m, dump)
    ELSE UNCHANGED <<tmap, dump>>

(* MonitorThroughput(componentId, processingRate) at the current minute.  *)
MonitorThroughput(n, rate) ==
  LET m == IF n \in DOMAIN tmap THEN tmap ELSE tmap @@ (n :> 0)
  IN  CASE m[n] = 0 ->
             /\ tmap' = IF rate = "zero" THEN [m EXCEPT ![n] = clock] ELSE m
             /\ UNCHANGED dump
        [] rate = "positive" ->
             LET m2 == [m EXCEPT ![n] = 0]
             IN  tmap' = m2 /\ dump' = ResetDumpCreationStatusIfPossible(m2, dump)
        [] ~dump.created ->
             /\ tmap' = m
             /\ dump' = IF clock - m[n] >= Tolerance
                          THEN [created |-> TRUE, creator |-> n, time |-> clock]
                          ELSE dump
        [] OTHER -> tmap' = m /\ UNCHANGED dump

-----------------------------------------------------------------------------
(* TaskQueueDiagnostics                                                   *)

(* processingRate = (processed/min) / (queued/min) * 100.                 *)
RateOf(p, q) ==
  IF p = 0 THEN IF q = 0 THEN "nan" ELSE "zero" ELSE "positive"

Interval(q) == start[q] > 0 /\ clock - start[q] >= LogFrequency

(* RegisterItemsQueued up to the report.  Disabled diagnostics without    *)
(* freeze monitoring return at once; the first call starts the interval;  *)
(* a call inside the interval only counts the items.                      *)
QueueItems(q) ==
  /\ alive[q] /\ ppc[q] = "idle" /\ (diag[q] \/ FreezeMonitoring)
  /\ ~Interval(q)
  /\ \E n \in 0..1 :
       /\ queued[q] + n <= MaxItems
       /\ queued' = [queued EXCEPT ![q] = @ + n]
  /\ start' = IF start[q] = 0 THEN [start EXCEPT ![q] = clock] ELSE start
  /\ UNCHANGED <<clock, alive, name, diag, processed, ppc, rpc, renames,
                 monitorVars, lastProgress>>

(* The interval has elapsed: restart it, compute the rate and, with       *)
(* freeze monitoring, report it under the current logger name.            *)
Report(q) ==
  /\ alive[q] /\ ppc[q] = "idle" /\ (diag[q] \/ FreezeMonitoring)
  /\ Interval(q)
  /\ queued' = [queued EXCEPT ![q] = 0]
  /\ start' = [start EXCEPT ![q] = clock]
  /\ ppc' = [ppc EXCEPT ![q] = "reported"]
  /\ IF FreezeMonitoring
       THEN MonitorThroughput(name[q], RateOf(processed[q], queued[q]))
       ELSE UNCHANGED monitorVars
  /\ UNCHANGED <<clock, alive, name, diag, processed, rpc, renames,
                 lastProgress>>

(* The rest of the call: itemsProcessedSinceStartTime = 0, then           *)
(* itemsQueuedSinceStartTime += numberOfItemsInserted.                    *)
FinishReport(q) ==
  /\ ppc[q] = "reported"
  /\ processed' = [processed EXCEPT ![q] = 0]
  /\ \E n \in 0..1 : queued' = [queued EXCEPT ![q] = n]
  /\ ppc' = [ppc EXCEPT ![q] = "idle"]
  /\ UNCHANGED <<clock, alive, name, diag, start, rpc, renames, monitorVars,
                 lastProgress>>

(* The consumer processes an item and calls RegisterItemsProcessed(1),    *)
(* which returns at once when diagnostics are disabled.                   *)
ProcessItem(q) ==
  /\ alive[q] /\ processed[q] < MaxItems
  /\ lastProgress' = [lastProgress EXCEPT ![q] = clock]
  /\ processed' = IF diag[q] THEN [processed EXCEPT ![q] = @ + 1] ELSE processed
  /\ UNCHANGED <<clock, alive, name, diag, start, queued, ppc, rpc, renames,
                 monitorVars>>

Enable(q) ==
  /\ alive[q] /\ ~diag[q]
  /\ diag' = [diag EXCEPT ![q] = TRUE]
  /\ UNCHANGED <<clock, alive, name, start, queued, processed, ppc, rpc,
                 renames, monitorVars, lastProgress>>

Disable(q) ==
  /\ alive[q] /\ diag[q]
  /\ diag' = [diag EXCEPT ![q] = FALSE]
  /\ queued' = [queued EXCEPT ![q] = 0]
  /\ processed' = [processed EXCEPT ![q] = 0]
  /\ start' = [start EXCEPT ![q] = 0]
  /\ UNCHANGED <<clock, alive, name, ppc, rpc, renames, monitorVars,
                 lastProgress>>

(* UpdateLoggerName(inName): with freeze monitoring, stop monitoring the   *)
(* old name, then assign the new one (a name no other object uses).        *)
RenameStop(q) ==
  /\ alive[q] /\ rpc[q] = "idle" /\ renames[q] < MaxRenames
  /\ rpc' = [rpc EXCEPT ![q] = "stopped"]
  /\ renames' = [renames EXCEPT ![q] = @ + 1]
  /\ IF FreezeMonitoring THEN StopMonitoring(name[q])
                         ELSE UNCHANGED monitorVars
  /\ UNCHANGED <<clock, alive, name, diag, start, queued, processed, ppc,
                 lastProgress>>

RenameAssign(q) ==
  /\ rpc[q] = "stopped"
  /\ \E n \in Names \ {name[r] : r \in Queues} :
       name' = [name EXCEPT ![q] = n]
  /\ rpc' = [rpc EXCEPT ![q] = "idle"]
  /\ UNCHANGED <<clock, alive, diag, start, queued, processed, ppc, renames,
                 monitorVars, lastProgress>>

(* The destructor, once the object is no longer in use.                   *)
Destroy(q) ==
  /\ alive[q] /\ ppc[q] = "idle" /\ rpc[q] = "idle"
  /\ alive' = [alive EXCEPT ![q] = FALSE]
  /\ IF FreezeMonitoring THEN StopMonitoring(name[q])
                         ELSE UNCHANGED monitorVars
  /\ UNCHANGED <<clock, name, diag, start, queued, processed, ppc, rpc,
                 renames, lastProgress>>

Tick ==
  /\ clock < MaxTime
  /\ clock' = clock + 1
  /\ UNCHANGED <<queueVars, monitorVars, lastProgress>>

Next ==
  \/ Tick
  \/ \E q \in Queues :
       \/ QueueItems(q) \/ Report(q) \/ FinishReport(q) \/ ProcessItem(q)
       \/ Enable(q) \/ Disable(q) \/ RenameStop(q) \/ RenameAssign(q)
       \/ Destroy(q)

Spec == Init /\ [][Next]_vars

-----------------------------------------------------------------------------
(* Properties                                                             *)

(* The dump status is held only while some component is at zero          *)
(* throughput: every recovery and every StopMonitoringComponent resets it *)
(* once the last frozen component is gone, so the next freeze can dump.   *)
DumpMeansFrozen == dump.created => Frozen(tmap) # {}

(* The throughput map holds only components that exist under that name:  *)
(* UpdateLoggerName and the destructor remove the old entry.  A stale     *)
(* entry at zero throughput would hold the dump status forever.           *)
MapTracksLiveComponents ==
  \A n \in DOMAIN tmap : \E q \in Queues : alive[q] /\ name[q] = n

(* A freeze dump is created only for a queue whose consumer has processed *)
(* nothing for the tolerance period.                                      *)
DumpOnlyForStall ==
  [][~dump.created /\ dump'.created =>
       \A q \in Queues :
         name[q] = dump'.creator => clock - lastProgress[q] >= Tolerance]_vars
=============================================================================
