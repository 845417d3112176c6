---------------------------- MODULE BlockingQueue ----------------------------
(***************************************************************************)
(* VBlockingQueue<DataType> (src/vblockingqueue.h): a std::queue guarded   *)
(* by a mutex, a condition variable consumers block on, an atomic          *)
(* queueStopped flag set by Stop() without the mutex, and a cancellation   *)
(* token owned by someone else and read without the mutex.                 *)
(*                                                                         *)
(* Producers call Enqueue or EnqueueMultiple, consumers call TryTake or    *)
(* WaitAndTake, and the owner calls Stop, Clear or cancels the token.      *)
(* Every call is split at the points where another thread can interleave:  *)
(* the unlocked flag checks, the locked sections, and notify after unlock. *)
(* A section that holds the mutex and does nothing another thread can see  *)
(* in between is one step.  Items are the naturals 1..MaxItems, each       *)
(* enqueued once, so that an item taken twice or lost can be told apart.   *)
(***************************************************************************)
EXTENDS Naturals, Sequences, FiniteSets, SequencesExt

CONSTANTS
  Producers,    \* threads calling Enqueue / EnqueueMultiple
  Consumers,    \* threads calling TryTake / WaitAndTake
  MaxItems,     \* bound on the items enqueued over a behaviour
  MaxBatch,     \* bound on the size of one EnqueueMultiple batch
  None          \* no thread holds the mutex

Items == 1..MaxItems

VARIABLES
  jobQueue,          \* std::queue<DataType> jobQueue
  queueStopped,      \* AtomicBoolean queueStopped (and the stopCalled once_flag)
  cancelled,         \* the owner's VCancellationToken
  allowTakeAfterCancellationOrStop,   \* fixed by the constructor
  mutex,             \* owner of this->mutex
  waitSet,           \* consumers blocked in condition.wait
  ppc,               \* where each producer is in its call
  batch,             \* the items a producer's call passes in
  cpc,               \* where each consumer is in its call
  nextItem,          \* the next fresh item a producer can pass in
  taken              \* the items consumers have taken (history)

vars == <<jobQueue, queueStopped, cancelled, allowTakeAfterCancellationOrStop,
          mutex, waitSet, ppc, batch, cpc, nextItem, taken>>

ProducerPCs == {"idle", "push_one", "push_all", "notify_one", "notify_all"}
ConsumerPCs == {"idle", "try_lock", "wait_lock", "wait_pred", "wait_block",
                "waiting"}

(* The constructor: an empty, running queue whose take-after-stop policy   *)
(* is either value.                                                        *)
Init ==
  /\ jobQueue = <<>>
  /\ queueStopped = FALSE
  /\ cancelled = FALSE
  /\ allowTakeAfterCancellationOrStop \in BOOLEAN
  /\ mutex = None
  /\ waitSet = {}
  /\ ppc = [p \in Producers |-> "idle"]
  /\ batch = [p \in Producers |-> <<>>]
  /\ cpc = [c \in Consumers |-> "idle"]
  /\ nextItem = 1
  /\ taken = {}

StoppedOrCancelled == cancelled \/ queueStopped

(* The lambda proceedToTake, and the same test at the head of TryTake:     *)
(* FALSE when stopped or cancelled and take-after-stop is not allowed.     *)
ProceedToTake == ~StoppedOrCancelled \/ allowTakeAfterCancellationOrStop

(* The predicate of condition.wait at line 153. *)
WaitPredicate == jobQueue # <<>> \/ StoppedOrCancelled

(* Stop(): under call_once, set queueStopped and notify_all.  A second     *)
(* call finds the once_flag set and does nothing.                          *)
StopBody ==
  IF queueStopped THEN UNCHANGED <<queueStopped, waitSet>>
  ELSE /\ queueStopped' = TRUE
       /\ waitSet' = {}

-----------------------------------------------------------------------------
(* Producers *)

(* Mutant: the batch is copied one element too far along (item ids off   *)
(* by one), as a hand-written copy loop with <= would.                     *)
EnqueueCallCopyOffByOne(p) ==
  /\ ppc[p] = "idle"
  /\ \E k \in 0..MaxBatch, multiple \in BOOLEAN :
       /\ multiple \/ k = 1
       /\ nextItem + k - 1 <= MaxItems
       /\ nextItem' = nextItem + k
       /\ IF StoppedOrCancelled
            THEN UNCHANGED <<ppc, batch>>
            ELSE /\ ppc' = [ppc EXCEPT ![p] = IF multiple THEN "push_all"
                                                          ELSE "push_one"]
                 /\ batch' = [batch EXCEPT ![p] =
                                [i \in 1..k |-> nextItem + i]]
  /\ UNCHANGED <<jobQueue, queueStopped, cancelled,
                 allowTakeAfterCancellationOrStop, mutex, waitSet, cpc, taken>>

(* Enqueue / EnqueueMultiple: the unlocked check of the cancellation token *)
(* and of queueStopped; a rejected call returns false.  The caller passes  *)
(* fresh items: one for Enqueue, 0..MaxBatch for EnqueueMultiple.          *)
EnqueueCall(p) ==
  /\ ppc[p] = "idle"
  /\ \E k \in 0..MaxBatch, multiple \in BOOLEAN :
       /\ multiple \/ k = 1
       /\ nextItem + k - 1 <= MaxItems
       /\ nextItem' = nextItem + k
       /\ IF StoppedOrCancelled
            THEN UNCHANGED <<ppc, batch>>
            ELSE /\ ppc' = [ppc EXCEPT ![p] = IF multiple THEN "push_all"
                                                          ELSE "push_one"]
                 /\ batch' = [batch EXCEPT ![p] =
                                [i \in 1..k |-> nextItem + i - 1]]
  /\ UNCHANGED <<jobQueue, queueStopped, cancelled,
                 allowTakeAfterCancellationOrStop, mutex, waitSet, cpc, taken>>

(* Mutant: the notify after the push is left out. *)
PushSkipNotify(p) ==
  /\ ppc[p] \in {"push_one", "push_all"}
  /\ mutex = None
  /\ jobQueue' = jobQueue \o batch[p]
  /\ ppc' = [ppc EXCEPT ![p] = "idle"]
  /\ batch' = [batch EXCEPT ![p] = <<>>]
  /\ UNCHANGED <<queueStopped, cancelled, allowTakeAfterCancellationOrStop,
                 mutex, waitSet, cpc, nextItem, taken>>

(* The locked push (lines 186-190 and 210-216). *)
Push(p) ==
  /\ ppc[p] \in {"push_one", "push_all"}
  /\ mutex = None
  /\ jobQueue' = jobQueue \o batch[p]
  /\ ppc' = [ppc EXCEPT ![p] = IF ppc[p] = "push_one" THEN "notify_one"
                                                      ELSE "notify_all"]
  /\ batch' = [batch EXCEPT ![p] = <<>>]
  /\ UNCHANGED <<queueStopped, cancelled, allowTakeAfterCancellationOrStop,
                 mutex, waitSet, cpc, nextItem, taken>>

(* notify_one after the unlock wakes one blocked consumer, if any. *)
NotifyOne(p) ==
  /\ ppc[p] = "notify_one"
  /\ \/ waitSet = {} /\ UNCHANGED waitSet
     \/ \E c \in waitSet : waitSet' = waitSet \ {c}
  /\ ppc' = [ppc EXCEPT ![p] = "idle"]
  /\ UNCHANGED <<jobQueue, queueStopped, cancelled,
                 allowTakeAfterCancellationOrStop, mutex, batch, cpc,
                 nextItem, taken>>

(* notify_all after the unlock wakes every blocked consumer. *)
NotifyAll(p) ==
  /\ ppc[p] = "notify_all"
  /\ waitSet' = {}
  /\ ppc' = [ppc EXCEPT ![p] = "idle"]
  /\ UNCHANGED <<jobQueue, queueStopped, cancelled,
                 allowTakeAfterCancellationOrStop, mutex, batch, cpc,
                 nextItem, taken>>

-----------------------------------------------------------------------------
(* Consumers *)

(* TryTake: the unlocked check at lines 87-95.  A call that may not take  *)
(* returns false at once.                                                  *)
TryTakeCall(c) ==
  /\ cpc[c] = "idle"
  /\ cpc' = [cpc EXCEPT ![c] = IF ProceedToTake THEN "try_lock" ELSE "idle"]
  /\ UNCHANGED <<jobQueue, queueStopped, cancelled,
                 allowTakeAfterCancellationOrStop, mutex, waitSet, ppc, batch,
                 nextItem, taken>>

(* Mutant: front() is read but pop() is forgotten. *)
TryTakeLockedNoPop(c) ==
  /\ cpc[c] = "try_lock"
  /\ mutex = None
  /\ IF jobQueue # <<>>
       THEN /\ taken' = taken \cup {Head(jobQueue)}
            /\ UNCHANGED jobQueue
       ELSE UNCHANGED <<jobQueue, taken>>
  /\ cpc' = [cpc EXCEPT ![c] = "idle"]
  /\ UNCHANGED <<queueStopped, cancelled, allowTakeAfterCancellationOrStop,
                 mutex, waitSet, ppc, batch, nextItem>>

(* TryTake's locked section (lines 97-109): pop the front if there is one. *)
TryTakeLocked(c) ==
  /\ cpc[c] = "try_lock"
  /\ mutex = None
  /\ IF jobQueue # <<>>
       THEN /\ jobQueue' = Tail(jobQueue)
            /\ taken' = taken \cup {Head(jobQueue)}
       ELSE UNCHANGED <<jobQueue, taken>>
  /\ cpc' = [cpc EXCEPT ![c] = "idle"]
  /\ UNCHANGED <<queueStopped, cancelled, allowTakeAfterCancellationOrStop,
                 mutex, waitSet, ppc, batch, nextItem>>

(* WaitAndTake: proceedToTake before the lock (lines 145-147). *)
WaitAndTakeCall(c) ==
  /\ cpc[c] = "idle"
  /\ cpc' = [cpc EXCEPT ![c] = IF ProceedToTake THEN "wait_lock" ELSE "idle"]
  /\ UNCHANGED <<jobQueue, queueStopped, cancelled,
                 allowTakeAfterCancellationOrStop, mutex, waitSet, ppc, batch,
                 nextItem, taken>>

(* unique_lock at line 150, and the re-acquisition of the mutex by a       *)
(* consumer woken from condition.wait.                                     *)
WaitLock(c) ==
  /\ \/ cpc[c] = "wait_lock"
     \/ cpc[c] = "waiting" /\ c \notin waitSet
  /\ mutex = None
  /\ mutex' = c
  /\ cpc' = [cpc EXCEPT ![c] = "wait_pred"]
  /\ UNCHANGED <<jobQueue, queueStopped, cancelled,
                 allowTakeAfterCancellationOrStop, waitSet, ppc, batch,
                 nextItem, taken>>

(* condition.wait evaluates its predicate holding the mutex.  When it     *)
(* holds, lines 155-167 run under the same lock: a stopped or cancelled   *)
(* queue that may not be drained, or is empty, is stopped and the call    *)
(* returns false; otherwise the front is popped.  When it does not hold,  *)
(* the consumer goes on to block, still holding the mutex.                *)
WaitPredicateCheck(c) ==
  /\ cpc[c] = "wait_pred"
  /\ IF WaitPredicate
       THEN /\ IF StoppedOrCancelled /\ (~ProceedToTake \/ jobQueue = <<>>)
                 THEN /\ StopBody
                      /\ UNCHANGED <<jobQueue, taken>>
                 ELSE /\ jobQueue' = Tail(jobQueue)
                      /\ taken' = taken \cup {Head(jobQueue)}
                      /\ UNCHANGED <<queueStopped, waitSet>>
            /\ mutex' = None
            /\ cpc' = [cpc EXCEPT ![c] = "idle"]
       ELSE /\ cpc' = [cpc EXCEPT ![c] = "wait_block"]
            /\ UNCHANGED <<jobQueue, taken, queueStopped, waitSet, mutex>>
  /\ UNCHANGED <<cancelled, allowTakeAfterCancellationOrStop, ppc, batch,
                 nextItem>>

(* The rest of condition.wait: atomically release the mutex and block.    *)
WaitBlock(c) ==
  /\ cpc[c] = "wait_block"
  /\ mutex' = None
  /\ waitSet' = waitSet \cup {c}
  /\ cpc' = [cpc EXCEPT ![c] = "waiting"]
  /\ UNCHANGED <<jobQueue, queueStopped, cancelled,
                 allowTakeAfterCancellationOrStop, ppc, batch, nextItem, taken>>

(* std::condition_variable may wake a waiter with no notify. *)
SpuriousWakeup(c) ==
  /\ c \in waitSet
  /\ waitSet' = waitSet \ {c}
  /\ UNCHANGED <<jobQueue, queueStopped, cancelled,
                 allowTakeAfterCancellationOrStop, mutex, ppc, batch, cpc,
                 nextItem, taken>>

-----------------------------------------------------------------------------
(* The owner *)

(* Stop() from the owner: it does not take the mutex. *)
Stop ==
  /\ ~queueStopped
  /\ StopBody
  /\ UNCHANGED <<jobQueue, cancelled, allowTakeAfterCancellationOrStop, mutex,
                 ppc, batch, cpc, nextItem, taken>>

(* The owner cancels the token the queue observes; nothing is notified. *)
Cancel ==
  /\ ~cancelled
  /\ cancelled' = TRUE
  /\ UNCHANGED <<jobQueue, queueStopped, allowTakeAfterCancellationOrStop,
                 mutex, waitSet, ppc, batch, cpc, nextItem, taken>>

(* Clear(): swap the queue with an empty one under the mutex. *)
Clear ==
  /\ mutex = None
  /\ jobQueue # <<>>
  /\ jobQueue' = <<>>
  /\ UNCHANGED <<queueStopped, cancelled, allowTakeAfterCancellationOrStop,
                 mutex, waitSet, ppc, batch, cpc, nextItem, taken>>

-----------------------------------------------------------------------------
ProducerStep(p) == Push(p) \/ NotifyOne(p) \/ NotifyAll(p)

ConsumerStep(c) ==
  TryTakeLocked(c) \/ WaitLock(c) \/ WaitPredicateCheck(c) \/ WaitBlock(c)

Next ==
  \/ \E p \in Producers : EnqueueCall(p) \/ ProducerStep(p)
  \/ \E c \in Consumers : \/ TryTakeCall(c) \/ WaitAndTakeCall(c)
                          \/ ConsumerStep(c) \/ SpuriousWakeup(c)
  \/ Stop \/ Cancel \/ Clear

(* Threads inside a call are scheduled; whether anyone calls, and whether *)
(* the owner stops, cancels or clears, is up to the environment.          *)
Fairness ==
  /\ \A p \in Producers : WF_vars(ProducerStep(p))
  /\ \A c \in Consumers : WF_vars(ConsumerStep(c))

Spec == Init /\ [][Next]_vars /\ Fairness

-----------------------------------------------------------------------------
TypeOK ==
  /\ jobQueue \in Seq(Items)
  /\ Len(jobQueue) <= MaxItems
  /\ mutex \in Consumers \cup {None}
  /\ waitSet \subseteq {c \in Consumers : cpc[c] = "waiting"}
  /\ ppc \in [Producers -> ProducerPCs]
  /\ cpc \in [Consumers -> ConsumerPCs]
  /\ nextItem \in 1..MaxItems + 1
  /\ taken \subseteq Items

(* Consumers blocked in WaitAndTake are not left asleep beside queued     *)
(* items: whenever some consumer is blocked on the condition while the    *)
(* queue holds items, eventually the queue empties or no one is blocked.  *)
(* This is what the locked push followed by notify_one / notify_all, and  *)
(* the predicate re-checked under the mutex, must achieve together.       *)
NoItemStrandedBesideSleeper ==
  (waitSet # {} /\ jobQueue # <<>>) ~> (jobQueue = <<>> \/ waitSet = {})

(* Stop "unblocks all WaitAndTake calls" (comment at line 250): a consumer *)
(* blocked in WaitAndTake once the queue is stopped eventually returns.    *)
StopWakesTakers ==
  \A c \in Consumers : (queueStopped /\ cpc[c] = "waiting") ~> cpc[c] = "idle"

(* WaitAndTake "blocks until an item is available or the queue is         *)
(* stopped/cancelled" (spec 4.C): a consumer blocked in WaitAndTake once  *)
(* the token is cancelled eventually returns.                             *)
CancelWakesTakers ==
  \A c \in Consumers : (cancelled /\ cpc[c] = "waiting") ~> cpc[c] = "idle"

(* Enqueue and EnqueueMultiple reject items once the queue is stopped or  *)
(* cancelled (lines 182-184, 206-208): no step adds items to a stopped or *)
(* cancelled queue.                                                       *)
NoEnqueueAfterStop ==
  [][StoppedOrCancelled => Len(jobQueue') <= Len(jobQueue)]_vars

(* The queue implements FifoQueue: items leave oldest first and at most   *)
(* once, batches enter whole, Clear discards, Stop is for good.           *)
Fifo == INSTANCE FifoQueue WITH queue <- jobQueue, stopped <- queueStopped

FifoRefinement == Fifo!Spec
=============================================================================
