------------------------------ MODULE ThreadPool ------------------------------
(***************************************************************************)
(* The reusable batch pool of src/shared/ThreadPool.{h,cpp}: the map-owner  *)
(* threads of MapManager and the motion and visibility threads of Map.  An  *)
(* owner publishes a workload, every participating worker runs its share,   *)
(* and the last one to leave completes the batch's future.                  *)
(*                                                                         *)
(* A critical section under m_mutex is one action.  The lock-free part of   *)
(* RunWorker is one action per access to an atomic or per callable.  The    *)
(* condition variables are explicit: a waiter that finds its predicate      *)
(* false sleeps until a notify_all (or a spurious wakeup) sends it back to  *)
(* test the predicate again.                                                *)
(***************************************************************************)
EXTENDS Integers, Sequences, FiniteSets

CONSTANTS
    Size,           \* m_size, the number of threads
    ClearModes,     \* the clear modes pools are constructed with
    ErrorModes,     \* the error modes pools are constructed with
    MaxWork,        \* bound: callables in one workload
    MaxBatches      \* bound: batches published in one behaviour

ASSUME SizeAssumption == Size \in Nat
ASSUME ModeAssumption ==
    /\ ClearModes \subseteq {"NEVER", "UPPON_COMPLETION", "AT_NEXT_WORKLOAD"}
    /\ ErrorModes \subseteq {"NONE", "IGNORE", "LOG", "TERMINATE"}
ASSUME BoundAssumption == MaxWork \in Nat /\ MaxBatches \in Nat

Workers == 0 .. Size - 1
NoIndex == -1

VARIABLES
    clearMode,      \* m_clearMode
    errorHandling,  \* m_errorHandling
    multi,          \* argument of start: MultiQueue (stride m_size) or SingleQueue
    status,         \* m_status
    workload,       \* m_workload: a callable is the m_generation it was queued in
    errors,         \* Len(m_errors)
    index,          \* m_index
    failed,         \* m_failed
    generation,     \* m_generation
    active,         \* m_active
    participants,   \* m_participants
    dirty,          \* m_dirty
    stopping,       \* m_stopping
    future,         \* future[g]: the state of the future of batch g
    pc, seen, at,   \* per worker: control point, local seen, local index
    owner,          \* control point of the destructor, "live" before it starts
    ran,            \* history: executions of each index in this batch
    threw,          \* history: some callable of this batch threw
    published       \* history: size of the workload of this batch

modeVars == <<clearMode, errorHandling, multi>>
poolVars == <<status, workload, errors, index, failed, generation, active,
              participants, dirty, stopping>>
workerVars == <<pc, seen, at>>
historyVars == <<ran, threw, published>>
vars == <<modeVars, poolVars, future, workerVars, owner, historyVars>>

\* A worker between reading the published batch and leaving it.
InBatch == {"pre", "raisePre", "fetch", "test", "task", "raiseTask",
            "post", "raisePost"}
PCs == InBatch \cup {"unborn", "check", "sleep", "leave", "exited"}

Init ==
    /\ clearMode \in ClearModes /\ errorHandling \in ErrorModes /\ multi = FALSE
    /\ status = "STOPPED" /\ workload = <<>> /\ errors = 0
    /\ index = 0 /\ failed = FALSE /\ generation = 0
    /\ active = 0 /\ participants = 0 /\ dirty = FALSE /\ stopping = FALSE
    /\ future = [g \in 1 .. MaxBatches |-> "none"]
    /\ pc = [w \in Workers |-> "unborn"]
    /\ seen = [w \in Workers |-> 0]
    /\ at = [w \in Workers |-> NoIndex]
    /\ owner = "live"
    /\ ran = [i \in 0 .. MaxWork - 1 |-> 0] /\ threw = FALSE /\ published = 0

-----------------------------------------------------------------------------
(* The owner's calls.  A call that RequireIdle rejects throws before it has  *)
(* changed anything, so the rejected calls are the stutters.                 *)

\* Fault: a batch may be replaced while its last worker still runs.
IdleTooSoon == active <= 1 /\ ~stopping

RequireIdle == active = 0 /\ ~stopping

\* Fault: notify_one wakes the first thread only.
NotifyOne(p) == [w \in Workers |-> IF p[w] = "sleep" /\ w = 0 THEN "check" ELSE p[w]]

\* m_ready.notify_all(): every sleeping worker tests its predicate again.
NotifyReady(p) == [w \in Workers |-> IF p[w] = "sleep" THEN "check" ELSE p[w]]

\* The n-th thread of the loop may fail to start: the n before it run.
StartWorkers ==
    /\ owner = "live" /\ status = "STOPPED" /\ Size > 0
    /\ \E n \in 0 .. Size :
         /\ pc' = [w \in Workers |-> IF w < n THEN "check" ELSE "unborn"]
         /\ status' = IF n = Size THEN "READY" ELSE "STARTING"
         /\ stopping' = (n < Size)
    /\ multi' \in BOOLEAN
    /\ UNCHANGED <<clearMode, errorHandling, workload, errors, index, failed,
                   generation, active, participants, dirty, future, seen, at, owner, historyVars>>

\* Fault: a batch expects one departure per callable.
OnePerCallable(work) == Len(work)

ParticipantsFor(work) == IF Size < Len(work) THEN Size ELSE Len(work)

\* Publish with the workload and the dirty flag its caller leaves behind.
Publish(work, d) ==
    IF status # "READY" \/ work = <<>>
    THEN /\ workload' = work /\ dirty' = d
         /\ UNCHANGED <<modeVars, status, errors, index, failed, generation, active,
                        participants, stopping, future, workerVars, owner,
                        historyVars>>
    ELSE /\ generation < MaxBatches
         /\ workload' = work /\ dirty' = TRUE
         /\ errors' = 0 /\ failed' = FALSE /\ index' = 0
         /\ participants' = ParticipantsFor(work)
         /\ active' = participants'
         /\ generation' = generation + 1
         /\ status' = "PROCESSING"
         /\ pc' = NotifyReady(pc)
         /\ future' = [future EXCEPT ![generation + 1] = "pending"]
         /\ ran' = [i \in DOMAIN ran |-> 0]
         /\ threw' = FALSE /\ published' = Len(work)
         /\ UNCHANGED <<modeVars, stopping, seen, at, owner>>

\* The queue as AT_NEXT_WORKLOAD finds it when the next one begins.
KeptWork == IF clearMode = "AT_NEXT_WORKLOAD" /\ dirty THEN <<>> ELSE workload

\* processWorkload(pre, post): run what operator<< has queued.
ProcessQueued ==
    /\ owner = "live" /\ RequireIdle
    /\ Publish(KeptWork, dirty /\ clearMode # "AT_NEXT_WORKLOAD")

\* processWorkload(work, pre, post), by reference or by move.
ProcessGiven ==
    /\ owner = "live" /\ RequireIdle
    /\ \E n \in 0 .. MaxWork : Publish([i \in 1 .. n |-> generation], dirty)

\* operator<<
QueueCallable ==
    /\ owner = "live" /\ RequireIdle
    /\ Len(KeptWork) < MaxWork
    /\ workload' = Append(KeptWork, generation)
    /\ dirty' = FALSE
    /\ UNCHANGED <<modeVars, status, errors, index, failed, generation, active,
                   participants, stopping, future, workerVars, owner,
                   historyVars>>

ClearWorkload ==
    /\ owner = "live" /\ RequireIdle
    /\ workload' = <<>> /\ dirty' = FALSE
    /\ UNCHANGED <<modeVars, status, errors, index, failed, generation, active,
                   participants, stopping, future, workerVars, owner,
                   historyVars>>

\* The destructor: wait on m_idle, raise m_stopping, notify, join.
Destroy ==
    /\ owner = "live"
    /\ owner' = "checkIdle"
    /\ UNCHANGED <<modeVars, poolVars, future, workerVars, historyVars>>

DestroyCheckIdle ==
    /\ owner = "checkIdle"
    /\ IF active = 0
       THEN /\ owner' = "notify" /\ stopping' = TRUE /\ status' = "TERMINATING"
       ELSE /\ owner' = "sleepIdle" /\ UNCHANGED <<stopping, status>>
    /\ UNCHANGED <<modeVars, workload, errors, index, failed, generation, active,
                   participants, dirty, future, workerVars, historyVars>>

DestroyNotify ==
    /\ owner = "notify"
    /\ owner' = "join"
    /\ pc' = NotifyReady(pc)
    /\ UNCHANGED <<modeVars, poolVars, future, seen, at, historyVars>>

DestroyJoin ==
    /\ owner = "join"
    /\ \A w \in Workers : pc[w] \in {"unborn", "exited"}
    /\ owner' = "gone"
    /\ UNCHANGED <<modeVars, poolVars, future, workerVars, historyVars>>

-----------------------------------------------------------------------------
(* RunWorker                                                                *)

\* The critical section around m_ready.wait.
Wake(w) ==
    /\ pc[w] = "check"
    /\ \/ /\ stopping
          /\ pc' = [pc EXCEPT ![w] = "exited"]
          /\ UNCHANGED <<seen, at>>
       \/ /\ ~stopping /\ generation = seen[w]
          /\ pc' = [pc EXCEPT ![w] = "sleep"]
          /\ UNCHANGED <<seen, at>>
       \/ /\ ~stopping /\ generation # seen[w]
          /\ seen' = [seen EXCEPT ![w] = generation]
          /\ at' = [at EXCEPT ![w] = NoIndex]
          /\ pc' = [pc EXCEPT ![w] = IF w < participants THEN "pre" ELSE "check"]
    /\ UNCHANGED <<modeVars, poolVars, future, owner, historyVars>>

SpuriousWake(w) ==
    /\ pc[w] = "sleep"
    /\ pc' = [pc EXCEPT ![w] = "check"]
    /\ UNCHANGED <<modeVars, poolVars, future, seen, at, owner, historyVars>>

\* Where RunWorker goes on after a callable, and where Execute's handler is.
After == [pre |-> "fetch", task |-> "fetch", post |-> "leave"]
Raise == [pre |-> "raisePre", task |-> "raiseTask", post |-> "raisePost"]
Callables == {"pre", "task", "post"}

\* Fault: m_failed is raised for every mode but never for NONE.
RaisesForLog == errorHandling \in {"LOG", "TERMINATE"}

RaisesFailed == errorHandling \in {"NONE", "TERMINATE"}

\* Execute(m_pre), Execute(m_workload[index]), Execute(m_post): the callable
\* returns, or throws and its exception is pushed to m_errors under the lock.
Execute(w) ==
    /\ pc[w] \in Callables
    /\ ran' = IF pc[w] = "task" THEN [ran EXCEPT ![at[w]] = @ + 1] ELSE ran
    /\ \/ /\ pc' = [pc EXCEPT ![w] = After[pc[w]]]
          /\ UNCHANGED <<errors, threw>>
       \/ /\ pc' = [pc EXCEPT ![w] = Raise[pc[w]]]
          /\ errors' = errors + 1 /\ threw' = TRUE
    /\ UNCHANGED <<modeVars, status, workload, index, failed, generation, active,
                   participants, dirty, stopping, future, seen, at, owner,
                   published>>

\* The end of Execute's handler: m_failed is an atomic outside the lock.
RaiseFailed(w) ==
    /\ \E c \in Callables :
         /\ pc[w] = Raise[c]
         /\ pc' = [pc EXCEPT ![w] = After[c]]
    /\ failed' = (failed \/ RaisesFailed)
    /\ UNCHANGED <<modeVars, status, workload, errors, index, generation, active,
                   participants, dirty, stopping, future, seen, at, owner,
                   historyVars>>

\* Fault: the stride of a MultiQueue worker is 1.
StrideOne(w) == IF at[w] = NoIndex THEN w ELSE at[w] + 1

MultiIndex(w) == IF at[w] = NoIndex THEN w ELSE at[w] + Size

Fetch(w) ==
    /\ pc[w] = "fetch"
    /\ pc' = [pc EXCEPT ![w] = "test"]
    /\ at' = [at EXCEPT ![w] = IF multi THEN MultiIndex(w) ELSE index]
    /\ index' = IF multi THEN index ELSE index + 1
    /\ UNCHANGED <<modeVars, status, workload, errors, failed, generation, active,
                   participants, dirty, stopping, future, seen, owner,
                   historyVars>>

Test(w) ==
    /\ pc[w] = "test"
    /\ pc' = [pc EXCEPT ![w] =
                IF at[w] < Len(workload) /\ ~failed THEN "task" ELSE "post"]
    /\ UNCHANGED <<modeVars, poolVars, future, seen, at, owner, historyVars>>

ClearsOnCompletion == clearMode = "UPPON_COMPLETION"

\* Fault: the first worker out completes the batch.
FirstOut == active > 0

LastOut == active = 1

\* The closing critical section: the last worker out completes the batch.
Leave(w) ==
    /\ pc[w] = "leave"
    /\ pc' = [pc EXCEPT ![w] = "check"]
    /\ active' = active - 1
    /\ IF LastOut
       THEN /\ workload' = IF ClearsOnCompletion THEN <<>> ELSE workload
            /\ status' = "READY"
            /\ future' = [future EXCEPT ![generation] =
                            IF failed /\ errors > 0 THEN "exception" ELSE "value"]
            /\ owner' = IF owner = "sleepIdle" THEN "checkIdle" ELSE owner
       ELSE UNCHANGED <<workload, status, future, owner>>
    /\ UNCHANGED <<modeVars, errors, index, failed, generation, participants, dirty,
                   stopping, seen, at, historyVars>>

WorkerStep(w) ==
    Wake(w) \/ Execute(w) \/ RaiseFailed(w) \/ Fetch(w) \/ Test(w) \/ Leave(w)

DestructorStep == DestroyCheckIdle \/ DestroyNotify \/ DestroyJoin

Terminated == owner = "gone" /\ UNCHANGED vars

Next ==
    \/ StartWorkers \/ ProcessQueued \/ ProcessGiven \/ QueueCallable
    \/ ClearWorkload \/ Destroy \/ DestructorStep
    \/ \E w \in Workers : WorkerStep(w) \/ SpuriousWake(w)
    \/ Terminated

\* Threads are scheduled and callables return; nobody has to publish, to
\* destroy the pool or to be woken spuriously.
Spec == /\ Init /\ [][Next]_vars
        /\ \A w \in Workers : WF_vars(WorkerStep(w))
        /\ WF_vars(DestructorStep)

-----------------------------------------------------------------------------
TypeOK ==
    /\ clearMode \in ClearModes /\ errorHandling \in ErrorModes /\ multi \in BOOLEAN
    /\ status \in {"STOPPED", "STARTING", "READY", "PROCESSING", "TERMINATING"}
    /\ workload \in Seq(Nat)
    /\ errors \in Nat /\ index \in Nat /\ failed \in BOOLEAN
    /\ generation \in 0 .. MaxBatches
    /\ active \in 0 .. Size /\ participants \in 0 .. Size
    /\ dirty \in BOOLEAN /\ stopping \in BOOLEAN
    /\ future \in [1 .. MaxBatches -> {"none", "pending", "value", "exception"}]
    /\ pc \in [Workers -> PCs]
    /\ seen \in [Workers -> 0 .. MaxBatches]
    /\ at \in [Workers -> Nat \cup {NoIndex}]
    /\ owner \in {"live", "checkIdle", "sleepIdle", "notify", "join", "gone"}
    /\ ran \in [0 .. MaxWork - 1 -> Nat]
    /\ threw \in BOOLEAN /\ published \in 0 .. MaxWork

\* "join ALL workers, then permit reuse" (ThreadPool.h): once a batch's future
\* is complete no worker is still inside the batch, so the map objects its
\* callables captured may be released.
JoinsAllWorkers ==
    \A g \in 1 .. MaxBatches :
        future[g] \in {"value", "exception"} =>
            \A w \in Workers : seen[w] = g => pc[w] \notin InBatch

\* The shared counter of a SingleQueue, and the strides of a MultiQueue, give
\* no callable of a batch to two workers.
RunsOnce == \A i \in DOMAIN ran : ran[i] <= 1

\* Unless the mode is NEVER, a running batch holds nothing that was queued
\* before the previous batch was published.
HoldsFreshWork ==
    clearMode # "NEVER" /\ active > 0 =>
        \A i \in DOMAIN workload : workload[i] = generation - 1

\* What the future of the latest batch says is true of the work queued for it,
\* and of nothing older: a value means that every callable ran and, in the
\* modes that stop a batch, that none threw; an exception means that one did.
CompletionIsHonest ==
    /\ HoldsFreshWork
    /\ generation > 0 =>
        /\ future[generation] = "value" =>
             /\ \A i \in 0 .. published - 1 : ran[i] = 1
             /\ errorHandling \in {"NONE", "TERMINATE"} => ~threw
        /\ future[generation] = "exception" =>
             threw /\ errorHandling \in {"NONE", "TERMINATE"}

\* "Publish immutable work" (ThreadPool.h): RunWorker reads m_workload without
\* the lock, so no step may change it while a worker is inside the batch.
WorkIsImmutable ==
    [][(\E w \in Workers : pc[w] \in InBatch) => workload' = workload]_vars

\* "batch completion remains guaranteed" (ThreadPool::Execute): every
\* published batch completes, whatever its callables throw.
BatchCompletes ==
    \A g \in 1 .. MaxBatches : future[g] = "pending" ~> future[g] # "pending"

\* The destructor never waits for ever, on m_idle or in join().
DestructorReturns == owner = "checkIdle" ~> owner = "gone"
=============================================================================
