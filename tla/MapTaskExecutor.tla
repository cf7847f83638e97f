--------------------------- MODULE MapTaskExecutor ---------------------------
(***************************************************************************)
(* The bounded task lane of src/shared/MapTaskExecutor.h and the MapTaskJoin *)
(* its callers (Map's cell discovery, object-update build and idle-bot       *)
(* batches) hold while their map data is captured by queued tasks.           *)
(*                                                                         *)
(* An owner is a map-owner thread that submits one group of tasks and joins  *)
(* it.  Critical sections under `mutex` are single actions; notify_one,      *)
(* notify_all and the running of a task are steps of their own.  A           *)
(* packaged_task stores what it throws in its future.                        *)
(***************************************************************************)
EXTENDS Naturals, Sequences, FiniteSets

CONSTANTS
    Owners,     \* the submitting threads
    MaxCount,   \* bound: worker threads an executor is configured with
    GroupSize,  \* bound: tasks of one group
    Capacity    \* the limit on the queue (256 in the code)

ASSUME OwnersAssumption == IsFiniteSet(Owners)
ASSUME BoundAssumption ==
    MaxCount \in Nat /\ GroupSize \in Nat /\ Capacity \in Nat \ {0}

Workers == 1 .. MaxCount
Tasks == Owners \X (1 .. GroupSize)
NoTask == <<>>

VARIABLES
    count,      \* the constructor's parameter
    exec,       \* where the constructor or the destructor is
    stopping,   \* stopping
    queue,      \* queue
    wpc,        \* control point of each worker
    held,       \* the task a worker has taken off the queue
    task,       \* the state of each task's future
    opc,        \* control point of each owner
    nextTask,   \* the next task of the owner's group
    verdict,    \* what the owner's join reported
    runs        \* history: how often each task was executed

execVars == <<count, exec, stopping>>
workerVars == <<wpc, held>>
ownerVars == <<opc, nextTask, verdict>>
vars == <<execVars, queue, workerVars, task, ownerVars, runs>>

Init ==
    /\ count \in 0 .. MaxCount
    /\ exec = "constructing" /\ stopping = FALSE /\ queue = <<>>
    /\ wpc = [w \in Workers |-> "none"] /\ held = [w \in Workers |-> NoTask]
    /\ task = [t \in Tasks |-> "new"]
    /\ opc = [o \in Owners |-> "idle"] /\ nextTask = [o \in Owners |-> 1]
    /\ verdict = [o \in Owners |-> "none"]
    /\ runs = [t \in Tasks |-> 0]

-----------------------------------------------------------------------------
(* Construction and Stop                                                    *)

Started == Cardinality({w \in Workers : wpc[w] # "none"})

\* One turn of the constructor's loop: the thread reports that enter()
\* returned, or fails and the workers started before it are stopped.
StartWorker ==
    /\ exec = "constructing" /\ Started < count
    /\ \/ /\ wpc' = [wpc EXCEPT ![Started + 1] = "check"]
          /\ UNCHANGED <<exec, stopping>>
       \/ /\ stopping' = TRUE /\ exec' = "notify"
          /\ UNCHANGED wpc
    /\ UNCHANGED <<count, queue, held, task, ownerVars, runs>>

Constructed ==
    /\ exec = "constructing" /\ Started = count
    /\ exec' = "live"
    /\ UNCHANGED <<count, stopping, queue, workerVars, task, ownerVars, runs>>

StopRequest ==
    /\ exec = "live"
    /\ stopping' = TRUE /\ exec' = "notify"
    /\ UNCHANGED <<count, queue, workerVars, task, ownerVars, runs>>

\* Fault: notify_one instead of notify_all.
StopNotifyOne ==
    /\ exec = "notify" /\ exec' = "join"
    /\ wpc' = [w \in Workers |->
                 IF wpc[w] = "sleep" /\ (\A v \in Workers : wpc[v] = "sleep" => w <= v)
                 THEN "check" ELSE wpc[w]]
    /\ UNCHANGED <<count, stopping, queue, held, task, ownerVars, runs>>

StopNotify ==
    /\ exec = "notify" /\ exec' = "join"
    /\ wpc' = [w \in Workers |-> IF wpc[w] = "sleep" THEN "check" ELSE wpc[w]]
    /\ UNCHANGED <<count, stopping, queue, held, task, ownerVars, runs>>

StopJoin ==
    /\ exec = "join" /\ \A w \in Workers : wpc[w] \in {"none", "exited"}
    /\ exec' = "gone"
    /\ UNCHANGED <<count, stopping, queue, workerVars, task, ownerVars, runs>>

-----------------------------------------------------------------------------
(* Submit                                                                   *)

Current(o) == <<o, nextTask[o]>>

BeginGroup(o) ==
    /\ opc[o] = "idle" /\ exec = "live"
    /\ opc' = [opc EXCEPT ![o] = "submit"]
    /\ UNCHANGED <<execVars, queue, workerVars, task, nextTask, verdict, runs>>

Full == Len(queue) >= Capacity

\* Submit up to the end of its critical section: it throws once the executor
\* stops, the task runs on the caller when there is no thread or no room.
Submit(o) ==
    /\ opc[o] = "submit" /\ nextTask[o] <= GroupSize
    /\ \/ /\ count = 0 \/ (~stopping /\ Full)
          /\ opc' = [opc EXCEPT ![o] = "inline"]
          /\ task' = [task EXCEPT ![Current(o)] = "run"]
          /\ UNCHANGED queue
       \/ /\ count > 0 /\ stopping
          /\ opc' = [opc EXCEPT ![o] = "unwind"]
          /\ UNCHANGED <<queue, task>>
       \/ /\ count > 0 /\ ~stopping /\ ~Full
          /\ opc' = [opc EXCEPT ![o] = "notify"]
          /\ task' = [task EXCEPT ![Current(o)] = "queued"]
          /\ queue' = Append(queue, Current(o))
    /\ UNCHANGED <<execVars, workerVars, nextTask, verdict, runs>>

\* Fault: Submit does not notify.
NotifyNobody(o) ==
    /\ opc[o] = "notify"
    /\ opc' = [opc EXCEPT ![o] = "submit"]
    /\ nextTask' = [nextTask EXCEPT ![o] = @ + 1]
    /\ UNCHANGED <<execVars, queue, workerVars, task, verdict, runs>>

\* ready.notify_one() wakes any one sleeping worker.
NotifyOne(o) ==
    /\ opc[o] = "notify"
    /\ \/ \E w \in Workers : wpc[w] = "sleep" /\ wpc' = [wpc EXCEPT ![w] = "check"]
       \/ /\ \A w \in Workers : wpc[w] # "sleep"
          /\ UNCHANGED wpc
    /\ opc' = [opc EXCEPT ![o] = "submit"]
    /\ nextTask' = [nextTask EXCEPT ![o] = @ + 1]
    /\ UNCHANGED <<execVars, queue, held, task, verdict, runs>>

\* The function of a task returns or throws; its future becomes ready.
Finishes(t) ==
    /\ \E r \in {"value", "exception"} : task' = [task EXCEPT ![t] = r]
    /\ runs' = [runs EXCEPT ![t] = @ + 1]

RunInline(o) ==
    /\ opc[o] = "inline"
    /\ Finishes(Current(o))
    /\ opc' = [opc EXCEPT ![o] = "submit"]
    /\ nextTask' = [nextTask EXCEPT ![o] = @ + 1]
    /\ UNCHANGED <<execVars, queue, workerVars, verdict>>

-----------------------------------------------------------------------------
(* MapTaskJoin                                                              *)

\* The futures in group.tasks: those Submit has returned.
Submitted(o) == {o} \X (1 .. nextTask[o] - 1)
Ready(t) == task[t] \in {"value", "exception"}

\* Fault: Get stops waiting at the first failure.
GetUntilFailure(o) ==
    /\ opc[o] = "submit" /\ nextTask[o] = GroupSize + 1
    /\ \/ \A t \in Submitted(o) : Ready(t)
       \/ \E t \in Submitted(o) : task[t] = "exception"
    /\ opc' = [opc EXCEPT ![o] = "released"]
    /\ verdict' = [verdict EXCEPT ![o] =
         IF \E t \in Submitted(o) : task[t] = "exception" THEN "exception" ELSE "value"]
    /\ UNCHANGED <<execVars, queue, workerVars, task, nextTask, runs>>

\* Get(): wait for every future, keep the first failure, rethrow it at the
\* end; the captures are released when the owner leaves the scope.
Get(o) ==
    /\ opc[o] = "submit" /\ nextTask[o] = GroupSize + 1
    /\ \A t \in Submitted(o) : Ready(t)
    /\ opc' = [opc EXCEPT ![o] = "released"]
    /\ verdict' = [verdict EXCEPT ![o] =
         IF \E t \in Submitted(o) : task[t] = "exception" THEN "exception" ELSE "value"]
    /\ UNCHANGED <<execVars, queue, workerVars, task, nextTask, runs>>

\* ~MapTaskJoin while Submit's exception unwinds the owner.
Unwind(o) ==
    /\ opc[o] = "unwind"
    /\ \A t \in Submitted(o) : Ready(t)
    /\ opc' = [opc EXCEPT ![o] = "released"]
    /\ verdict' = [verdict EXCEPT ![o] = "exception"]
    /\ UNCHANGED <<execVars, queue, workerVars, task, nextTask, runs>>

-----------------------------------------------------------------------------
(* The worker loop                                                          *)

\* Fault: a worker leaves as soon as the executor stops.
ExitsAtOnce == stopping

Exits == stopping /\ queue = <<>>

\* Fault: the front of the queue is taken but not popped.
TakeWithoutPop(w) ==
    /\ wpc[w] = "check"
    /\ \/ /\ queue # <<>> /\ ~Exits
          /\ wpc' = [wpc EXCEPT ![w] = "run"]
          /\ held' = [held EXCEPT ![w] = Head(queue)]
          /\ task' = [task EXCEPT ![Head(queue)] = "run"]
       \/ /\ Exits
          /\ wpc' = [wpc EXCEPT ![w] = "exited"]
          /\ UNCHANGED <<held, task>>
       \/ /\ queue = <<>> /\ ~Exits
          /\ wpc' = [wpc EXCEPT ![w] = "sleep"]
          /\ UNCHANGED <<held, task>>
    /\ UNCHANGED <<execVars, queue, ownerVars, runs>>

Take(w) ==
    /\ wpc[w] = "check"
    /\ \/ /\ queue # <<>> /\ ~Exits
          /\ wpc' = [wpc EXCEPT ![w] = "run"]
          /\ held' = [held EXCEPT ![w] = Head(queue)]
          /\ task' = [task EXCEPT ![Head(queue)] = "run"]
          /\ queue' = Tail(queue)
       \/ /\ Exits
          /\ wpc' = [wpc EXCEPT ![w] = "exited"]
          /\ UNCHANGED <<held, task, queue>>
       \/ /\ queue = <<>> /\ ~Exits
          /\ wpc' = [wpc EXCEPT ![w] = "sleep"]
          /\ UNCHANGED <<held, task, queue>>
    /\ UNCHANGED <<execVars, ownerVars, runs>>

Run(w) ==
    /\ wpc[w] = "run"
    /\ Finishes(held[w])
    /\ held' = [held EXCEPT ![w] = NoTask]
    /\ wpc' = [wpc EXCEPT ![w] = "check"]
    /\ UNCHANGED <<execVars, queue, ownerVars>>

SpuriousWake(w) ==
    /\ wpc[w] = "sleep"
    /\ wpc' = [wpc EXCEPT ![w] = "check"]
    /\ UNCHANGED <<execVars, queue, held, task, ownerVars, runs>>

-----------------------------------------------------------------------------
ExecStep == StartWorker \/ Constructed \/ StopNotify \/ StopJoin
OwnerStep(o) == Submit(o) \/ NotifyOne(o) \/ RunInline(o) \/ Get(o) \/ Unwind(o)
WorkerStep(w) == Take(w) \/ Run(w)

Terminated ==
    /\ exec = "gone" /\ \A o \in Owners : opc[o] \in {"idle", "released"}
    /\ UNCHANGED vars

Next ==
    \/ ExecStep \/ StopRequest
    \/ \E o \in Owners : BeginGroup(o) \/ OwnerStep(o)
    \/ \E w \in Workers : WorkerStep(w) \/ SpuriousWake(w)
    \/ Terminated

\* Threads are scheduled and tasks return.  Nobody has to begin a group or to
\* stop the executor, and no spurious wakeup has to happen.
Spec == /\ Init /\ [][Next]_vars
        /\ WF_vars(ExecStep)
        /\ \A o \in Owners : WF_vars(OwnerStep(o))
        /\ \A w \in Workers : WF_vars(WorkerStep(w))

-----------------------------------------------------------------------------
TypeOK ==
    /\ count \in 0 .. MaxCount
    /\ exec \in {"constructing", "live", "notify", "join", "gone"}
    /\ stopping \in BOOLEAN
    /\ queue \in Seq(Tasks)
    /\ wpc \in [Workers -> {"none", "check", "sleep", "run", "exited"}]
    /\ held \in [Workers -> Tasks \cup {NoTask}]
    /\ task \in [Tasks -> {"new", "queued", "run", "value", "exception"}]
    /\ opc \in [Owners -> {"idle", "submit", "notify", "inline", "unwind", "released"}]
    /\ nextTask \in [Owners -> 1 .. GroupSize + 1]
    /\ verdict \in [Owners -> {"none", "value", "exception"}]
    /\ runs \in [Tasks -> Nat]

\* "Even an exception or a timeout must NOT let captured map/grid data escape"
\* (MapTaskJoin): an owner that has left its scope, normally or by an
\* exception, has no task that could still run.
CapturesOutliveTasks ==
    \A t \in Tasks : opc[t[1]] = "released" => task[t] \notin {"queued", "run"}

\* However workers, owners that run tasks themselves and a stop interleave: no
\* task is executed twice, an owner that has left its scope has had every task
\* it submitted executed, and one whose join reports no failure its whole group.
ExecutedOnce ==
    /\ \A t \in Tasks : runs[t] <= 1
    /\ \A o \in Owners : opc[o] = "released" => \A t \in Submitted(o) : runs[t] = 1
    /\ \A o \in Owners : verdict[o] = "value" =>
         \A n \in 1 .. GroupSize : runs[<<o, n>>] = 1

\* "Destruction drains accepted jobs": a stopped executor leaves no task
\* behind in its queue or in a worker.
DestructionDrains ==
    exec = "gone" => \A t \in Tasks : task[t] # "queued"

\* "cannot deadlock other owners" (Submit): an owner that has begun a group
\* leaves it, however full the lane is and whenever the executor stops.
OwnersGetThrough == \A o \in Owners : opc[o] = "submit" ~> opc[o] = "released"

\* The destructor and a failing constructor return.
StopReturns == exec = "notify" ~> exec = "gone"
=============================================================================
