------------------------ MODULE MapTaskExecutorProofs ------------------------
(***************************************************************************)
(* For any number of owners and worker threads, groups and queues of any     *)
(* length: no task outlives the scope of its owner, every task is executed   *)
(* once before its owner leaves, and destruction drains the lane.             *)
(*                                                                         *)
(* None of the three is inductive by itself.  Where a task is (not submitted, *)
(* in the queue, with one worker, with its owner, ready) has to agree with   *)
(* its future (Placed), and no task may be in two places (HeldOnce,          *)
(* QueuedOnce).                                                              *)
(***************************************************************************)
EXTENDS MapTaskExecutor, FiniteSetTheorems, TLAPS

Indices == 1 .. GroupSize

\* The future of an owner's n-th task by how far the owner is: untouched before
\* its Submit, running while the owner runs it inline.
Placed ==
    /\ \A o \in Owners : \A n \in Indices : n > nextTask[o] => task[<<o, n>>] = "new"
    /\ \A o \in Owners : \A n \in Indices : n < nextTask[o] => task[<<o, n>>] # "new"
    /\ \A o \in Owners : nextTask[o] \in Indices =>
         /\ opc[o] = "inline" => task[Current(o)] = "run"
         /\ opc[o] = "notify" => task[Current(o)] # "new"
         /\ opc[o] \notin {"inline", "notify"} => task[Current(o)] = "new"

\* What a worker runs is not run by another worker or inline by its owner.
HeldOnce ==
    \A w \in Workers : wpc[w] = "run" =>
        /\ held[w] \in Tasks /\ task[held[w]] = "run"
        /\ \A v \in Workers : v # w /\ wpc[v] = "run" => held[v] # held[w]
        /\ \A o \in Owners : opc[o] = "inline" => held[w] # Current(o)

\* The queue holds the queued tasks, each once.
QueuedOnce ==
    /\ \A i \in 1 .. Len(queue) : task[queue[i]] = "queued"
    /\ \A i, j \in 1 .. Len(queue) : i # j => queue[i] # queue[j]
    /\ \A t \in Tasks : task[t] = "queued" => \E i \in 1 .. Len(queue) : queue[i] = t

\* What an owner knows at its control points.
OwnerKnows ==
    \A o \in Owners :
        /\ opc[o] = "idle" => nextTask[o] = 1
        /\ opc[o] \in {"notify", "inline", "unwind"} => nextTask[o] <= GroupSize
        /\ opc[o] = "released" =>
             \A n \in Indices : n < nextTask[o] => Ready(<<o, n>>)

\* Nobody submits before the constructor is done, and then there is a worker
\* unless the executor has none at all.
Attended ==
    /\ exec = "constructing" =>
         /\ queue = <<>> /\ ~stopping
         /\ \A w \in Workers : wpc[w] \in {"none", "check", "sleep"}
         /\ \A o \in Owners : opc[o] = "idle"
    /\ (exec = "live" \/ \E o \in Owners : opc[o] # "idle") =>
         count = 0 \/ \E w \in Workers : wpc[w] # "none"
    /\ exec = "live" => ~stopping
    /\ queue # <<>> => count > 0 /\ \E o \in Owners : opc[o] # "idle"

\* A worker has left only after a stop and from an empty queue.
ExitsLast ==
    /\ \A w \in Workers : wpc[w] = "exited" => stopping /\ queue = <<>>
    /\ exec = "gone" => \A w \in Workers : wpc[w] \in {"none", "exited"}

\* A future is ready exactly when its task was executed, once.
RunsMatch ==
    \A t \in Tasks : runs[t] = IF Ready(t) THEN 1 ELSE 0

\* The join of a released owner found a value in every future of the group, or
\* reported a failure.
JoinKnows ==
    \A o \in Owners : opc[o] = "released" =>
        (verdict[o] = "value" <=> \A n \in 1 .. GroupSize : task[<<o, n>>] = "value")

\* Only a join reports anything.
SilentBefore == \A o \in Owners : verdict[o] # "none" => opc[o] = "released"

ExecutorInv ==
    /\ TypeOK /\ Placed /\ HeldOnce /\ QueuedOnce /\ OwnerKnows /\ Attended
    /\ ExitsLast /\ RunsMatch /\ JoinKnows

\* An owner whose scope is left has no task that may still run.
LEMMA ReleasedIsDone ==
    ASSUME ExecutorInv, NEW o \in Owners, opc[o] = "released", NEW n \in Indices
    PROVE  task[<<o, n>>] \notin {"queued", "run"}
<1> USE BoundAssumption DEF ExecutorInv, TypeOK, Indices
<1>1. CASE n < nextTask[o]
  BY <1>1 DEF OwnerKnows, Ready
<1>2. CASE n > nextTask[o]
  BY <1>2 DEF Placed
<1>3. CASE n = nextTask[o]
  BY <1>3 DEF Placed, Current
<1> QED
  BY <1>1, <1>2, <1>3

\* A step keeps what every join knows when it releases nobody and leaves the tasks
\* and the verdicts of the released owners alone.
LEMMA JoinStays ==
    ASSUME JoinKnows,
           \A o \in Owners : opc'[o] = "released" =>
               /\ opc[o] = "released" /\ verdict'[o] = verdict[o]
               /\ \A n \in Indices : task'[<<o, n>>] = task[<<o, n>>]
    PROVE  JoinKnows'
<1> SUFFICES ASSUME NEW o \in Owners, opc'[o] = "released"
             PROVE  verdict'[o] = "value" <=> \A n \in Indices : task'[<<o, n>>] = "value"
  BY DEF JoinKnows, Indices
<1>1. verdict[o] = "value" <=> \A n \in Indices : task[<<o, n>>] = "value"
  BY DEF JoinKnows, Indices
<1> QED
  BY <1>1

\* A step keeps the queue sound when it leaves the queue alone and no future
\* becomes, or stops being, queued.
LEMMA QueueStays ==
    ASSUME TypeOK, QueuedOnce, queue' = queue,
           \A t \in Tasks : task'[t] = "queued" <=> task[t] = "queued"
    PROVE  QueuedOnce'
<1>1. \A i \in 1 .. Len(queue) : queue[i] \in Tasks
  BY DEF TypeOK
<1>2. \A i \in 1 .. Len(queue) : task'[queue[i]] = "queued"
  BY <1>1 DEF QueuedOnce
<1>3. \A t \in Tasks : task'[t] = "queued" => \E i \in 1 .. Len(queue) : queue[i] = t
  BY DEF QueuedOnce
<1> QED
  BY <1>2, <1>3 DEF QueuedOnce

\* Every step, of the executor, an owner or a worker, preserves the invariant.
LEMMA NextInv == ExecutorInv /\ [Next]_vars => ExecutorInv'
<1> SUFFICES ASSUME ExecutorInv, [Next]_vars PROVE ExecutorInv'
  OBVIOUS
<1> USE OwnersAssumption, BoundAssumption DEF ExecutorInv, Indices
<1>pairs. \A o \in Owners : \A n \in Indices : <<o, n>> \in Tasks
  BY DEF Tasks
<1>elems. \A i \in 1 .. Len(queue) : queue[i] \in Tasks
  BY DEF TypeOK
<1>1. CASE StartWorker
  <2>1. TypeOK'
    <3>1. wpc' \in [Workers -> {"none", "check", "sleep", "run", "exited"}]
      BY <1>1 DEF StartWorker, TypeOK
    <3>2. stopping' \in BOOLEAN
      BY <1>1, Zenon DEF StartWorker, TypeOK
    <3> QED
      BY <1>1, <3>1, <3>2 DEF StartWorker, TypeOK, ownerVars
  <2>2. HeldOnce'
    BY <1>1 DEF StartWorker, ownerVars, TypeOK, HeldOnce, Current
  <2>3. Attended'
    <3>1. \A w \in Workers : wpc'[w] \in {"none", "check", "sleep"}
      BY <1>1 DEF StartWorker, TypeOK, Attended
    <3> QED
      BY <1>1, <3>1 DEF StartWorker, Attended, ownerVars
  <2>4. ExitsLast'
    BY <1>1 DEF StartWorker, TypeOK, ExitsLast
  <2>5. Placed' /\ QueuedOnce' /\ OwnerKnows' /\ RunsMatch' /\ JoinKnows'
    BY <1>1 DEF StartWorker, ownerVars, Placed, Current, QueuedOnce, OwnerKnows, Ready,
       RunsMatch, JoinKnows
  <2> QED
    BY <2>1, <2>2, <2>3, <2>4, <2>5 DEF ExecutorInv
<1>2. CASE Constructed
  <2>1. TypeOK'
    BY <1>2 DEF Constructed, workerVars, ownerVars, TypeOK
  <2>2. Attended'
    <3>1. ASSUME count > 0 PROVE \E w \in Workers : wpc[w] # "none"
      <4>1. Started # 0
        BY <1>2, <3>1 DEF Constructed
      <4>2. {w \in Workers : wpc[w] # "none"} # {}
        BY <4>1, FS_EmptySet DEF Started
      <4> QED
        BY <4>2
    <3> QED
      BY <1>2, <3>1 DEF Constructed, Attended, TypeOK, workerVars
  <2>3. ExitsLast'
    BY <1>2 DEF Constructed, workerVars, ExitsLast
  <2>4. Placed' /\ HeldOnce' /\ QueuedOnce' /\ OwnerKnows' /\ RunsMatch' /\
     JoinKnows'
    BY <1>2 DEF Constructed, workerVars, ownerVars, Placed, Current, HeldOnce, QueuedOnce,
       OwnerKnows, Ready, RunsMatch, JoinKnows
  <2> QED
    BY <2>1, <2>2, <2>3, <2>4 DEF ExecutorInv
<1>3. CASE StopRequest
  <2>1. TypeOK'
    <3>1. stopping' \in BOOLEAN
      BY <1>3, Zenon DEF StopRequest, TypeOK
    <3> QED
      BY <1>3, <3>1 DEF StopRequest, TypeOK, workerVars, ownerVars
  <2>2. Attended'
    BY <1>3 DEF StopRequest, workerVars, ownerVars, Attended
  <2>3. ExitsLast'
    BY <1>3 DEF StopRequest, workerVars, ExitsLast
  <2>4. Placed' /\ HeldOnce' /\ QueuedOnce' /\ OwnerKnows' /\ RunsMatch' /\
     JoinKnows'
    BY <1>3 DEF StopRequest, workerVars, ownerVars, Placed, Current, HeldOnce, QueuedOnce,
       OwnerKnows, Ready, RunsMatch, JoinKnows
  <2> QED
    BY <2>1, <2>2, <2>3, <2>4 DEF ExecutorInv
<1>4. CASE StopNotify
  <2>1. TypeOK'
    BY <1>4 DEF StopNotify, ownerVars, TypeOK
  <2>2. HeldOnce'
    BY <1>4 DEF StopNotify, ownerVars, HeldOnce, Current
  <2>3. Attended'
    BY <1>4 DEF StopNotify, ownerVars, Attended
  <2>4. ExitsLast'
    BY <1>4 DEF StopNotify, ExitsLast
  <2>5. Placed' /\ QueuedOnce' /\ OwnerKnows' /\ RunsMatch' /\ JoinKnows'
    BY <1>4 DEF StopNotify, ownerVars, Placed, Current, QueuedOnce, OwnerKnows, Ready,
       RunsMatch, JoinKnows
  <2> QED
    BY <2>1, <2>2, <2>3, <2>4, <2>5 DEF ExecutorInv
<1>5. CASE StopJoin
  <2>1. TypeOK'
    BY <1>5 DEF StopJoin, workerVars, ownerVars, TypeOK
  <2>2. Attended'
    BY <1>5 DEF StopJoin, workerVars, ownerVars, Attended
  <2>3. ExitsLast'
    BY <1>5 DEF StopJoin, workerVars, ExitsLast
  <2>4. Placed' /\ HeldOnce' /\ QueuedOnce' /\ OwnerKnows' /\ RunsMatch' /\
     JoinKnows'
    BY <1>5 DEF StopJoin, workerVars, ownerVars, Placed, Current, HeldOnce, QueuedOnce,
       OwnerKnows, Ready, RunsMatch, JoinKnows
  <2> QED
    BY <2>1, <2>2, <2>3, <2>4 DEF ExecutorInv
<1>6. ASSUME NEW o \in Owners, BeginGroup(o) PROVE ExecutorInv'
  <2>1. TypeOK'
    BY <1>6 DEF BeginGroup, execVars, workerVars, TypeOK
  <2>2. Placed'
    BY <1>6 DEF BeginGroup, Placed, Current
  <2>3. HeldOnce'
    BY <1>6 DEF BeginGroup, workerVars, HeldOnce, Current
  <2>4. OwnerKnows'
    BY <1>6 DEF BeginGroup, OwnerKnows, Ready
  <2>5. Attended'
    BY <1>6 DEF BeginGroup, execVars, workerVars, Attended
  <2>6. JoinKnows'
    BY <1>6 DEF BeginGroup, JoinKnows
  <2>7. QueuedOnce' /\ ExitsLast' /\ RunsMatch'
    BY <1>6 DEF BeginGroup, execVars, workerVars, QueuedOnce, ExitsLast, RunsMatch,
       Ready
  <2> QED
    BY <2>1, <2>2, <2>3, <2>4, <2>5, <2>6, <2>7 DEF ExecutorInv
<1>7. ASSUME NEW o \in Owners, Submit(o) PROVE ExecutorInv'
  <2> DEFINE c == Current(o)
  <2>0. opc[o] = "submit" /\ nextTask[o] \in Indices
    BY <1>7 DEF Submit, TypeOK
  <2>1. c \in Tasks /\ task[c] = "new" /\ c = <<o, nextTask[o]>>
    BY <2>0, <1>pairs DEF Placed, Current
  <2>2. UNCHANGED <<execVars, workerVars, nextTask, verdict, runs>>
    BY <1>7 DEF Submit
  <2>3. exec # "constructing"
    BY <2>0 DEF Attended
  <2>4. CASE /\ count = 0 \/ (~stopping /\ Full)
             /\ opc' = [opc EXCEPT ![o] = "inline"]
             /\ task' = [task EXCEPT ![c] = "run"]
             /\ UNCHANGED queue
    <3> HIDE DEF c
    <3>1. TypeOK'
      BY <2>0, <2>2, <2>4 DEF execVars, workerVars, TypeOK
    <3>2. Placed'
      BY <2>0, <2>1, <2>2, <2>4, <1>pairs DEF TypeOK, Placed, Current
    <3>3. HeldOnce'
      <4> SUFFICES ASSUME NEW w \in Workers, wpc[w] = "run"
                   PROVE  /\ held[w] \in Tasks /\ task'[held[w]] = "run"
                          /\ \A v \in Workers : v # w /\ wpc[v] = "run" => held[v] # held[w]
                          /\ \A p \in Owners : opc'[p] = "inline" => held[w] # Current(p)
        BY <2>2 DEF HeldOnce, workerVars, Current
      <4>1. held[w] \in Tasks /\ task[held[w]] = "run" /\ held[w] # c
        BY <2>1 DEF HeldOnce
      <4>2. task'[held[w]] = "run"
        BY <4>1, <2>4, <2>1
      <4>3. ASSUME NEW p \in Owners, opc'[p] = "inline" PROVE held[w] # Current(p)
        BY <4>1, <4>3, <2>1, <2>4 DEF HeldOnce, Current
      <4> QED
        BY <4>1, <4>2, <4>3 DEF HeldOnce
    <3>4. QueuedOnce'
      BY <2>1, <2>4, QueueStays
    <3>5. OwnerKnows'
      BY <2>0, <2>1, <2>2, <2>4 DEF OwnerKnows, Ready
    <3>6. Attended'
      BY <2>0, <2>2, <2>4 DEF execVars, workerVars, Attended
    <3>7. RunsMatch'
      BY <2>0, <2>1, <2>2, <2>4 DEF RunsMatch, Ready
    <3>8. JoinKnows'
      BY <2>1, <2>2, <2>4, JoinStays DEF TypeOK
    <3>9. ExitsLast'
      BY <2>0, <2>2, <2>4 DEF execVars, workerVars, ExitsLast
    <3> QED
      BY <3>1, <3>2, <3>3, <3>4, <3>5, <3>6, <3>7, <3>8, <3>9 DEF ExecutorInv
  <2>5. CASE /\ count > 0 /\ stopping
             /\ opc' = [opc EXCEPT ![o] = "unwind"]
             /\ UNCHANGED <<queue, task>>
    <3> HIDE DEF c
    <3>1. TypeOK'
      BY <2>0, <2>2, <2>5 DEF execVars, workerVars, TypeOK
    <3>2. Placed'
      BY <2>0, <2>2, <2>5 DEF Placed, Current
    <3>3. HeldOnce'
      BY <2>0, <2>2, <2>5 DEF workerVars, HeldOnce, Current
    <3>4. OwnerKnows'
      BY <2>0, <2>2, <2>5 DEF OwnerKnows, Ready
    <3>5. Attended'
      BY <2>0, <2>2, <2>5 DEF execVars, workerVars, Attended
    <3>6. JoinKnows'
      BY <2>1, <2>2, <2>5, JoinStays
    <3>7. QueuedOnce' /\ ExitsLast' /\ RunsMatch'
      BY <2>0, <2>2, <2>5 DEF execVars, workerVars, QueuedOnce, ExitsLast, RunsMatch,
         Ready
    <3> QED
      BY <3>1, <3>2, <3>3, <3>4, <3>5, <3>6, <3>7 DEF ExecutorInv
  <2>6. CASE /\ count > 0 /\ ~stopping /\ ~Full
             /\ opc' = [opc EXCEPT ![o] = "notify"]
             /\ task' = [task EXCEPT ![c] = "queued"]
             /\ queue' = Append(queue, c)
    <3> HIDE DEF c
    <3>1. /\ queue' \in Seq(Tasks) /\ Len(queue') = Len(queue) + 1 /\ queue'[Len(queue')] = c
          /\ \A i \in 1 .. Len(queue) : queue'[i] = queue[i]
      BY <2>1, <2>6 DEF TypeOK
    <3>2. \A i \in 1 .. Len(queue) : queue[i] \in Tasks /\ queue[i] # c
      BY <2>1, <1>elems DEF QueuedOnce
    <3>3. Len(queue) \in Nat
      OBVIOUS
    <3>q1. TypeOK'
      BY <2>0, <2>2, <2>6, <3>1 DEF execVars, workerVars, TypeOK
    <3>q2. Placed'
      BY <2>0, <2>1, <2>2, <2>6, <1>pairs DEF TypeOK, Placed, Current
    <3>q3. HeldOnce'
      <4> SUFFICES ASSUME NEW w \in Workers, wpc[w] = "run"
                   PROVE  /\ held[w] \in Tasks /\ task'[held[w]] = "run"
                          /\ \A v \in Workers : v # w /\ wpc[v] = "run" => held[v] # held[w]
                          /\ \A p \in Owners : opc'[p] = "inline" => held[w] # Current(p)
        BY <2>2 DEF HeldOnce, workerVars, Current
      <4>1. held[w] \in Tasks /\ task[held[w]] = "run" /\ held[w] # c
        BY <2>1 DEF HeldOnce
      <4>2. task'[held[w]] = "run"
        BY <4>1, <2>6, <2>1
      <4>3. ASSUME NEW p \in Owners, opc'[p] = "inline" PROVE held[w] # Current(p)
        BY <4>1, <4>3, <2>6 DEF HeldOnce
      <4> QED
        BY <4>1, <4>2, <4>3 DEF HeldOnce
    <3>q4. QueuedOnce'
      <4>1. \A i \in 1 .. Len(queue') : task'[queue'[i]] = "queued"
        BY <2>1, <2>6, <3>3 DEF TypeOK, QueuedOnce
      <4>2. \A i, j \in 1 .. Len(queue') : i # j => queue'[i] # queue'[j]
        BY <3>1, <3>2, <3>3 DEF QueuedOnce
      <4>3. ASSUME NEW t \in Tasks, task'[t] = "queued"
            PROVE  \E i \in 1 .. Len(queue') : queue'[i] = t
        <5>1. CASE t = c
          BY <5>1, <3>1, <3>3
        <5>2. CASE t # c
          <6>1. task[t] = "queued"
            BY <4>3, <5>2, <2>6
          <6>2. PICK i \in 1 .. Len(queue) : queue[i] = t
            BY <6>1 DEF QueuedOnce
          <6> QED
            BY <6>2, <3>1, <3>3
        <5> QED
          BY <5>1, <5>2
      <4> QED
        BY <4>1, <4>2, <4>3 DEF QueuedOnce
    <3>q5. OwnerKnows'
      BY <2>0, <2>1, <2>2, <2>6 DEF OwnerKnows, Ready
    <3>q6. Attended'
      BY <2>0, <2>2, <2>6 DEF execVars, workerVars, Attended
    <3>q7. ExitsLast'
      BY <2>0, <2>2, <2>6 DEF execVars, workerVars, ExitsLast
    <3>q8. RunsMatch'
      BY <2>0, <2>1, <2>2, <2>6 DEF RunsMatch, Ready
    <3>q9. JoinKnows'
      BY <2>1, <2>2, <2>6, JoinStays DEF TypeOK
    <3> QED
      BY <3>q1, <3>q2, <3>q3, <3>q4, <3>q5, <3>q6, <3>q7, <3>q8, <3>q9 DEF ExecutorInv
  <2> QED
    BY <1>7, <2>4, <2>5, <2>6 DEF Submit
<1>8. ASSUME NEW o \in Owners, NotifyOne(o) PROVE ExecutorInv'
  <2>1. nextTask[o] \in Indices
    BY <1>8 DEF NotifyOne, OwnerKnows, TypeOK
  <2>2. wpc' \in [Workers -> {"none", "check", "sleep", "run", "exited"}]
    BY <1>8 DEF NotifyOne, TypeOK
  <2>n1. TypeOK'
    BY <1>8, <2>1, <2>2 DEF NotifyOne, execVars, TypeOK
  <2>n2. Placed'
    BY <1>8, <2>1, <2>2 DEF NotifyOne, TypeOK, Placed, Current
  <2>n3. HeldOnce'
    BY <1>8, <2>1, <2>2 DEF NotifyOne, HeldOnce, Current
  <2>n4. OwnerKnows'
    BY <1>8, <2>1, <2>2 DEF NotifyOne, TypeOK, OwnerKnows, Ready
  <2>n5. Attended'
    BY <1>8, <2>1, <2>2 DEF NotifyOne, execVars, Attended
  <2>n6. ExitsLast'
    BY <1>8, <2>1, <2>2 DEF NotifyOne, execVars, ExitsLast
  <2>n7. JoinKnows'
    BY <1>8, <2>1, <2>2 DEF NotifyOne, JoinKnows
  <2>n8. QueuedOnce' /\ RunsMatch'
    BY <1>8, <2>1, <2>2 DEF NotifyOne, QueuedOnce, RunsMatch, Ready
  <2> QED
    BY <2>n1, <2>n2, <2>n3, <2>n4, <2>n5, <2>n6, <2>n7, <2>n8 DEF ExecutorInv
<1>9. ASSUME NEW o \in Owners, RunInline(o) PROVE ExecutorInv'
  <2> DEFINE c == Current(o)
  <2>1. /\ nextTask[o] \in Indices /\ c \in Tasks /\ c = <<o, nextTask[o]>>
        /\ task[c] = "run" /\ opc[o] = "inline"
    BY <1>9, <1>pairs DEF RunInline, OwnerKnows, TypeOK, Placed, Current
  <2>2. PICK r \in {"value", "exception"} : task' = [task EXCEPT ![c] = r]
    BY <1>9 DEF RunInline, Finishes
  <2>3. /\ runs' = [runs EXCEPT ![c] = @ + 1]
        /\ opc' = [opc EXCEPT ![o] = "submit"] /\ nextTask' = [nextTask EXCEPT ![o] = @ + 1]
        /\ UNCHANGED <<execVars, queue, workerVars, verdict>>
    BY <1>9 DEF RunInline, Finishes
  <2> HIDE DEF c
  <2>r1. TypeOK'
    BY <2>1, <2>2, <2>3 DEF execVars, workerVars, TypeOK
  <2>r2. Placed'
    BY <2>1, <2>2, <2>3, <1>elems DEF execVars, TypeOK, Placed, Current
  <2>r3. HeldOnce'
    BY <2>1, <2>2, <2>3 DEF workerVars, TypeOK, HeldOnce, Current
  <2>r4. QueuedOnce'
    BY <2>1, <2>2, <2>3, QueueStays
  <2>r5. OwnerKnows'
    BY <2>1, <2>2, <2>3 DEF TypeOK, OwnerKnows, Ready
  <2>r6. Attended'
    BY <2>1, <2>3 DEF execVars, workerVars, Attended
  <2>r7. RunsMatch'
    <3>1. \A t \in Tasks : t # c => task'[t] = task[t] /\ runs'[t] = runs[t]
      BY <2>1, <2>2, <2>3
    <3>2. runs[c] = 0
      BY <2>1 DEF RunsMatch, Ready
    <3>3. task'[c] \in {"value", "exception"} /\ runs'[c] = 1
      BY <2>1, <2>2, <2>3, <3>2 DEF TypeOK
    <3> QED
      BY <3>1, <3>3 DEF RunsMatch, Ready
  <2>r8. JoinKnows'
    BY <2>1, <2>2, <2>3 DEF JoinKnows
  <2>r9. ExitsLast'
    BY <2>1, <2>3 DEF execVars, workerVars, ExitsLast
  <2> QED
    BY <2>r1, <2>r2, <2>r3, <2>r4, <2>r5, <2>r6, <2>r7, <2>r8, <2>r9 DEF ExecutorInv
<1>10. ASSUME NEW o \in Owners, Get(o) PROVE ExecutorInv'
  <2>1. TypeOK'
    BY <1>10 DEF Get, execVars, workerVars, TypeOK
  <2>2. Placed'
    BY <1>10 DEF Get, Placed, Current
  <2>3. HeldOnce'
    BY <1>10 DEF Get, workerVars, HeldOnce, Current
  <2>4. OwnerKnows'
    <3>1. \A n \in Indices : n < nextTask[o] => Ready(<<o, n>>)
      <4>1. \A n \in Indices : n < nextTask[o] => n \in 1 .. nextTask[o] - 1
        BY DEF TypeOK
      <4>2. \A n \in 1 .. nextTask[o] - 1 : <<o, n>> \in Submitted(o)
        BY DEF Submitted
      <4> QED
        BY <1>10, <4>1, <4>2 DEF Get
    <3> QED
      BY <1>10, <3>1 DEF Get, OwnerKnows, Ready
  <2>5. Attended'
    BY <1>10 DEF Get, execVars, workerVars, Attended
  <2>6. JoinKnows'
    <3> SUFFICES ASSUME NEW p \in Owners, opc'[p] = "released"
                 PROVE  verdict'[p] = "value" <=> \A n \in Indices : task[<<p, n>>] = "value"
      BY <1>10 DEF Get, JoinKnows
    <3>1. CASE p = o
      <4>1. verdict'[o] = IF \E t \in Submitted(o) : task[t] = "exception"
                          THEN "exception" ELSE "value"
        BY <1>10 DEF Get, TypeOK
      <4>2. Submitted(o) = {o} \X Indices
        BY <1>10 DEF Get, Submitted
      <4>3. \A n \in Indices : task[<<o, n>>] \in {"value", "exception"}
        BY <1>10, <4>2 DEF Get, Ready
      <4>4. (\E t \in Submitted(o) : task[t] = "exception")
              <=> \E n \in Indices : task[<<o, n>>] = "exception"
        <5>1. \A n \in Indices : <<o, n>> \in Submitted(o)
          BY <4>2
        <5>2. \A t \in Submitted(o) : t[2] \in Indices /\ t = <<o, t[2]>>
          BY <4>2
        <5> QED
          BY <5>1, <5>2
      <4> QED
        BY <3>1, <4>1, <4>3, <4>4
    <3>2. CASE p # o
      <4>1. opc[p] = "released" /\ verdict'[p] = verdict[p]
        BY <1>10, <3>2 DEF Get
      <4> QED
        BY <4>1 DEF JoinKnows
    <3> QED
      BY <3>1, <3>2
  <2>7. QueuedOnce' /\ ExitsLast' /\ RunsMatch'
    BY <1>10 DEF Get, execVars, workerVars, QueuedOnce, ExitsLast, RunsMatch, Ready
  <2> QED
    BY <2>1, <2>2, <2>3, <2>4, <2>5, <2>6, <2>7 DEF ExecutorInv
<1>11. ASSUME NEW o \in Owners, Unwind(o) PROVE ExecutorInv'
  <2>1. TypeOK'
    BY <1>11 DEF Unwind, execVars, workerVars, TypeOK
  <2>2. Placed'
    BY <1>11 DEF Unwind, Placed, Current
  <2>3. HeldOnce'
    BY <1>11 DEF Unwind, workerVars, HeldOnce, Current
  <2>4. OwnerKnows'
    <3>1. \A n \in Indices : n < nextTask[o] => Ready(<<o, n>>)
      <4>1. \A n \in Indices : n < nextTask[o] => n \in 1 .. nextTask[o] - 1
        BY DEF TypeOK
      <4>2. \A n \in 1 .. nextTask[o] - 1 : <<o, n>> \in Submitted(o)
        BY DEF Submitted
      <4> QED
        BY <1>11, <4>1, <4>2 DEF Unwind
    <3> QED
      BY <1>11, <3>1 DEF Unwind, OwnerKnows, Ready
  <2>5. Attended'
    BY <1>11 DEF Unwind, execVars, workerVars, Attended
  <2>6. JoinKnows'
    <3> SUFFICES ASSUME NEW p \in Owners, opc'[p] = "released"
                 PROVE  verdict'[p] = "value" <=> \A n \in Indices : task[<<p, n>>] = "value"
      BY <1>11 DEF Unwind, JoinKnows
    <3>1. CASE p = o
      <4>1. verdict'[o] = "exception"
        BY <1>11 DEF Unwind, TypeOK
      <4>2. nextTask[o] \in Indices
        BY <1>11 DEF Unwind, OwnerKnows, TypeOK
      <4>3. task[<<o, nextTask[o]>>] = "new"
        BY <1>11, <4>2 DEF Unwind, Placed, Current
      <4> QED
        BY <3>1, <4>1, <4>2, <4>3
    <3>2. CASE p # o
      <4>1. opc[p] = "released" /\ verdict'[p] = verdict[p]
        BY <1>11, <3>2 DEF Unwind
      <4> QED
        BY <4>1 DEF JoinKnows
    <3> QED
      BY <3>1, <3>2
  <2>7. QueuedOnce' /\ ExitsLast' /\ RunsMatch'
    BY <1>11 DEF Unwind, execVars, workerVars, QueuedOnce, ExitsLast, RunsMatch, Ready
  <2> QED
    BY <2>1, <2>2, <2>3, <2>4, <2>5, <2>6, <2>7 DEF ExecutorInv
<1>12. ASSUME NEW w \in Workers, Take(w) PROVE ExecutorInv'
  <2>1. wpc[w] = "check" /\ UNCHANGED <<execVars, ownerVars, runs>>
    BY <1>12 DEF Take
  <2>2. CASE /\ queue # <<>> /\ ~Exits
             /\ wpc' = [wpc EXCEPT ![w] = "run"]
             /\ held' = [held EXCEPT ![w] = Head(queue)]
             /\ task' = [task EXCEPT ![Head(queue)] = "run"]
             /\ queue' = Tail(queue)
    <3> DEFINE h == Head(queue)
    <3>1. Len(queue) \in Nat \ {0} /\ h = queue[1] /\ h \in Tasks
      BY <2>2 DEF TypeOK
    <3>2. task[h] = "queued"
      BY <3>1 DEF QueuedOnce
    <3>3. /\ queue' \in Seq(Tasks) /\ Len(queue') = Len(queue) - 1
          /\ \A i \in 1 .. Len(queue') : queue'[i] = queue[i + 1]
      BY <2>2, <3>1 DEF TypeOK
    <3>4. /\ wpc' = [wpc EXCEPT ![w] = "run"] /\ held' = [held EXCEPT ![w] = h]
          /\ task' = [task EXCEPT ![h] = "run"] /\ queue # <<>>
      BY <2>2
    <3> HIDE DEF h
    <3>t1. TypeOK'
      BY <2>1, <3>1, <3>3, <3>4 DEF execVars, ownerVars, TypeOK
    <3>t2. Placed'
      <4>0. \A t \in Tasks : t # h => task'[t] = task[t]
        BY <3>1, <3>4
      <4>1. \A p \in Owners : \A n \in Indices : n > nextTask[p] => task'[<<p, n>>] = "new"
        BY <3>2, <4>0, <1>pairs DEF Placed
      <4>2. \A p \in Owners : \A n \in Indices : n < nextTask[p] => task'[<<p, n>>] # "new"
        BY <3>1, <3>4 DEF Placed
      <4>3. ASSUME NEW p \in Owners, nextTask[p] \in Indices
            PROVE  /\ opc[p] = "inline" => task'[Current(p)] = "run"
                   /\ opc[p] = "notify" => task'[Current(p)] # "new"
                   /\ opc[p] \notin {"inline", "notify"} => task'[Current(p)] = "new"
        BY <4>3, <3>2, <3>4 DEF Placed
      <4> QED
        BY <4>1, <4>2, <4>3, <2>1 DEF Placed, ownerVars, Current
    <3>t3. HeldOnce'
      <4>1. ASSUME NEW v \in Workers, v # w, wpc'[v] = "run"
            PROVE  /\ wpc[v] = "run" /\ held'[v] = held[v] /\ held[v] \in Tasks
                   /\ held[v] # h /\ task'[held[v]] = "run"
        BY <4>1, <3>2, <3>4 DEF HeldOnce
      <4>2. held'[w] = h /\ task'[h] = "run"
        BY <3>1, <3>4 DEF TypeOK
      <4>3. \A p \in Owners : opc[p] = "inline" => Current(p) # h
        BY <3>2 DEF OwnerKnows, Placed, TypeOK
      <4>4. \A v, u \in Workers : v # u /\ wpc'[v] = "run" /\ wpc'[u] = "run" => held'[v] # held'[u]
        BY <4>1, <4>2 DEF HeldOnce
      <4>5. \A v \in Workers : wpc'[v] = "run" => held'[v] \in Tasks /\ task'[held'[v]] = "run"
        BY <3>1, <4>1, <4>2
      <4>6. \A v \in Workers : \A p \in Owners :
                wpc'[v] = "run" /\ opc[p] = "inline" => held'[v] # Current(p)
        BY <4>1, <4>2, <4>3 DEF HeldOnce
      <4> QED
        BY <2>1, <4>4, <4>5, <4>6 DEF HeldOnce, ownerVars, Current
    <3>t4. QueuedOnce'
      <4>1. \A i \in 1 .. Len(queue') : i + 1 \in 1 .. Len(queue) /\ queue[i + 1] # h
        BY <3>1, <3>3 DEF QueuedOnce
      <4>2. \A i \in 1 .. Len(queue') : task'[queue'[i]] = "queued"
        <5>1. \A t \in Tasks : t # h => task'[t] = task[t]
          BY <3>1, <3>4
        <5>2. \A i \in 1 .. Len(queue') : task[queue[i + 1]] = "queued" /\ queue[i + 1] \in Tasks
          BY <4>1, <1>elems DEF QueuedOnce
        <5> QED
          BY <3>3, <4>1, <5>1, <5>2
      <4>3. \A i, j \in 1 .. Len(queue') : i # j => queue'[i] # queue'[j]
        BY <3>3, <4>1 DEF QueuedOnce
      <4>4. ASSUME NEW t \in Tasks, task'[t] = "queued"
            PROVE  \E i \in 1 .. Len(queue') : queue'[i] = t
        <5>1. task[t] = "queued" /\ t # h
          BY <3>1, <3>4, <4>4 DEF TypeOK
        <5>2. PICK i \in 1 .. Len(queue) : queue[i] = t
          BY <5>1 DEF QueuedOnce
        <5>3. i - 1 \in 1 .. Len(queue') /\ queue'[i - 1] = t
          BY <5>1, <5>2, <3>1, <3>3
        <5> QED
          BY <5>3
      <4> QED
        BY <4>2, <4>3, <4>4 DEF QueuedOnce
    <3>t5. OwnerKnows'
      BY <2>1, <3>2, <3>4, <1>pairs DEF ownerVars, OwnerKnows, Ready
    <3>t6. Attended'
      BY <2>1, <3>4 DEF execVars, ownerVars, Attended
    <3>t7. ExitsLast'
      BY <2>1, <3>4 DEF execVars, ExitsLast
    <3>t8. RunsMatch'
      BY <2>1, <3>2, <3>4 DEF RunsMatch, Ready
    <3>t9. JoinKnows'
      BY <2>1, <3>2, <3>4, ReleasedIsDone, JoinStays DEF ownerVars
    <3> QED
      BY <3>t1, <3>t2, <3>t3, <3>t4, <3>t5, <3>t6, <3>t7, <3>t8, <3>t9 DEF ExecutorInv
  <2>3. CASE /\ Exits
             /\ wpc' = [wpc EXCEPT ![w] = "exited"]
             /\ UNCHANGED <<held, task, queue>>
    <3>1. TypeOK'
      BY <2>1, <2>3 DEF execVars, ownerVars, Exits, TypeOK
    <3>2. HeldOnce'
      BY <2>1, <2>3 DEF ownerVars, Exits, HeldOnce, Current
    <3>3. Attended'
      BY <2>1, <2>3 DEF execVars, Exits, Attended
    <3>4. ExitsLast'
      BY <2>1, <2>3 DEF execVars, Exits, ExitsLast
    <3>5. Placed' /\ QueuedOnce' /\ OwnerKnows' /\ RunsMatch' /\ JoinKnows'
      BY <2>1, <2>3 DEF ownerVars, Exits, Placed, Current, QueuedOnce, OwnerKnows, Ready,
         RunsMatch, JoinKnows
    <3> QED
      BY <3>1, <3>2, <3>3, <3>4, <3>5 DEF ExecutorInv
  <2>4. CASE /\ queue = <<>> /\ ~Exits
             /\ wpc' = [wpc EXCEPT ![w] = "sleep"]
             /\ UNCHANGED <<held, task, queue>>
    <3>1. TypeOK'
      BY <2>1, <2>4 DEF execVars, ownerVars, TypeOK
    <3>2. HeldOnce'
      BY <2>1, <2>4 DEF ownerVars, HeldOnce, Current
    <3>3. Attended'
      BY <2>1, <2>4 DEF execVars, ownerVars, Attended
    <3>4. ExitsLast'
      BY <2>1, <2>4 DEF execVars, ExitsLast
    <3>5. Placed' /\ QueuedOnce' /\ OwnerKnows' /\ RunsMatch' /\ JoinKnows'
      BY <2>1, <2>4 DEF ownerVars, Placed, Current, QueuedOnce, OwnerKnows, Ready,
         RunsMatch, JoinKnows
    <3> QED
      BY <3>1, <3>2, <3>3, <3>4, <3>5 DEF ExecutorInv
  <2> QED
    BY <1>12, <2>2, <2>3, <2>4 DEF Take
<1>13. ASSUME NEW w \in Workers, Run(w) PROVE ExecutorInv'
  <2> DEFINE h == held[w]
  <2>1. wpc[w] = "run" /\ h \in Tasks /\ task[h] = "run"
    BY <1>13 DEF Run, HeldOnce
  <2>2. PICK r \in {"value", "exception"} : task' = [task EXCEPT ![h] = r]
    BY <1>13 DEF Run, Finishes
  <2>3. /\ runs' = [runs EXCEPT ![h] = @ + 1] /\ wpc' = [wpc EXCEPT ![w] = "check"]
        /\ held' = [held EXCEPT ![w] = NoTask] /\ UNCHANGED <<execVars, queue, ownerVars>>
    BY <1>13 DEF Run, Finishes
  <2>r1. TypeOK'
    BY <2>1, <2>2, <2>3 DEF execVars, ownerVars, TypeOK
  <2>r2. Placed'
    <3>1. \A p \in Owners : \A n \in Indices : n > nextTask[p] => task'[<<p, n>>] = "new"
      BY <2>1, <2>2, <1>pairs DEF Placed
    <3>2. \A p \in Owners : \A n \in Indices : n < nextTask[p] => task'[<<p, n>>] # "new"
      BY <2>1, <2>2, <1>pairs DEF Placed
    <3>3. ASSUME NEW p \in Owners, nextTask[p] \in Indices
          PROVE  /\ opc[p] = "inline" => task'[Current(p)] = "run"
                 /\ opc[p] = "notify" => task'[Current(p)] # "new"
                 /\ opc[p] \notin {"inline", "notify"} => task'[Current(p)] = "new"
      <4>1. Current(p) \in Tasks /\ (opc[p] = "inline" => Current(p) # h)
        BY <3>3, <2>1, <1>pairs DEF HeldOnce, Current
      <4>2. \A t \in Tasks : t # h => task'[t] = task[t]
        BY <2>1, <2>2
      <4>3. task'[h] # "new"
        BY <2>1, <2>2
      <4> QED
        BY <3>3, <2>1, <4>1, <4>2, <4>3 DEF Placed
    <3> QED
      BY <3>1, <3>2, <3>3, <2>3 DEF Placed, ownerVars, Current
  <2>r3. HeldOnce'
    BY <2>1, <2>2, <2>3 DEF ownerVars, TypeOK, HeldOnce, Current
  <2>r4. QueuedOnce'
    BY <2>1, <2>2, <2>3, QueueStays
  <2>r5. OwnerKnows'
    BY <2>1, <2>2, <2>3 DEF ownerVars, OwnerKnows, Ready
  <2>r6. Attended'
    BY <2>1, <2>3 DEF execVars, ownerVars, Attended
  <2>r7. ExitsLast'
    BY <2>1, <2>3 DEF execVars, ExitsLast
  <2>r8. RunsMatch'
    BY <2>1, <2>2, <2>3 DEF TypeOK, RunsMatch, Ready
  <2>r9. JoinKnows'
    BY <2>1, <2>2, <2>3, <1>pairs, ReleasedIsDone, JoinStays DEF ownerVars
  <2> QED
    BY <2>r1, <2>r2, <2>r3, <2>r4, <2>r5, <2>r6, <2>r7, <2>r8, <2>r9 DEF ExecutorInv
<1>14. ASSUME NEW w \in Workers, SpuriousWake(w) PROVE ExecutorInv'
  <2>1. TypeOK'
    BY <1>14 DEF SpuriousWake, execVars, ownerVars, TypeOK
  <2>2. HeldOnce'
    BY <1>14 DEF SpuriousWake, ownerVars, HeldOnce, Current
  <2>3. Attended'
    BY <1>14 DEF SpuriousWake, execVars, ownerVars, Attended
  <2>4. ExitsLast'
    BY <1>14 DEF SpuriousWake, execVars, ExitsLast
  <2>5. Placed' /\ QueuedOnce' /\ OwnerKnows' /\ RunsMatch' /\ JoinKnows'
    BY <1>14 DEF SpuriousWake, ownerVars, Placed, Current, QueuedOnce, OwnerKnows, Ready,
       RunsMatch, JoinKnows
  <2> QED
    BY <2>1, <2>2, <2>3, <2>4, <2>5 DEF ExecutorInv
<1>15. CASE UNCHANGED vars
  BY <1>15 DEF vars, execVars, workerVars, ownerVars, TypeOK, Placed, HeldOnce, QueuedOnce,
     OwnerKnows, Attended, ExitsLast, RunsMatch, JoinKnows, Ready, Current
<1> QED
  BY <1>1, <1>2, <1>3, <1>4, <1>5, <1>6, <1>7, <1>8, <1>9, <1>10, <1>11, <1>12, <1>13,
     <1>14, <1>15 DEF Next, ExecStep, OwnerStep, WorkerStep, Terminated

\* The invariant holds before the constructor starts its first thread.
LEMMA InitInv == Init => ExecutorInv
<1> SUFFICES ASSUME Init PROVE ExecutorInv
  OBVIOUS
<1> USE OwnersAssumption, BoundAssumption DEF Init
<1>1. TypeOK
  <2>1. queue \in Seq(Tasks) /\ nextTask \in [Owners -> 1 .. GroupSize + 1]
    OBVIOUS
  <2>2. stopping \in BOOLEAN /\ runs \in [Tasks -> Nat]
    OBVIOUS
  <2> QED
    BY <2>1, <2>2 DEF TypeOK
<1>2. \A o \in Owners : \A n \in Indices : <<o, n>> \in Tasks
  BY DEF Tasks, Indices
<1>3. Placed /\ OwnerKnows
  BY <1>2 DEF Placed, OwnerKnows, Indices, Current
<1>4. HeldOnce /\ QueuedOnce /\ Attended /\ ExitsLast
  BY DEF HeldOnce, QueuedOnce, Attended, ExitsLast
<1>5. RunsMatch /\ JoinKnows
  BY DEF RunsMatch, JoinKnows, Ready
<1> QED
  BY <1>1, <1>3, <1>4, <1>5 DEF ExecutorInv

\* Where tasks are, what owners and workers know of them: in every state of
\* every executor, with any number of owners, threads and tasks.
THEOREM Invariance == Spec => []ExecutorInv
  BY InitInv, NextInv, PTL DEF Spec

\* MapTaskJoin: an owner leaves its scope only when none of its tasks can still
\* touch what they captured.
THEOREM CapturesAreSafe == Spec => []CapturesOutliveTasks
<1>1. ExecutorInv => CapturesOutliveTasks
  <2> SUFFICES ASSUME ExecutorInv, NEW t \in Tasks, opc[t[1]] = "released"
               PROVE  task[t] \notin {"queued", "run"}
    BY DEF CapturesOutliveTasks
  <2>1. t[1] \in Owners /\ t[2] \in Indices /\ t = <<t[1], t[2]>>
    BY DEF Tasks, Indices
  <2> QED
    BY <2>1, ReleasedIsDone
<1> QED
  BY <1>1, Invariance, PTL

\* A verdict is given in the step that releases its owner.
LEMMA SilenceKept == ExecutorInv /\ SilentBefore /\ [Next]_vars => SilentBefore'
<1> SUFFICES ASSUME ExecutorInv, SilentBefore, [Next]_vars,
                    NEW o \in Owners, verdict'[o] # "none"
             PROVE  opc'[o] = "released"
  BY DEF SilentBefore
<1>1. opc \in [Owners -> {"idle", "submit", "notify", "inline", "unwind", "released"}]
      /\ verdict \in [Owners -> {"none", "value", "exception"}]
  BY DEF ExecutorInv, TypeOK
<1>2. verdict[o] # "none" => opc[o] = "released"
  BY DEF SilentBefore
<1>3. ASSUME UNCHANGED <<opc, verdict>>
      PROVE  opc'[o] = "released"
  BY <1>2, <1>3
<1>4. ASSUME NEW q \in Owners, BeginGroup(q) \/ OwnerStep(q)
      PROVE  opc'[o] = "released"
  <2>1. /\ opc' = [opc EXCEPT ![q] = opc'[q]] /\ opc[q] # "released"
        /\ \/ verdict' = verdict
           \/ opc'[q] = "released" /\ verdict' = [verdict EXCEPT ![q] = verdict'[q]]
    <3>1. CASE Submit(q)
      BY <1>1, <3>1 DEF Submit
    <3>2. CASE BeginGroup(q) \/ NotifyOne(q) \/ RunInline(q)
      BY <1>1, <3>2 DEF BeginGroup, NotifyOne, RunInline
    <3>3. CASE Get(q) \/ Unwind(q)
      BY <1>1, <3>3 DEF Get, Unwind
    <3> QED
      BY <1>4, <3>1, <3>2, <3>3 DEF OwnerStep
  <2> QED
    BY <1>1, <1>2, <2>1
<1>5. CASE ExecStep \/ StopRequest \/ Terminated \/ UNCHANGED vars
  BY <1>3, <1>5 DEF ExecStep, StartWorker, Constructed, StopNotify, StopJoin, StopRequest,
                    Terminated, vars, ownerVars
<1>6. ASSUME NEW w \in Workers, WorkerStep(w) \/ SpuriousWake(w)
      PROVE  opc'[o] = "released"
  BY <1>3, <1>6 DEF WorkerStep, Take, Run, SpuriousWake, ownerVars
<1> QED
  BY <1>4, <1>5, <1>6 DEF Next

\* Whatever workers and owners do at the same time and whenever the executor
\* stops: no task is executed twice, an owner leaves its scope with every task it
\* submitted executed, and a join without a failure means a whole group executed.
\* (MapTaskExecutor's Submit and worker loop, MapTaskJoin::Get and its destructor)
THEOREM TasksRunOnce == Spec => []ExecutedOnce
<1>1. Init => SilentBefore
  BY DEF Init, SilentBefore
<1>2. Spec => [](ExecutorInv /\ SilentBefore)
  BY <1>1, InitInv, NextInv, SilenceKept, PTL DEF Spec
<1>3. ExecutorInv /\ SilentBefore => ExecutedOnce
  <2> SUFFICES ASSUME ExecutorInv, SilentBefore
               PROVE  ExecutedOnce
    OBVIOUS
  <2>1. \A t \in Tasks : runs[t] = IF Ready(t) THEN 1 ELSE 0
    BY DEF ExecutorInv, RunsMatch
  <2>2. \A t \in Tasks : runs[t] <= 1
    BY <2>1
  <2>3. ASSUME NEW o \in Owners, opc[o] = "released", NEW t \in Submitted(o)
        PROVE  runs[t] = 1
    <3>1. PICK n \in 1 .. nextTask[o] - 1 : t = <<o, n>>
      BY DEF Submitted
    <3>2. nextTask[o] \in 1 .. GroupSize + 1 /\ GroupSize \in Nat
      BY BoundAssumption DEF ExecutorInv, TypeOK
    <3>3. n \in Indices /\ n < nextTask[o]
      BY <3>2 DEF Indices
    <3>4. Ready(<<o, n>>) /\ <<o, n>> \in Tasks
      BY <2>3, <3>3 DEF ExecutorInv, OwnerKnows, Tasks, Indices
    <3> QED
      BY <2>1, <3>1, <3>4
  <2>4. ASSUME NEW o \in Owners, verdict[o] = "value", NEW n \in 1 .. GroupSize
        PROVE  runs[<<o, n>>] = 1
    <3>1. opc[o] = "released"
      BY <2>4 DEF SilentBefore
    <3>2. task[<<o, n>>] = "value" /\ <<o, n>> \in Tasks
      BY <2>4, <3>1 DEF ExecutorInv, JoinKnows, Tasks
    <3> QED
      BY <2>1, <3>2 DEF Ready
  <2> QED
    BY <2>2, <2>3, <2>4 DEF ExecutedOnce
<1> QED
  BY <1>2, <1>3, PTL

\* The destructor joins threads that leave only from an empty queue: no accepted
\* task is still waiting when it returns.
THEOREM NothingLeftBehind == Spec => []DestructionDrains
<1>1. ExecutorInv => DestructionDrains
  <2> SUFFICES ASSUME ExecutorInv, exec = "gone", NEW t \in Tasks, task[t] = "queued"
               PROVE  FALSE
    BY DEF DestructionDrains
  <2>1. queue # <<>>
    BY DEF ExecutorInv, QueuedOnce
  <2>2. count # 0 /\ \E o \in Owners : opc[o] # "idle"
    BY <2>1, BoundAssumption DEF ExecutorInv, Attended
  <2>3. PICK w \in Workers : wpc[w] # "none"
    BY <2>2 DEF ExecutorInv, Attended
  <2>4. wpc[w] = "exited"
    BY <2>3 DEF ExecutorInv, ExitsLast
  <2> QED
    BY <2>1, <2>4 DEF ExecutorInv, ExitsLast
<1> QED
  BY <1>1, Invariance, PTL
=============================================================================
