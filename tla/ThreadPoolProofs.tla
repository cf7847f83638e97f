-------------------------- MODULE ThreadPoolProofs --------------------------
(***************************************************************************)
(* Theorems about ThreadPool, for every number of threads, callables and    *)
(* batches, every clear mode and every error mode.                          *)
(***************************************************************************)
EXTENDS ThreadPool, FiniteSetTheorems, TLAPS

Busy == InBatch \cup {"leave"}

\* The workers whose departure the current batch still waits for.
Owing == {w \in Workers : w < participants /\ (seen[w] # generation \/ pc[w] \in Busy)}

\* m_active counts exactly the workers that still owe the batch a departure.
ActiveCountsOwing == active = Cardinality(Owing)

\* A worker inside a batch is a participant of the current one.
BusyIsCurrent ==
    \A w \in Workers : pc[w] \in Busy => w < participants /\ seen[w] = generation

SeenIsPast == \A w \in Workers : seen[w] <= generation

StoppedIsFresh ==
    status = "STOPPED" =>
        active = 0 /\ (\A w \in Workers : pc[w] = "unborn")

ReadyHasThreads == status = "READY" => Size > 0

NothingPublished == generation = 0 => active = 0

FuturesMatch ==
    \A g \in 1 .. MaxBatches :
        /\ g > generation => future[g] = "none"
        /\ g < generation => future[g] \in {"value", "exception"}
        /\ g = generation =>
             (future[g] = "pending" <=> active > 0) /\ future[g] # "none"

WorkIsBounded == Len(workload) <= MaxWork

JoinInv ==
    /\ TypeOK /\ ActiveCountsOwing /\ BusyIsCurrent /\ SeenIsPast
    /\ StoppedIsFresh /\ ReadyHasThreads /\ NothingPublished /\ FuturesMatch /\ WorkIsBounded

-----------------------------------------------------------------------------
\* Owing is finite, so that its cardinality is a natural number which is zero
\* exactly when nobody owes.
LEMMA OwingFinite ==
    /\ IsFiniteSet(Owing)
    /\ Cardinality(Owing) \in Nat
    /\ Cardinality(Owing) = 0 <=> Owing = {}
<1>1. IsFiniteSet(Workers)
  BY SizeAssumption, FS_Interval DEF Workers
<1>2. Owing \in SUBSET Workers
  BY DEF Owing
<1>3. IsFiniteSet(Owing)
  BY <1>1, <1>2, FS_Subset
<1>. QED
  BY <1>3, FS_CardinalityType, FS_EmptySet

\* Counting one more at any point of a function to Nat.
LEMMA CountUp ==
    ASSUME NEW S, NEW f \in [S -> Nat], NEW x
    PROVE  [f EXCEPT ![x] = @ + 1] \in [S -> Nat]
<1>1. CASE x \in S
  <2>1. PICK y \in Nat : y = f[x] + 1
    BY <1>1
  <2>2. [f EXCEPT ![x] = y] \in [S -> Nat]
    BY <2>1
  <2>. QED
    BY <2>1, <2>2
<1>2. CASE x \notin S
  <2>1. [f EXCEPT ![x] = f[x] + 1] = f
    BY <1>2
  <2>. QED
    BY <2>1
<1>. QED
  BY <1>1, <1>2

\* The initial state satisfies the join invariant.
LEMMA JoinInit == Init => JoinInv
<1>. SUFFICES ASSUME Init PROVE JoinInv
  OBVIOUS
<1>. USE SizeAssumption, BoundAssumption DEF Init
<1>1. TypeOK
  <2>1. workload \in Seq(Nat)
    OBVIOUS
  <2>2. pc \in [Workers -> PCs] /\ seen \in [Workers -> 0 .. MaxBatches]
    BY DEF PCs
  <2>3. at \in [Workers -> Nat \cup {NoIndex}]
    OBVIOUS
  <2>4. ran \in [0 .. MaxWork - 1 -> Nat] /\ published \in 0 .. MaxWork
    OBVIOUS
  <2>5. future \in [1 .. MaxBatches -> {"none", "pending", "value", "exception"}]
    OBVIOUS
  <2>6. /\ failed \in BOOLEAN /\ dirty \in BOOLEAN /\ stopping \in BOOLEAN /\ threw \in BOOLEAN
    OBVIOUS
  <2>7. /\ generation \in 0 .. MaxBatches /\ active \in 0 .. Size
        /\ participants \in 0 .. Size /\ errors \in Nat /\ index \in Nat
    OBVIOUS
  <2>8. clearMode \in ClearModes /\ errorHandling \in ErrorModes /\ multi \in BOOLEAN
    OBVIOUS
  <2>. QED
    BY <2>1, <2>2, <2>3, <2>4, <2>5, <2>6, <2>7, <2>8, Zenon DEF TypeOK
<1>2. ActiveCountsOwing
  <2>1. Owing = {}
    BY DEF Owing, Workers
  <2>. QED
    BY <2>1, FS_EmptySet DEF ActiveCountsOwing
<1>3. BusyIsCurrent /\ SeenIsPast /\ StoppedIsFresh
  BY DEF BusyIsCurrent, SeenIsPast, StoppedIsFresh, Busy, InBatch, Workers
<1>4. FuturesMatch /\ WorkIsBounded /\ ReadyHasThreads /\ NothingPublished
  BY DEF NothingPublished, ReadyHasThreads, FuturesMatch, WorkIsBounded
<1>. QED
  BY <1>1, <1>2, <1>3, <1>4 DEF JoinInv

\* Publishing a workload of at most MaxWork callables on an idle pool.
LEMMA JoinPublish ==
    ASSUME JoinInv, owner = "live", RequireIdle,
           NEW work \in Seq(Nat), Len(work) <= MaxWork,
           NEW d \in BOOLEAN, Publish(work, d)
    PROVE  JoinInv'
<1>. USE SizeAssumption, BoundAssumption DEF JoinInv
<1>1. CASE status # "READY" \/ work = <<>>
  <2>1. TypeOK'
    BY <1>1 DEF TypeOK, Publish, modeVars, workerVars, historyVars
  <2>2. Owing' = Owing
    BY <1>1 DEF Owing, Publish, workerVars
  <2>. QED
    BY <1>1, <2>1, <2>2 DEF Publish, workerVars, ActiveCountsOwing, BusyIsCurrent,
       SeenIsPast, StoppedIsFresh, ReadyHasThreads, NothingPublished, FuturesMatch, WorkIsBounded
<1>2. CASE ~(status # "READY" \/ work = <<>>)
  <2>0. Len(work) \in Nat \ {0} /\ Size > 0
    BY <1>2 DEF ReadyHasThreads
  <2>1. \A w \in Workers : pc[w] \notin Busy
    <3>1. Owing = {}
      BY OwingFinite DEF ActiveCountsOwing, RequireIdle
    <3>. QED
      BY <3>1 DEF BusyIsCurrent, Owing
  <2>2. \A w \in Workers : pc'[w] \notin Busy /\ pc'[w] \in PCs
    BY <1>2, <2>1 DEF Publish, NotifyReady, Busy, InBatch, TypeOK, PCs
  <2>3. /\ participants' \in 0 .. Size /\ active' = participants' /\ participants' > 0
        /\ generation' = generation + 1 /\ generation + 1 \in 1 .. MaxBatches
        /\ seen' = seen /\ Len(work) \in 0 .. MaxWork
    BY <1>2, <2>0 DEF Publish, ParticipantsFor, TypeOK
  <2>4. TypeOK'
    <3>1. pc' \in [Workers -> PCs]
      BY <1>2, <2>2 DEF Publish, NotifyReady
    <3>2. future' \in [1 .. MaxBatches -> {"none", "pending", "value", "exception"}]
      BY <1>2, <2>3 DEF TypeOK, Publish
    <3>3. ran' \in [0 .. MaxWork - 1 -> Nat]
      BY <1>2 DEF TypeOK, Publish
    <3>4. /\ workload' \in Seq(Nat) /\ errors' \in Nat /\ index' \in Nat
          /\ generation' \in 0 .. MaxBatches /\ published' \in 0 .. MaxWork
          /\ active' \in 0 .. Size /\ participants' \in 0 .. Size
      BY <1>2, <2>3 DEF TypeOK, Publish
    <3>5. /\ failed' \in BOOLEAN /\ dirty' \in BOOLEAN /\ stopping' \in BOOLEAN
          /\ threw' \in BOOLEAN /\ status' = "PROCESSING"
          /\ seen' = seen /\ at' = at /\ owner' = owner
          /\ UNCHANGED <<clearMode, errorHandling, multi>>
      BY <1>2 DEF TypeOK, Publish, modeVars
    <3>. QED
      BY <3>1, <3>2, <3>3, <3>4, <3>5, Zenon DEF TypeOK
  <2>5. ActiveCountsOwing'
    <3>1. Owing' = 0 .. participants' - 1
      BY <2>2, <2>3 DEF Owing, SeenIsPast, Workers, TypeOK
    <3>. QED
      BY <2>3, <3>1, FS_Interval DEF ActiveCountsOwing
  <2>6. BusyIsCurrent' /\ SeenIsPast' /\ StoppedIsFresh' /\ WorkIsBounded'
        /\ ReadyHasThreads' /\ NothingPublished'
    BY <1>2, <2>2, <2>3 DEF NothingPublished, ReadyHasThreads, BusyIsCurrent, SeenIsPast,
       StoppedIsFresh, WorkIsBounded, Publish, TypeOK
  <2>7. FuturesMatch'
    BY <1>2, <2>3 DEF FuturesMatch, Publish, TypeOK, RequireIdle
  <2>. QED
    BY <2>4, <2>5, <2>6, <2>7
<1>. QED
  BY <1>1, <1>2

\* The owner's calls preserve the join invariant.
LEMMA JoinOwner ==
    ASSUME JoinInv,
           \/ StartWorkers \/ ProcessQueued \/ ProcessGiven \/ QueueCallable
           \/ ClearWorkload \/ Destroy \/ DestructorStep
    PROVE  JoinInv'
<1>. USE SizeAssumption, BoundAssumption DEF JoinInv
<1>k. KeptWork \in Seq(Nat) /\ Len(KeptWork) \in Nat /\ Len(KeptWork) <= MaxWork
  BY DEF KeptWork, TypeOK, WorkIsBounded
<1>1. CASE StartWorkers
  <2>. USE <1>1 DEF StartWorkers, historyVars
  <2>1. PICK n \in 0 .. Size :
          /\ pc' = [w \in Workers |-> IF w < n THEN "check" ELSE "unborn"]
          /\ status' = IF n = Size THEN "READY" ELSE "STARTING"
          /\ stopping' = (n < Size)
    OBVIOUS
  <2>2. pc' \in [Workers -> PCs] /\ \A w \in Workers : pc'[w] \notin Busy
    BY <2>1 DEF PCs, Busy, InBatch
  <2>3. stopping' \in BOOLEAN /\ multi' \in BOOLEAN /\ status' \in {"READY", "STARTING"}
    BY <2>1
  <2>4. TypeOK'
    BY <2>2, <2>3, Zenon DEF TypeOK
  <2>5. Owing' = Owing
    BY <2>2 DEF Owing, StoppedIsFresh, Busy, InBatch
  <2>. QED
    BY <2>2, <2>3, <2>4, <2>5 DEF ActiveCountsOwing, BusyIsCurrent, SeenIsPast,
       StoppedIsFresh, ReadyHasThreads, NothingPublished, FuturesMatch, WorkIsBounded
<1>2. CASE ProcessQueued
  <2>1. (dirty /\ clearMode # "AT_NEXT_WORKLOAD") \in BOOLEAN
    OBVIOUS
  <2>. QED
    BY <1>2, <1>k, <2>1, JoinPublish DEF ProcessQueued
<1>3. CASE ProcessGiven
  <2>1. PICK n \in 0 .. MaxWork : Publish([i \in 1 .. n |-> generation], dirty)
    BY <1>3 DEF ProcessGiven
  <2>2. /\ [i \in 1 .. n |-> generation] \in Seq(Nat)
        /\ Len([i \in 1 .. n |-> generation]) <= MaxWork
    BY DEF TypeOK
  <2>3. dirty \in BOOLEAN
    BY DEF TypeOK
  <2>. QED
    BY <1>3, <2>1, <2>2, <2>3, JoinPublish DEF ProcessGiven
<1>4. CASE QueueCallable \/ ClearWorkload
  <2>0. workload' \in Seq(Nat) /\ Len(workload') <= MaxWork
    <3>1. CASE QueueCallable
      <4>1. generation \in Nat /\ workload' = Append(KeptWork, generation)
        BY <3>1 DEF QueueCallable, TypeOK
      <4>2. Len(KeptWork) < MaxWork
        BY <3>1 DEF QueueCallable
      <4>3. workload' \in Seq(Nat) /\ Len(workload') = Len(KeptWork) + 1
        BY <4>1, <1>k
      <4>. QED
        BY <4>2, <4>3, <1>k
    <3>2. CASE ClearWorkload
      BY <3>2 DEF ClearWorkload
    <3>. QED
      BY <1>4, <3>1, <3>2
  <2>1. /\ dirty' \in BOOLEAN
        /\ UNCHANGED <<status, errors, index, failed, generation, active,
              participants, stopping, future, pc, seen, at, owner,
              ran, threw, published, clearMode, errorHandling, multi>>
    BY <1>4 DEF QueueCallable, ClearWorkload, modeVars, workerVars, historyVars
  <2>2. TypeOK'
    BY <2>0, <2>1 DEF TypeOK
  <2>3. Owing' = Owing
    BY <2>1 DEF Owing
  <2>. QED
    BY <2>0, <2>1, <2>2, <2>3 DEF ActiveCountsOwing, BusyIsCurrent, SeenIsPast,
       StoppedIsFresh, ReadyHasThreads, NothingPublished, FuturesMatch, WorkIsBounded
<1>5. CASE Destroy \/ DestroyCheckIdle \/ DestroyJoin
  <2>1. /\ UNCHANGED <<workload, errors, index, failed, generation, active,
              participants, dirty, future, pc, seen, at, ran, threw, published,
              clearMode, errorHandling, multi>>
        /\ owner' \in {"checkIdle", "sleepIdle", "notify", "gone"}
        /\ \/ UNCHANGED <<status, stopping>>
           \/ status' = "TERMINATING" /\ stopping' = TRUE
    BY <1>5 DEF Destroy, DestroyCheckIdle, DestroyJoin, modeVars, poolVars, workerVars, historyVars
  <2>2. TypeOK'
    BY <2>1 DEF TypeOK
  <2>3. Owing' = Owing
    BY <2>1 DEF Owing
  <2>. QED
    BY <2>1, <2>2, <2>3 DEF ActiveCountsOwing, BusyIsCurrent, SeenIsPast,
       StoppedIsFresh, ReadyHasThreads, NothingPublished, FuturesMatch, WorkIsBounded
<1>6. CASE DestroyNotify
  <2>1. /\ UNCHANGED <<status, stopping, workload, errors, index, failed, generation,
              active, participants, dirty, future, seen, at, ran, threw, published,
              clearMode, errorHandling, multi>>
        /\ owner' = "join" /\ pc' = NotifyReady(pc)
    BY <1>6 DEF DestroyNotify, modeVars, poolVars, historyVars
  <2>2. /\ pc' \in [Workers -> PCs]
        /\ \A w \in Workers : /\ pc'[w] \in Busy <=> pc[w] \in Busy
                              /\ pc[w] = "unborn" => pc'[w] = "unborn"
    BY <2>1 DEF NotifyReady, TypeOK, PCs, Busy, InBatch
  <2>3. TypeOK'
    BY <2>1, <2>2 DEF TypeOK
  <2>4. Owing' = Owing
    BY <2>1, <2>2 DEF Owing
  <2>. QED
    BY <2>1, <2>2, <2>3, <2>4 DEF ActiveCountsOwing, BusyIsCurrent, SeenIsPast,
       StoppedIsFresh, ReadyHasThreads, NothingPublished, FuturesMatch, WorkIsBounded
<1>. QED
  BY <1>1, <1>2, <1>3, <1>4, <1>5, <1>6 DEF DestructorStep

\* A step of a worker that stays inside the batch, or outside it.
LEMMA JoinWorker ==
    ASSUME JoinInv, NEW w \in Workers,
           Wake(w) \/ SpuriousWake(w) \/ Execute(w) \/ RaiseFailed(w) \/ Fetch(w) \/ Test(w)
    PROVE  JoinInv'
<1>. USE SizeAssumption, BoundAssumption DEF JoinInv
<1>1. CASE Wake(w) \/ SpuriousWake(w)
  <2>1. UNCHANGED <<status, stopping, workload, errors, index, failed, generation,
              active, participants, dirty, future, owner, ran, threw, published,
              clearMode, errorHandling, multi>>
    BY <1>1 DEF Wake, SpuriousWake, modeVars, poolVars, historyVars
  <2>2. /\ pc' \in [Workers -> PCs] /\ seen' \in [Workers -> 0 .. MaxBatches]
        /\ at' \in [Workers -> Nat \cup {NoIndex}]
    <3>1. /\ pc \in [Workers -> PCs] /\ seen \in [Workers -> 0 .. MaxBatches]
          /\ at \in [Workers -> Nat \cup {NoIndex}] /\ generation \in 0 .. MaxBatches
      BY DEF TypeOK
    <3>2. \E q \in PCs : pc' = [pc EXCEPT ![w] = q]
      BY <1>1 DEF Wake, SpuriousWake, PCs, InBatch
    <3>3. seen' \in {seen, [seen EXCEPT ![w] = generation]}
      BY <1>1 DEF Wake, SpuriousWake
    <3>4. at' \in {at, [at EXCEPT ![w] = NoIndex]}
      BY <1>1 DEF Wake, SpuriousWake
    <3>. QED
      BY <3>1, <3>2, <3>3, <3>4
  <2>3. TypeOK'
    BY <2>1, <2>2 DEF TypeOK
  <2>4. /\ pc[w] \notin Busy /\ pc[w] # "unborn"
        /\ \A v \in Workers \ {w} : pc'[v] = pc[v] /\ seen'[v] = seen[v]
        /\ \/ seen'[w] = seen[w] /\ pc'[w] \notin Busy
           \/ seen[w] # generation /\ seen'[w] = generation
              /\ (pc'[w] \in Busy <=> w < participants)
    BY <1>1 DEF Wake, SpuriousWake, TypeOK, Busy, InBatch
  <2>5. Owing' = Owing
    BY <2>1, <2>4 DEF Owing
  <2>6. BusyIsCurrent'
    BY <2>1, <2>4 DEF BusyIsCurrent
  <2>7. SeenIsPast'
    BY <2>1, <2>4 DEF SeenIsPast, TypeOK
  <2>8. StoppedIsFresh' /\ ReadyHasThreads' /\ WorkIsBounded' /\ NothingPublished'
    BY <2>1, <2>4 DEF NothingPublished, StoppedIsFresh, ReadyHasThreads, WorkIsBounded
  <2>9. FuturesMatch' /\ ActiveCountsOwing'
    BY <2>1, <2>5 DEF FuturesMatch, ActiveCountsOwing
  <2>. QED
    BY <2>3, <2>6, <2>7, <2>8, <2>9
<1>2. CASE Execute(w) \/ RaiseFailed(w) \/ Fetch(w) \/ Test(w)
  <2>1. UNCHANGED <<status, stopping, workload, generation, active, participants,
              dirty, future, seen, owner, published, clearMode, errorHandling, multi>>
    BY <1>2 DEF Execute, RaiseFailed, Fetch, Test, modeVars, poolVars, historyVars
  <2>2. PICK q \in Busy : pc' = [pc EXCEPT ![w] = q]
    BY <1>2 DEF Execute, RaiseFailed, Fetch, Test, Busy, InBatch, Callables, After, Raise
  <2>3. pc[w] \in Busy
    BY <1>2 DEF Execute, RaiseFailed, Fetch, Test, Busy, InBatch, Callables, Raise
  <2>4. /\ errors' \in Nat /\ index' \in Nat
        /\ at' \in [Workers -> Nat \cup {NoIndex}]
        /\ ran' \in [0 .. MaxWork - 1 -> Nat]
    <3>1. CASE Execute(w)
      <4>1. [ran EXCEPT ![at[w]] = @ + 1] \in [0 .. MaxWork - 1 -> Nat]
        BY CountUp DEF TypeOK
      <4>2. ran' \in [0 .. MaxWork - 1 -> Nat]
        BY <3>1, <4>1 DEF Execute, TypeOK
      <4>3. errors' \in Nat /\ index' = index /\ at' = at
        BY <3>1 DEF Execute, TypeOK
      <4>. QED
        BY <4>2, <4>3 DEF TypeOK
    <3>2. CASE RaiseFailed(w) \/ Test(w)
      BY <3>2 DEF RaiseFailed, Test, TypeOK, poolVars, historyVars
    <3>3. CASE Fetch(w)
      <4>1. MultiIndex(w) \in Nat
        BY DEF MultiIndex, TypeOK, Workers, NoIndex
      <4>. QED
        BY <3>3, <4>1 DEF Fetch, TypeOK, historyVars
    <3>. QED
      BY <1>2, <3>1, <3>2, <3>3
  <2>5. failed' \in BOOLEAN /\ threw' \in BOOLEAN
    BY <1>2 DEF Execute, RaiseFailed, Fetch, Test, TypeOK, poolVars, historyVars
  <2>6. pc' \in [Workers -> PCs]
    BY <2>2 DEF TypeOK, PCs, Busy
  <2>7. TypeOK'
    BY <2>1, <2>4, <2>5, <2>6 DEF TypeOK
  <2>8. Owing' = Owing
    BY <2>1, <2>2, <2>3 DEF Owing, TypeOK
  <2>. QED
    BY <2>1, <2>2, <2>3, <2>7, <2>8 DEF ActiveCountsOwing, BusyIsCurrent, SeenIsPast,
       StoppedIsFresh, ReadyHasThreads, NothingPublished, FuturesMatch, WorkIsBounded, TypeOK,
       Busy, InBatch
<1>. QED
  BY <1>1, <1>2

\* The last critical section of a worker: one fewer departure is owed.
LEMMA JoinLeave ==
    ASSUME JoinInv, NEW w \in Workers, Leave(w)
    PROVE  JoinInv'
<1>. USE SizeAssumption, BoundAssumption DEF JoinInv
<1>1. /\ pc[w] = "leave" /\ pc' = [pc EXCEPT ![w] = "check"]
      /\ active' = active - 1
      /\ UNCHANGED <<errors, index, failed, generation, participants, dirty,
                     stopping, seen, at, ran, threw, published,
                     clearMode, errorHandling, multi>>
  BY DEF Leave, modeVars, historyVars
<1>2. w \in Owing /\ seen[w] = generation /\ w < participants
  BY <1>1 DEF Owing, BusyIsCurrent, Busy
<1>3. Owing' = Owing \ {w}
  BY <1>1, <1>2 DEF Owing, TypeOK, Busy, InBatch
<1>4. ActiveCountsOwing' /\ active' \in Nat
  <2>1. Cardinality(Owing \ {w}) = Cardinality(Owing) - 1 /\ Cardinality(Owing) # 0
    BY <1>2, OwingFinite, FS_RemoveElement
  <2>. QED
    BY <1>1, <1>3, <2>1, OwingFinite DEF ActiveCountsOwing
<1>5. /\ workload' \in {workload, <<>>} /\ status' \in {status, "READY"}
      /\ owner' \in {owner, "checkIdle"}
      /\ active = 1 => future' = [future EXCEPT ![generation] =
                                    IF failed /\ errors > 0 THEN "exception" ELSE "value"]
      /\ active # 1 => future' = future /\ status' = status
  BY DEF Leave, LastOut
<1>6. TypeOK'
  <2>1. future' \in [1 .. MaxBatches -> {"none", "pending", "value", "exception"}]
    BY <1>5 DEF TypeOK
  <2>2. pc' \in [Workers -> PCs]
    BY <1>1 DEF TypeOK, PCs
  <2>3. workload' \in Seq(Nat)
    <3>1. <<>> \in Seq(Nat)
      OBVIOUS
    <3>. QED
      BY <1>5, <3>1 DEF TypeOK
  <2>4. active' \in 0 .. Size
    BY <1>1, <1>4 DEF TypeOK
  <2>. QED
    BY <1>1, <1>5, <2>1, <2>2, <2>3, <2>4 DEF TypeOK
<1>7. BusyIsCurrent' /\ SeenIsPast' /\ WorkIsBounded'
  <2>1. BusyIsCurrent' /\ SeenIsPast'
    BY <1>1 DEF BusyIsCurrent, SeenIsPast, TypeOK, Busy, InBatch
  <2>2. WorkIsBounded'
    <3>1. Len(<<>>) <= MaxWork
      OBVIOUS
    <3>. QED
      BY <1>5, <3>1 DEF WorkIsBounded
  <2>. QED
    BY <2>1, <2>2
<1>8. status # "STOPPED" /\ Size > 0
  BY <1>1 DEF StoppedIsFresh, Workers
<1>9. StoppedIsFresh' /\ ReadyHasThreads'
  BY <1>5, <1>8 DEF StoppedIsFresh, ReadyHasThreads
<1>10. FuturesMatch'
  <2>1. generation \in 1 .. MaxBatches /\ active \in Nat /\ active # 0
    <3>1. active \in Nat /\ active # 0
      BY <1>1, <1>4 DEF TypeOK
    <3>. QED
      BY <3>1 DEF TypeOK, NothingPublished
  <2>2. /\ future \in [1 .. MaxBatches -> {"none", "pending", "value", "exception"}]
        /\ generation' = generation /\ active' = active - 1
    BY <1>1 DEF TypeOK
  <2>3. CASE active = 1
    <3>1. /\ \A g \in 1 .. MaxBatches : g # generation => future'[g] = future[g]
          /\ future'[generation] \in {"value", "exception"}
      BY <1>5, <2>1, <2>2, <2>3
    <3>. QED
      BY <2>1, <2>2, <2>3, <3>1 DEF FuturesMatch
  <2>4. CASE active # 1
    BY <1>5, <2>1, <2>2, <2>4 DEF FuturesMatch
  <2>. QED
    BY <2>3, <2>4
<1>11. NothingPublished'
  BY <1>1, <1>4 DEF NothingPublished, TypeOK
<1>. QED
  BY <1>4, <1>6, <1>7, <1>9, <1>10, <1>11

\* The invariant is preserved by every step, and by stuttering.
LEMMA JoinStep == JoinInv /\ [Next]_vars => JoinInv'
<1>. SUFFICES ASSUME JoinInv, [Next]_vars PROVE JoinInv'
  OBVIOUS
<1>1. CASE UNCHANGED vars
  <2>1. UNCHANGED <<status, stopping, workload, errors, index, failed, generation,
          active, participants, dirty, future, pc, seen, at, owner, ran, threw, published,
          clearMode, errorHandling, multi>>
    BY <1>1 DEF vars, modeVars, poolVars, workerVars, historyVars
  <2>2. Owing' = Owing
    BY <2>1 DEF Owing
  <2>. QED
    BY <2>1, <2>2 DEF JoinInv, TypeOK, ActiveCountsOwing, BusyIsCurrent, SeenIsPast,
       StoppedIsFresh, ReadyHasThreads, NothingPublished, FuturesMatch, WorkIsBounded
<1>2. CASE \E w \in Workers : WorkerStep(w) \/ SpuriousWake(w)
  BY <1>2, JoinWorker, JoinLeave DEF WorkerStep
<1>3. CASE \/ StartWorkers \/ ProcessQueued \/ ProcessGiven \/ QueueCallable
           \/ ClearWorkload \/ Destroy \/ DestructorStep
  BY <1>3, JoinOwner
<1>. QED
  BY <1>1, <1>2, <1>3 DEF Next, Terminated

\* The type invariant and the join invariant hold in every reachable state.
THEOREM JoinInvariant == Spec => []JoinInv
<1>1. Init => JoinInv
  BY JoinInit
<1>2. JoinInv /\ [Next]_vars => JoinInv'
  BY JoinStep
<1>. QED
  BY <1>1, <1>2, PTL DEF Spec

\* Every variable keeps its type: in particular m_active never goes below
\* zero, which a size_t would turn into a batch that never completes.
THEOREM TypeCorrect == Spec => []TypeOK
<1>1. JoinInv => TypeOK
  BY DEF JoinInv
<1>. QED
  BY <1>1, JoinInvariant, PTL

\* ThreadPool::RunWorker: a completed future means that no worker is inside
\* the batch, however many threads and batches there are.
THEOREM JoinsAllWorkersTheorem == Spec => []JoinsAllWorkers
<1>1. JoinInv => JoinsAllWorkers
  <2>. SUFFICES ASSUME JoinInv, NEW g \in 1 .. MaxBatches,
                       future[g] \in {"value", "exception"},
                       NEW w \in Workers, seen[w] = g, pc[w] \in InBatch
                PROVE  FALSE
    BY DEF JoinsAllWorkers
  <2>1. w \in Owing /\ g = generation
    BY DEF JoinInv, BusyIsCurrent, Owing, Busy
  <2>2. active # 0
    BY <2>1, OwingFinite DEF JoinInv, ActiveCountsOwing
  <2>. QED
    BY <2>1, <2>2, BoundAssumption DEF JoinInv, FuturesMatch, TypeOK
<1>. QED
  BY <1>1, JoinInvariant, PTL

\* ThreadPool.h, "Publish immutable work": no step changes the workload that
\* a worker is reading without the lock.
THEOREM WorkIsImmutableTheorem == Spec => WorkIsImmutable
<1>1. JoinInv /\ [Next]_vars =>
        [(\E w \in Workers : pc[w] \in InBatch) => workload' = workload]_vars
  <2>. SUFFICES ASSUME JoinInv, Next, NEW w \in Workers, pc[w] \in InBatch
                PROVE  workload' = workload
    BY DEF vars, poolVars
  <2>1. w \in Owing
    BY DEF JoinInv, BusyIsCurrent, Owing, Busy
  <2>2. active # 0
    BY <2>1, OwingFinite DEF JoinInv, ActiveCountsOwing
  <2>3. CASE \E v \in Workers : Leave(v)
    <3>1. PICK v \in Workers : Leave(v)
      BY <2>3
    <3>2. v # w /\ v \in Owing
      BY <3>1 DEF Leave, InBatch, JoinInv, BusyIsCurrent, Owing, Busy
    <3>3. active # 1
      <4>1. IsFiniteSet(Owing) /\ Cardinality(Owing) = active
        BY OwingFinite DEF JoinInv, ActiveCountsOwing
      <4>. QED
        BY <2>1, <3>2, <4>1, FS_Singleton
    <3>. QED
      BY <3>1, <3>3 DEF Leave, LastOut
  <2>4. CASE StartWorkers \/ Destroy \/ DestructorStep \/ Terminated
    BY <2>4 DEF StartWorkers, Destroy, DestructorStep, DestroyCheckIdle, DestroyNotify,
       DestroyJoin, Terminated, poolVars, vars
  <2>5. CASE ProcessQueued \/ ProcessGiven \/ QueueCallable \/ ClearWorkload
    BY <2>2, <2>5 DEF ProcessQueued, ProcessGiven, QueueCallable, ClearWorkload, RequireIdle
  <2>6. CASE \E v \in Workers : \/ Wake(v) \/ Execute(v) \/ RaiseFailed(v) \/ Fetch(v)
                                \/ Test(v) \/ SpuriousWake(v)
    BY <2>6 DEF Wake, Execute, RaiseFailed, Fetch, Test, SpuriousWake, poolVars
  <2>. QED
    BY <2>3, <2>4, <2>5, <2>6 DEF Next, WorkerStep
<1>. QED
  BY <1>1, JoinInvariant, PTL DEF Spec, WorkIsImmutable

-----------------------------------------------------------------------------
(* What a future says is true: every callable was handed out once, by the    *)
(* shared counter of a SingleQueue or on the strides of a MultiQueue.        *)

Holds(w) == pc[w] \in {"test", "task"}

\* The indices of the stride of worker w in a MultiQueue.
OnStride(w, i) == \E k \in Nat : i = w + k * Size

\* Index i has been drawn in this batch: from the shared counter, or by the
\* worker on whose stride it lies.
Drawn(i) ==
    \/ ~multi /\ i < index
    \/ multi /\ \E w \in Workers : seen[w] = generation /\ at[w] >= i /\ OnStride(w, i)

\* An index a worker holds has been drawn, is held by nobody else and has not
\* run; an index that was drawn has run or is held, unless the batch failed.
Claims ==
    /\ \A w \in Workers : Holds(w) => at[w] \in Nat
    /\ \A w \in Workers, i \in Nat : Holds(w) /\ at[w] = i => Drawn(i)
    /\ \A v, w \in Workers : Holds(v) /\ Holds(w) /\ v # w => at[v] # at[w]
    /\ \A i \in DOMAIN ran :
         ran[i] # 0 => /\ ran[i] = 1 /\ Drawn(i)
                       /\ \A w \in Workers : Holds(w) => at[w] # i
    /\ \A i \in 0 .. published - 1 :
         Drawn(i) => failed \/ ran[i] = 1 \/ \E w \in Workers : Holds(w) /\ at[w] = i

\* A worker draws from the shared counter or on its own stride, and from
\* nothing before the pool has been started.
Draws ==
    /\ \A w \in Workers : at[w] # NoIndex =>
         IF multi THEN OnStride(w, at[w]) ELSE seen[w] = generation => at[w] < index
    /\ status = "STOPPED" =>
         /\ ~multi /\ index = 0 /\ published = 0
         /\ \A w \in Workers : at[w] = NoIndex
         /\ \A i \in DOMAIN ran : ran[i] = 0

\* Before a worker has found out that there is nothing left to draw.
Drawing == {"pre", "raisePre", "fetch", "test", "task", "raiseTask"}

\* A worker that is through with the batch found no index left, or a failure.
Through ==
    \A w \in Workers :
        w < participants /\ seen[w] = generation /\ pc[w] \notin Drawing =>
            failed \/ at[w] >= published

\* What the batch has published is what its workers read.
Sized ==
    /\ active > 0 => Len(workload) = published
    /\ participants = IF Size < published THEN Size ELSE published
    /\ generation > 0 => Size > 0

Raising(w) == pc[w] \in {"raisePre", "raiseTask", "raisePost"}

\* m_failed is raised for an exception in the modes that stop a batch.
Failures ==
    /\ failed => threw /\ RaisesFailed
    /\ threw => errors > 0
    /\ \A w \in Workers : Raising(w) => threw
    /\ threw /\ RaisesFailed =>
         failed \/ \E w \in Workers : Raising(w)
    /\ active = 0 /\ generation > 0 =>
         future[generation] = IF failed THEN "exception" ELSE "value"

\* All callables of the workload were queued in generation g.
QueuedIn(g) == \A i \in DOMAIN workload : workload[i] = g

\* Unless the mode is NEVER, old work is gone before new work is queued.
FreshInv ==
    clearMode # "NEVER" =>
        /\ active > 0 => QueuedIn(generation - 1)
                          /\ (clearMode = "AT_NEXT_WORKLOAD" => dirty)
        /\ active = 0 /\ ~(clearMode = "AT_NEXT_WORKLOAD" /\ dirty) => QueuedIn(generation)

HonestInv == Claims /\ Draws /\ Through /\ Sized /\ Failures /\ FreshInv

-----------------------------------------------------------------------------
(* Strides                                                                  *)

\* A multiple of the number of threads is at least one stride above a smaller one.
LEMMA NextMultiple ==
    ASSUME NEW n \in Nat \ {0}, NEW k \in Nat, NEW m \in Nat, k < m
    PROVE  k * n + n <= m * n /\ k * n \in Nat /\ m * n \in Nat
  BY SMT

\* Strides of different workers do not meet.
LEMMA StridesApart ==
    ASSUME NEW v \in Workers, NEW w \in Workers, NEW i \in Nat,
           OnStride(v, i), OnStride(w, i)
    PROVE  v = w
<1>1. PICK k \in Nat : i = v + k * Size
  BY DEF OnStride
<1>2. PICK m \in Nat : i = w + m * Size
  BY DEF OnStride
<1>3. Size \in Nat \ {0} /\ v \in Nat /\ w \in Nat /\ v < Size /\ w < Size
  BY SizeAssumption DEF Workers
<1>4. ~(k < m)
  BY <1>1, <1>2, <1>3, NextMultiple
<1>5. ~(m < k)
  BY <1>1, <1>2, <1>3, NextMultiple
<1>6. k = m
  BY <1>4, <1>5
<1>7. k * Size \in Nat
  BY <1>3, SMT
<1> QED
  BY <1>1, <1>2, <1>3, <1>6, <1>7

\* What a worker draws lies on its stride, and nothing of it in between.
LEMMA StrideStep ==
    ASSUME NEW w \in Workers, NEW a \in Nat, OnStride(w, a)
    PROVE  /\ OnStride(w, a + Size)
           /\ \A i \in Nat : OnStride(w, i) /\ i <= a + Size => i <= a \/ i = a + Size
<1>1. PICK k \in Nat : a = w + k * Size
  BY DEF OnStride
<1>2. Size \in Nat \ {0} /\ w \in Nat
  BY SizeAssumption DEF Workers
<1>3. (k + 1) * Size = k * Size + Size /\ k + 1 \in Nat /\ k * Size \in Nat
  BY <1>2, SMT
<1>4. OnStride(w, a + Size)
  BY <1>1, <1>2, <1>3 DEF OnStride
<1>5. ASSUME NEW i \in Nat, OnStride(w, i), i <= a + Size, i > a PROVE i = a + Size
  <2>1. PICK m \in Nat : i = w + m * Size
    BY <1>5 DEF OnStride
  <2>2. m * Size \in Nat
    BY <1>2, SMT
  <2>3. ~(m < k) /\ m # k
    BY <1>1, <1>2, <1>3, <1>5, <2>1, <2>2, NextMultiple
  <2>4. ~(k + 1 < m)
    BY <1>1, <1>2, <1>3, <1>5, <2>1, <2>2, NextMultiple
  <2>5. m = k + 1
    BY <2>3, <2>4
  <2> QED
    BY <1>1, <1>2, <1>3, <2>1, <2>5
<1> QED
  BY <1>4, <1>5

\* A worker's stride starts at its own number.
LEMMA StrideStart ==
    ASSUME NEW w \in Workers
    PROVE  /\ OnStride(w, w)
           /\ \A i \in Nat : OnStride(w, i) /\ i <= w => i = w
<1>1. Size \in Nat \ {0} /\ w \in Nat /\ w = w + 0 * Size
  BY SizeAssumption DEF Workers
<1>2. OnStride(w, w)
  BY <1>1 DEF OnStride
<1>3. ASSUME NEW i \in Nat, OnStride(w, i), i <= w PROVE i = w
  <2>1. PICK m \in Nat : i = w + m * Size
    BY <1>3 DEF OnStride
  <2>2. m * Size \in Nat
    BY <1>1, SMT
  <2> QED
    BY <1>1, <1>3, <2>1, <2>2
<1> QED
  BY <1>2, <1>3

\* Every index of a batch lies on the stride of a participant.
LEMMA StridesCover ==
    ASSUME Size > 0, NEW n \in Nat, NEW i \in 0 .. n - 1
    PROVE  \E w \in Workers : w < (IF Size < n THEN Size ELSE n) /\ OnStride(w, i)
<1>1. Size \in Nat \ {0} /\ i \in Nat
  BY SizeAssumption
<1>2. CASE i < Size
  <2>1. i \in Workers /\ i < (IF Size < n THEN Size ELSE n)
    BY <1>1, <1>2 DEF Workers
  <2> QED
    BY <2>1, StrideStart
<1>3. CASE ~(i < Size)
  <2>1. i % Size \in 0 .. Size - 1 /\ i \div Size \in Nat
    BY <1>1, SMT
  <2>2. i = (i % Size) + (i \div Size) * Size
    BY <1>1, SMT
  <2>3. OnStride(i % Size, i)
    BY <2>1, <2>2 DEF OnStride
  <2>4. Size < n
    BY <1>1, <1>3
  <2> QED
    BY <1>1, <2>1, <2>3, <2>4 DEF Workers
<1> QED
  BY <1>2, <1>3

-----------------------------------------------------------------------------
(* How the parts of the invariant are kept                                  *)

\* A worker inside a batch belongs to the running one.
LEMMA BusyFacts ==
    ASSUME JoinInv, NEW w \in Workers, pc[w] \in Busy
    PROVE  active > 0 /\ w < participants /\ seen[w] = generation /\ generation > 0
<1>1. w < participants /\ seen[w] = generation /\ w \in Owing
  BY DEF JoinInv, BusyIsCurrent, Owing
<1>2. active # 0 /\ active \in Nat
  BY <1>1, OwingFinite DEF JoinInv, ActiveCountsOwing
<1> QED
  BY <1>1, <1>2, BoundAssumption DEF JoinInv, NothingPublished, TypeOK

\* Nobody is inside a batch when nobody owes it a departure.
LEMMA IdleFacts ==
    ASSUME JoinInv, active = 0
    PROVE  /\ \A w \in Workers : pc[w] \notin Busy
           /\ \A w \in Workers : w < participants => seen[w] = generation
<1>1. Owing = {}
  BY OwingFinite DEF JoinInv, ActiveCountsOwing
<1> QED
  BY <1>1, BusyFacts DEF Owing

\* The claims are kept when nothing is drawn or run and a worker that lets an
\* index go leaves it to nobody: it lies beyond the workload or the batch failed.
LEMMA ClaimsFrame ==
    ASSUME JoinInv, Claims, ran' = ran, published' = published, failed => failed',
           \A i \in Nat : Drawn(i)' <=> Drawn(i),
           \A w \in Workers : Holds(w)' => Holds(w) /\ at'[w] = at[w],
           \A w \in Workers : Holds(w) /\ ~Holds(w)' => failed' \/ at[w] >= published
    PROVE  Claims'
<1>1. DOMAIN ran \subseteq Nat /\ published \in Nat
  BY BoundAssumption DEF JoinInv, TypeOK
<1>2. /\ \A w \in Workers : Holds(w)' => at'[w] \in Nat
      /\ \A w \in Workers, i \in Nat : Holds(w)' /\ at'[w] = i => Drawn(i)'
  BY DEF Claims
<1>3. \A v, w \in Workers : Holds(v)' /\ Holds(w)' /\ v # w => at'[v] # at'[w]
  BY DEF Claims
<1>4. \A i \in DOMAIN ran' :
        ran'[i] # 0 => /\ ran'[i] = 1 /\ Drawn(i)'
                       /\ \A w \in Workers : Holds(w)' => at'[w] # i
  BY <1>1 DEF Claims
<1>5. ASSUME NEW i \in 0 .. published - 1, Drawn(i)', ~failed', ran'[i] # 1
      PROVE  \E w \in Workers : Holds(w)' /\ at'[w] = i
  <2>1. i \in Nat /\ Drawn(i)
    BY <1>1, <1>5
  <2>2. PICK w \in Workers : Holds(w) /\ at[w] = i
    BY <1>5, <2>1 DEF Claims
  <2>3. Holds(w)'
    BY <1>1, <1>5, <2>2
  <2> QED
    BY <2>2, <2>3
<1> QED
  BY <1>2, <1>3, <1>4, <1>5 DEF Claims

\* Nothing is drawn when the counter, the generation and the workers' indices
\* stay as they are.
LEMMA DrawnFrame ==
    ASSUME UNCHANGED <<multi, index, generation, seen, at>>, NEW i
    PROVE  Drawn(i)' <=> Drawn(i)
  BY DEF Drawn

\* A step outside the batch: workers move between waiting and testing, the owner
\* changes the workload of an idle pool.
Waiting == {"unborn", "check", "sleep", "exited"}

LEMMA QuietStep ==
    ASSUME JoinInv, HonestInv, FreshInv',
           UNCHANGED <<multi, errorHandling, index, failed, errors, generation, active,
                       participants, future, seen, at, ran, threw, published>>,
           \A w \in Workers : pc'[w] = pc[w] \/ (pc[w] \in Waiting /\ pc'[w] \in Waiting),
           active > 0 => workload' = workload, status' = "STOPPED" => status = "STOPPED"
    PROVE  HonestInv'
<1>1. \A w \in Workers : (Holds(w)' <=> Holds(w)) /\ (Raising(w)' <=> Raising(w))
  BY DEF Waiting, Holds, Raising
<1>2. \A w \in Workers : pc'[w] \notin Drawing => pc[w] \notin Drawing
  BY DEF Waiting, Drawing
<1>3. Claims'
  BY <1>1, DrawnFrame, ClaimsFrame DEF HonestInv
<1>4. Draws'
  BY DEF HonestInv, Draws
<1>5. Through'
  BY <1>2 DEF HonestInv, Through
<1>6. Sized'
  BY DEF HonestInv, Sized
<1>7. Failures'
  <2>1. RaisesFailed' <=> RaisesFailed
    BY DEF RaisesFailed
  <2> QED
    BY <1>1, <2>1 DEF HonestInv, Failures
<1> QED
  BY <1>3, <1>4, <1>5, <1>6, <1>7 DEF HonestInv

-----------------------------------------------------------------------------
(* The owner's steps                                                        *)

\* What AT_NEXT_WORKLOAD keeps on an idle pool is of this generation.
LEMMA KeptFresh ==
    ASSUME JoinInv, HonestInv, active = 0, clearMode # "NEVER"
    PROVE  \A i \in DOMAIN KeptWork : KeptWork[i] = generation
  BY DEF HonestInv, FreshInv, QueuedIn, KeptWork

\* A workload is published, or only kept for later.
LEMMA PublishInv ==
    ASSUME JoinInv, HonestInv, active = 0, NEW work \in Seq(Nat), NEW d \in BOOLEAN,
           Publish(work, d), Len(work) <= MaxWork,
           clearMode # "NEVER" => \A i \in DOMAIN work : work[i] = generation
    PROVE  HonestInv'
<1>1. CASE status # "READY" \/ work = <<>>
  <2>1. /\ workload' = work
        /\ UNCHANGED <<clearMode, multi, errorHandling, index, failed, errors, generation,
              active, participants, future, pc, seen, at, ran, threw, published, status>>
    BY <1>1 DEF Publish, modeVars, workerVars, historyVars
  <2>2. FreshInv'
    BY <2>1 DEF FreshInv, QueuedIn
  <2> QED
    BY <2>1, <2>2, QuietStep
<1>2. CASE ~(status # "READY" \/ work = <<>>)
  <2>1. /\ workload' = work /\ dirty' = TRUE /\ errors' = 0 /\ failed' = FALSE /\ index' = 0
        /\ participants' = ParticipantsFor(work) /\ active' = participants'
        /\ generation' = generation + 1 /\ status' = "PROCESSING" /\ pc' = NotifyReady(pc)
        /\ ran' = [i \in DOMAIN ran |-> 0] /\ threw' = FALSE /\ published' = Len(work)
        /\ UNCHANGED <<clearMode, errorHandling, multi, seen, at>>
    BY <1>2 DEF Publish, modeVars
  <2>2. /\ generation \in Nat /\ \A w \in Workers : seen[w] # generation + 1
    BY BoundAssumption DEF JoinInv, TypeOK, SeenIsPast
  <2>3. Len(work) \in Nat \ {0} /\ Size \in Nat \ {0}
    BY <1>2, SizeAssumption DEF JoinInv, ReadyHasThreads
  <2>4. \A w \in Workers : ~Holds(w)' /\ ~Raising(w)'
    BY <2>1, IdleFacts DEF NotifyReady, Holds, Raising, Busy, InBatch
  <2>5. \A i \in Nat : ~Drawn(i)'
    BY <2>1, <2>2 DEF Drawn
  <2>6. DOMAIN ran' = DOMAIN ran /\ \A i \in DOMAIN ran' : ran'[i] = 0
    BY <2>1
  <2>7. Claims'
    <3>1. \A i \in 0 .. published' - 1 : i \in Nat
      BY <2>1, <2>3
    <3> QED
      BY <2>4, <2>5, <2>6, <3>1 DEF Claims
  <2>8. Draws'
    BY <2>1, <2>2 DEF HonestInv, Draws
  <2>9. Through'
    BY <2>1, <2>2 DEF Through
  <2>10. Sized'
    BY <2>1, <2>3 DEF Sized, ParticipantsFor
  <2>11. Failures'
    <3>1. active' # 0
      BY <2>1, <2>3 DEF ParticipantsFor
    <3> QED
      BY <2>1, <2>4, <3>1 DEF Failures
  <2>12. FreshInv'
    <3>1. (generation + 1) - 1 = generation /\ active' # 0
      BY <2>1, <2>2, <2>3 DEF ParticipantsFor
    <3> QED
      BY <2>1, <3>1 DEF FreshInv, QueuedIn
  <2> QED
    BY <2>7, <2>8, <2>9, <2>10, <2>11, <2>12 DEF HonestInv
<1> QED
  BY <1>1, <1>2

\* The owner's calls keep the claims.
LEMMA OwnerHonest ==
    ASSUME JoinInv, HonestInv,
           \/ StartWorkers \/ ProcessQueued \/ ProcessGiven \/ QueueCallable
           \/ ClearWorkload \/ Destroy \/ DestructorStep
    PROVE  HonestInv'
<1>1. CASE StartWorkers
  <2>1. /\ status = "STOPPED" /\ status' # "STOPPED"
        /\ \A w \in Workers : pc'[w] \in Waiting
        /\ UNCHANGED <<clearMode, errorHandling, workload, errors, index, failed,
              generation, active, participants, dirty, future, seen, at, ran, threw, published>>
    BY <1>1 DEF StartWorkers, Waiting, historyVars
  <2>2. /\ index = 0 /\ published = 0 /\ \A w \in Workers : at[w] = NoIndex
        /\ \A i \in DOMAIN ran : ran[i] = 0
    BY <2>1 DEF HonestInv, Draws
  <2>3. \A w \in Workers : pc[w] = "unborn"
    BY <2>1 DEF JoinInv, StoppedIsFresh
  <2>4. \A w \in Workers : ~Holds(w)' /\ ~Raising(w)' /\ ~Raising(w)
    BY <2>1, <2>3 DEF Holds, Raising, Waiting
  <2>5. Claims'
    BY <2>1, <2>2, <2>4 DEF Claims
  <2>6. Draws'
    BY <2>1, <2>2 DEF Draws
  <2>7. Through' /\ Sized'
    <3>1. participants = 0
      BY <2>2, SizeAssumption DEF HonestInv, Sized
    <3>2. \A w \in Workers : ~(w < participants)
      BY <3>1, SizeAssumption DEF Workers
    <3> QED
      BY <2>1, <3>2 DEF Through, HonestInv, Sized
  <2>8. Failures'
    <3>1. RaisesFailed' <=> RaisesFailed
      BY <2>1 DEF RaisesFailed
    <3> QED
      BY <2>1, <2>4, <3>1 DEF HonestInv, Failures
  <2>9. FreshInv'
    BY <2>1 DEF HonestInv, FreshInv, QueuedIn
  <2> QED
    BY <2>5, <2>6, <2>7, <2>8, <2>9 DEF HonestInv
<1>2. CASE ProcessQueued
  <2>1. /\ KeptWork \in Seq(Nat) /\ Len(KeptWork) <= MaxWork /\ active = 0
        /\ (dirty /\ clearMode # "AT_NEXT_WORKLOAD") \in BOOLEAN
    BY <1>2, BoundAssumption DEF ProcessQueued, RequireIdle, KeptWork, JoinInv, TypeOK,
       WorkIsBounded
  <2> QED
    BY <1>2, <2>1, KeptFresh, PublishInv DEF ProcessQueued
<1>3. CASE ProcessGiven
  <2>1. PICK n \in 0 .. MaxWork : Publish([i \in 1 .. n |-> generation], dirty)
    BY <1>3 DEF ProcessGiven
  <2>2. active = 0 /\ dirty \in BOOLEAN /\ generation \in Nat
    BY <1>3, BoundAssumption DEF ProcessGiven, RequireIdle, JoinInv, TypeOK
  <2>3. /\ [i \in 1 .. n |-> generation] \in Seq(Nat)
        /\ Len([i \in 1 .. n |-> generation]) <= MaxWork
        /\ \A j \in DOMAIN [i \in 1 .. n |-> generation] :
              [i \in 1 .. n |-> generation][j] = generation
    BY <2>2, BoundAssumption
  <2> QED
    BY <2>1, <2>2, <2>3, PublishInv
<1>4. CASE QueueCallable \/ ClearWorkload
  <2>1. /\ active = 0 /\ workload' \in {<<>>, Append(KeptWork, generation)}
        /\ UNCHANGED <<clearMode, multi, errorHandling, index, failed, errors, generation,
              active, participants, future, pc, seen, at, ran, threw, published, status>>
    BY <1>4 DEF QueueCallable, ClearWorkload, RequireIdle, modeVars, workerVars, historyVars
  <2>2. ASSUME clearMode # "NEVER" PROVE QueuedIn(generation)'
    <3>1. CASE workload' = <<>>
      BY <3>1 DEF QueuedIn
    <3>2. CASE workload' = Append(KeptWork, generation)
      <4>1. KeptWork \in Seq(Nat) /\ generation \in Nat
        BY BoundAssumption DEF KeptWork, JoinInv, TypeOK
      <4>2. \A i \in DOMAIN KeptWork : KeptWork[i] = generation
        BY <2>1, <2>2, KeptFresh
      <4>3. /\ DOMAIN KeptWork = 1 .. Len(KeptWork) /\ Len(KeptWork) \in Nat
            /\ DOMAIN Append(KeptWork, generation) = 1 .. Len(KeptWork) + 1
        BY <4>1
      <4>4. \A i \in 1 .. Len(KeptWork) + 1 :
              Append(KeptWork, generation)[i] =
                IF i = Len(KeptWork) + 1 THEN generation ELSE KeptWork[i]
        BY <4>1
      <4>5. \A i \in 1 .. Len(KeptWork) + 1 : Append(KeptWork, generation)[i] = generation
        BY <4>2, <4>3, <4>4
      <4> QED
        BY <2>1, <3>2, <4>3, <4>5 DEF QueuedIn
    <3> QED
      BY <2>1, <3>1, <3>2
  <2>3. FreshInv'
    BY <2>1, <2>2 DEF FreshInv
  <2> QED
    BY <2>1, <2>3, QuietStep
<1>5. CASE Destroy \/ DestructorStep
  <2>1. /\ UNCHANGED <<clearMode, multi, errorHandling, index, failed, errors, generation,
              active, participants, future, seen, at, ran, threw, published, workload, dirty>>
        /\ status' = "STOPPED" => status = "STOPPED"
        /\ pc' = pc \/ pc' = NotifyReady(pc)
    BY <1>5 DEF Destroy, DestructorStep, DestroyCheckIdle, DestroyNotify, DestroyJoin,
       modeVars, poolVars, workerVars, historyVars
  <2>2. \A w \in Workers : pc'[w] = pc[w] \/ (pc[w] \in Waiting /\ pc'[w] \in Waiting)
    BY <2>1 DEF NotifyReady, Waiting
  <2>3. FreshInv'
    BY <2>1 DEF HonestInv, FreshInv, QueuedIn
  <2> QED
    BY <2>1, <2>2, <2>3, QuietStep
<1> QED
  BY <1>1, <1>2, <1>3, <1>4, <1>5

-----------------------------------------------------------------------------
(* The workers' steps                                                       *)

\* The variables that a step of a worker inside the batch leaves alone.
Steady == <<multi, errorHandling, clearMode, status, workload, generation, active,
            participants, dirty, future, published>>

\* Such a step keeps the parts of the invariant that do not speak of indices.
LEMMA SteadyFacts ==
    ASSUME JoinInv, HonestInv, UNCHANGED Steady
    PROVE  Sized' /\ FreshInv' /\ (RaisesFailed' <=> RaisesFailed)
<1>1. UNCHANGED <<errorHandling, clearMode, workload, generation, active, participants,
                  dirty, published>>
  BY DEF Steady
<1> QED
  BY <1>1 DEF HonestInv, Sized, FreshInv, QueuedIn, RaisesFailed

\* A worker outside the batch sleeps, wakes, exits or joins a new batch.
LEMMA WaitHonest ==
    ASSUME JoinInv, HonestInv, NEW w \in Workers, Wake(w) \/ SpuriousWake(w)
    PROVE  HonestInv'
<1>1. /\ UNCHANGED Steady /\ UNCHANGED <<errors, index, failed, threw, ran>>
      /\ pc[w] \in {"check", "sleep"}
  BY DEF Wake, SpuriousWake, Steady, modeVars, poolVars, historyVars
<1>2. pc \in [Workers -> PCs] /\ seen \in [Workers -> 0 .. MaxBatches]
      /\ at \in [Workers -> Nat \cup {NoIndex}]
  BY DEF JoinInv, TypeOK
<1>3. Sized' /\ FreshInv' /\ (RaisesFailed' <=> RaisesFailed)
  BY <1>1, SteadyFacts
<1>4. CASE seen' = seen /\ at' = at
  <2>1. \E q \in Waiting : pc' = [pc EXCEPT ![w] = q]
    <3>1. CASE SpuriousWake(w)
      BY <3>1 DEF SpuriousWake, Waiting
    <3>2. CASE Wake(w)
      <4>1. ~(~stopping /\ generation # seen[w]
              /\ seen' = [seen EXCEPT ![w] = generation])
        BY <1>2, <1>4
      <4> QED
        BY <3>2, <4>1 DEF Wake, Waiting
    <3> QED
      BY <3>1, <3>2
  <2>2. \A v \in Workers : pc'[v] = pc[v] \/ (pc[v] \in Waiting /\ pc'[v] \in Waiting)
    BY <1>1, <1>2, <2>1 DEF Waiting
  <2>3. UNCHANGED <<multi, errorHandling, status, workload, generation, active,
                    participants, future, published>>
    BY <1>1 DEF Steady
  <2> QED
    BY <1>1, <1>3, <1>4, <2>2, <2>3, QuietStep
<1>5. CASE ~(seen' = seen /\ at' = at)
  <2>1. /\ generation # seen[w] /\ seen' = [seen EXCEPT ![w] = generation]
        /\ at' = [at EXCEPT ![w] = NoIndex]
        /\ pc' = [pc EXCEPT ![w] = IF w < participants THEN "pre" ELSE "check"]
    BY <1>5 DEF Wake, SpuriousWake
  <2>2. /\ seen'[w] = generation /\ at'[w] = NoIndex
        /\ pc'[w] = IF w < participants THEN "pre" ELSE "check"
        /\ \A v \in Workers \ {w} : seen'[v] = seen[v] /\ at'[v] = at[v] /\ pc'[v] = pc[v]
    BY <1>2, <2>1
  <2>3. UNCHANGED <<multi, status, generation, active, participants, future, published>>
    BY <1>1 DEF Steady
  <2>4. ASSUME NEW i \in Nat PROVE Drawn(i)' <=> Drawn(i)
    <3>1. ~(NoIndex >= i)
      BY DEF NoIndex
    <3> QED
      BY <1>1, <2>1, <2>2, <2>3, <3>1 DEF Drawn
  <2>5. \A v \in Workers : (Holds(v)' <=> Holds(v)) /\ (Raising(v)' <=> Raising(v))
    BY <1>1, <2>2 DEF Holds, Raising
  <2>6. Claims'
    <3>1. \A v \in Workers : Holds(v)' => Holds(v) /\ at'[v] = at[v]
      BY <1>1, <2>2 DEF Holds
    <3>2. \A v \in Workers : ~(Holds(v) /\ ~Holds(v)')
      BY <1>1, <2>2 DEF Holds
    <3>3. \A i \in Nat : Drawn(i)' <=> Drawn(i)
      BY <2>4
    <3>4. ran' = ran /\ published' = published /\ (failed => failed') /\ Claims
      BY <1>1, <2>3 DEF HonestInv
    <3> QED
      BY <3>1, <3>2, <3>3, <3>4, ClaimsFrame
  <2>7. Draws'
    BY <1>1, <2>2, <2>3 DEF HonestInv, Draws
  <2>8. Through'
    BY <1>1, <2>2, <2>3 DEF HonestInv, Through, Drawing
  <2>9. Failures'
    <3>1. Failures /\ (\A v \in Workers : Raising(v)' <=> Raising(v))
      BY <2>5 DEF HonestInv
    <3>2. UNCHANGED <<failed, threw, errors, active, generation, future>>
      BY <1>1, <2>3
    <3> QED
      BY <1>3, <3>1, <3>2 DEF Failures
  <2> QED
    BY <1>3, <2>6, <2>7, <2>8, <2>9 DEF HonestInv
<1> QED
  BY <1>4, <1>5

\* A callable runs, and may throw.
LEMMA ExecuteHonest ==
    ASSUME JoinInv, HonestInv, NEW w \in Workers, Execute(w)
    PROVE  HonestInv'
<1>1. /\ UNCHANGED Steady /\ UNCHANGED <<index, failed, seen, at>> /\ pc[w] \in Callables
  BY DEF Execute, Steady, modeVars
<1>2. /\ pc \in [Workers -> PCs] /\ errors \in Nat /\ threw \in BOOLEAN
      /\ ran \in [0 .. MaxWork - 1 -> Nat] /\ published \in 0 .. MaxWork
  BY DEF JoinInv, TypeOK
<1>3. /\ Sized' /\ FreshInv' /\ (RaisesFailed' <=> RaisesFailed)
      /\ UNCHANGED <<multi, status, generation, active, participants, future, seen, published>>
  BY <1>1, SteadyFacts DEF Steady
<1>4. active > 0
  BY <1>1, BusyFacts DEF Callables, Busy, InBatch
<1>5. \A v \in Workers \ {w} : pc'[v] = pc[v]
  BY <1>2 DEF Execute
<1>6. \/ pc'[w] = After[pc[w]] /\ UNCHANGED <<errors, threw>>
      \/ pc'[w] = Raise[pc[w]] /\ errors' = errors + 1 /\ threw' = TRUE
  BY <1>2 DEF Execute
<1>7. ~Holds(w)' /\ ~Raising(w) /\ (pc'[w] \in Drawing \/ pc[w] \notin Drawing)
  BY <1>1, <1>6 DEF Holds, Raising, Callables, After, Raise, Drawing
<1>8. \A i : Drawn(i)' <=> Drawn(i)
  BY <1>1, <1>3, DrawnFrame
<1>9. Claims'
  <2>1. CASE pc[w] # "task"
    <3>1. ran' = ran /\ ~Holds(w)
      BY <1>1, <2>1 DEF Execute, Holds, Callables
    <3>2. \A v \in Workers : Holds(v)' <=> Holds(v)
      BY <1>5, <1>7, <3>1 DEF Holds
    <3> QED
      BY <1>1, <1>3, <1>8, <3>1, <3>2, ClaimsFrame DEF HonestInv
  <2>2. CASE pc[w] = "task"
    <3>1. Holds(w) /\ ran' = [ran EXCEPT ![at[w]] = @ + 1]
      BY <2>2 DEF Holds, Execute
    <3>2. PICK x \in Nat : x = at[w] /\ Drawn(x)
      BY <3>1 DEF HonestInv, Claims
    <3>3. \A v \in Workers : Holds(v)' <=> Holds(v) /\ v # w
      BY <1>5, <1>7 DEF Holds
    <3>4. /\ DOMAIN ran' = DOMAIN ran /\ DOMAIN ran = 0 .. MaxWork - 1
          /\ \A i \in DOMAIN ran : i # x => ran'[i] = ran[i]
          /\ x \in DOMAIN ran => ran'[x] = ran[x] + 1
      BY <1>2, <3>1, <3>2
    <3>5. x \in DOMAIN ran => ran[x] = 0 /\ ran'[x] = 1
      BY <3>1, <3>2, <3>4 DEF HonestInv, Claims
    <3>6. \A v \in Workers : Holds(v) /\ v # w => at[v] # x
      BY <3>1, <3>2 DEF HonestInv, Claims
    <3>7. /\ \A v \in Workers : Holds(v)' => at'[v] \in Nat
          /\ \A v \in Workers, i \in Nat : Holds(v)' /\ at'[v] = i => Drawn(i)'
          /\ \A u, v \in Workers : Holds(u)' /\ Holds(v)' /\ u # v => at'[u] # at'[v]
      BY <1>1, <1>8, <3>3 DEF HonestInv, Claims
    <3>8. ASSUME NEW i \in DOMAIN ran', ran'[i] # 0
          PROVE  /\ ran'[i] = 1 /\ Drawn(i)'
                 /\ \A v \in Workers : Holds(v)' => at'[v] # i
      <4>1. CASE i = x
        BY <1>1, <1>8, <3>2, <3>3, <3>4, <3>5, <3>6, <4>1
      <4>2. CASE i # x
        BY <1>1, <1>8, <3>3, <3>4, <3>8, <4>2 DEF HonestInv, Claims
      <4> QED
        BY <4>1, <4>2
    <3>9. ASSUME NEW i \in 0 .. published - 1, Drawn(i)', ~failed', ran'[i] # 1
          PROVE  \E v \in Workers : Holds(v)' /\ at'[v] = i
      <4>1. i \in DOMAIN ran /\ i # x
        BY <1>2, <3>4, <3>5, <3>9, BoundAssumption
      <4>2. ran[i] # 1 /\ Drawn(i) /\ ~failed
        BY <1>1, <1>8, <3>4, <3>9, <4>1
      <4>3. PICK v \in Workers : Holds(v) /\ at[v] = i
        BY <4>2 DEF HonestInv, Claims
      <4> QED
        BY <1>1, <3>2, <3>3, <4>1, <4>3
    <3> QED
      BY <1>3, <3>7, <3>8, <3>9 DEF Claims
  <2> QED
    BY <2>1, <2>2
<1>10. Draws'
  <2>1. status # "STOPPED"
    BY <1>1 DEF JoinInv, StoppedIsFresh, Callables
  <2> QED
    BY <1>1, <1>3, <2>1 DEF HonestInv, Draws
<1>11. Through'
  BY <1>1, <1>3, <1>5, <1>7 DEF HonestInv, Through
<1>12. Failures'
  <2>1. CASE pc'[w] = After[pc[w]] /\ UNCHANGED <<errors, threw>>
    <3>1. \A v \in Workers : Raising(v)' <=> Raising(v)
      BY <1>1, <1>5, <1>7, <2>1 DEF Raising, Callables, After
    <3> QED
      BY <1>1, <1>3, <2>1, <3>1 DEF HonestInv, Failures
  <2>2. CASE pc'[w] = Raise[pc[w]] /\ errors' = errors + 1 /\ threw' = TRUE
    <3>1. Raising(w)' /\ errors' > 0
      BY <1>1, <1>2, <2>2 DEF Raising, Callables, Raise
    <3> QED
      BY <1>1, <1>3, <1>4, <2>2, <3>1 DEF HonestInv, Failures
  <2> QED
    BY <1>6, <2>1, <2>2
<1> QED
  BY <1>3, <1>9, <1>10, <1>11, <1>12 DEF HonestInv

\* The handler of Execute raises m_failed.
LEMMA RaiseHonest ==
    ASSUME JoinInv, HonestInv, NEW w \in Workers, RaiseFailed(w)
    PROVE  HonestInv'
<1>1. /\ UNCHANGED Steady /\ UNCHANGED <<index, seen, at, errors, ran, threw>>
      /\ failed' = (failed \/ RaisesFailed)
  BY DEF RaiseFailed, Steady, modeVars, historyVars
<1>2. PICK c \in Callables : pc[w] = Raise[c] /\ pc' = [pc EXCEPT ![w] = After[c]]
  BY DEF RaiseFailed
<1>3. /\ Sized' /\ FreshInv' /\ (RaisesFailed' <=> RaisesFailed)
      /\ UNCHANGED <<multi, status, generation, active, participants, future, seen, published>>
  BY <1>1, SteadyFacts DEF Steady
<1>4. active > 0
  BY <1>2, BusyFacts DEF Callables, Raise, Busy, InBatch
<1>5. pc'[w] = After[c] /\ \A v \in Workers \ {w} : pc'[v] = pc[v]
  BY <1>2 DEF JoinInv, TypeOK
<1>6. ~Holds(w)' /\ ~Holds(w) /\ Raising(w) /\ (pc'[w] \in Drawing \/ pc[w] \notin Drawing)
  BY <1>2, <1>5 DEF Holds, Raising, Callables, After, Raise, Drawing
<1>7. Claims'
  <2>1. \A i : Drawn(i)' <=> Drawn(i)
    BY <1>1, <1>3, DrawnFrame
  <2>2. \A v \in Workers : Holds(v)' <=> Holds(v)
    BY <1>5, <1>6 DEF Holds
  <2> QED
    BY <1>1, <1>3, <2>1, <2>2, ClaimsFrame DEF HonestInv
<1>8. Draws'
  BY <1>1, <1>3 DEF HonestInv, Draws
<1>9. Through'
  BY <1>1, <1>3, <1>5, <1>6 DEF HonestInv, Through
<1>10. Failures'
  <2>1. threw /\ errors > 0 /\ (failed => RaisesFailed)
    BY <1>6 DEF HonestInv, Failures
  <2>2. UNCHANGED <<threw, errors, active>> /\ (failed' <=> failed \/ RaisesFailed)
    BY <1>1, <1>3
  <2>3. active' # 0
    BY <1>4, <2>2
  <2> QED
    BY <1>3, <2>1, <2>2, <2>3 DEF Failures
<1> QED
  BY <1>3, <1>7, <1>8, <1>9, <1>10 DEF HonestInv

\* What Fetch draws was not drawn before, by anybody.
LEMMA FetchDraws ==
    ASSUME JoinInv, Draws, NEW w \in Workers, Fetch(w)
    PROVE  \E x \in Nat :
             /\ at' = [at EXCEPT ![w] = x] /\ ~Drawn(x)
             /\ \A i \in Nat : Drawn(i)' <=> (Drawn(i) \/ i = x)
             /\ IF multi THEN index' = index /\ OnStride(w, x)
                         ELSE index' = index + 1 /\ x = index
<1>1. /\ UNCHANGED <<multi, generation, seen>> /\ pc[w] = "fetch"
      /\ at' = [at EXCEPT ![w] = IF multi THEN MultiIndex(w) ELSE index]
      /\ index' = IF multi THEN index ELSE index + 1
  BY DEF Fetch, modeVars
<1>2. index \in Nat /\ at \in [Workers -> Nat \cup {NoIndex}] /\ multi \in BOOLEAN
  BY DEF JoinInv, TypeOK
<1>3. CASE ~multi
  <2>1. \A i \in Nat : i < index + 1 <=> (i < index \/ i = index)
    BY <1>2
  <2>2. ~Drawn(index) /\ \A i \in Nat : Drawn(i)' <=> (Drawn(i) \/ i = index)
    BY <1>1, <1>2, <1>3, <2>1 DEF Drawn
  <2>3. at' = [at EXCEPT ![w] = index] /\ index' = index + 1
    BY <1>1, <1>3
  <2> QED
    BY <1>2, <1>3, <2>2, <2>3
<1>4. CASE multi
  <2>1. PICK x : x = MultiIndex(w)
    OBVIOUS
  <2>2. Size \in Nat \ {0} /\ w \in Nat /\ seen[w] = generation
    BY <1>1, SizeAssumption, BusyFacts DEF Workers, Busy, InBatch
  <2>3. /\ x \in Nat /\ OnStride(w, x) /\ ~(at[w] >= x)
        /\ \A i \in Nat : OnStride(w, i) /\ i <= x => at[w] >= i \/ i = x
    <3>1. CASE at[w] = NoIndex
      <4>1. x = w
        BY <2>1, <3>1 DEF MultiIndex
      <4> QED
        BY <2>2, <3>1, <4>1, StrideStart DEF NoIndex
    <3>2. CASE at[w] # NoIndex
      <4>1. PICK a \in Nat : a = at[w]
        BY <1>2, <3>2
      <4>2. x = a + Size /\ OnStride(w, a)
        BY <1>4, <2>1, <3>2, <4>1 DEF MultiIndex, Draws
      <4> QED
        BY <2>2, <4>1, <4>2, StrideStep
    <3> QED
      BY <3>1, <3>2
  <2>4. at' = [at EXCEPT ![w] = x] /\ index' = index
    BY <1>1, <1>4, <2>1
  <2>5. at'[w] = x /\ \A v \in Workers \ {w} : at'[v] = at[v]
    BY <1>2, <2>4
  <2>6. ~Drawn(x)
    BY <1>4, <2>3, StridesApart DEF Drawn
  <2>7. ASSUME NEW i \in Nat, Drawn(i)' PROVE Drawn(i) \/ i = x
    <3>1. PICK v \in Workers : seen[v] = generation /\ at'[v] >= i /\ OnStride(v, i)
      BY <1>1, <1>4, <2>7 DEF Drawn
    <3>2. CASE v = w
      <4>1. i <= x
        BY <2>3, <2>5, <3>1, <3>2
      <4>2. at[w] >= i \/ i = x
        BY <2>3, <3>1, <3>2, <4>1
      <4> QED
        BY <1>4, <2>2, <3>1, <3>2, <4>2 DEF Drawn
    <3>3. CASE v # w
      BY <1>4, <2>5, <3>1, <3>3 DEF Drawn
    <3> QED
      BY <3>2, <3>3
  <2>8. ASSUME NEW i \in Nat, Drawn(i) PROVE Drawn(i)'
    <3>1. PICK v \in Workers : seen[v] = generation /\ at[v] >= i /\ OnStride(v, i)
      BY <1>4, <2>8 DEF Drawn
    <3>2. at'[v] >= i
      <4>1. CASE v = w
        BY <1>2, <2>3, <2>5, <3>1, <4>1 DEF NoIndex
      <4> QED
        BY <2>5, <3>1, <4>1
    <3> QED
      BY <1>1, <1>4, <3>1, <3>2 DEF Drawn
  <2>9. Drawn(x)'
    BY <1>1, <1>4, <2>2, <2>3, <2>5 DEF Drawn
  <2> QED
    BY <1>4, <2>3, <2>4, <2>6, <2>7, <2>8, <2>9
<1> QED
  BY <1>2, <1>3, <1>4

\* A worker draws its next index.
LEMMA FetchHonest ==
    ASSUME JoinInv, HonestInv, NEW w \in Workers, Fetch(w)
    PROVE  HonestInv'
<1>1. /\ UNCHANGED Steady /\ UNCHANGED <<seen, failed, errors, ran, threw>> /\ pc[w] = "fetch"
      /\ pc' = [pc EXCEPT ![w] = "test"]
  BY DEF Fetch, Steady, modeVars, historyVars
<1>2. PICK x \in Nat :
         /\ at' = [at EXCEPT ![w] = x] /\ ~Drawn(x)
         /\ \A i \in Nat : Drawn(i)' <=> (Drawn(i) \/ i = x)
         /\ IF multi THEN index' = index /\ OnStride(w, x)
                     ELSE index' = index + 1 /\ x = index
  BY FetchDraws DEF HonestInv
<1>3. /\ Sized' /\ FreshInv' /\ (RaisesFailed' <=> RaisesFailed)
      /\ UNCHANGED <<multi, status, generation, active, participants, future, published>>
  BY <1>1, SteadyFacts DEF Steady
<1>4. /\ pc'[w] = "test" /\ at'[w] = x
      /\ \A v \in Workers \ {w} : pc'[v] = pc[v] /\ at'[v] = at[v]
  BY <1>1, <1>2 DEF JoinInv, TypeOK
<1>5. DOMAIN ran \subseteq Nat /\ published \in Nat /\ index \in Nat
  BY BoundAssumption DEF JoinInv, TypeOK
<1>6. /\ Holds(w)' /\ ~Holds(w) /\ ~Raising(w) /\ ~Raising(w)'
      /\ \A v \in Workers \ {w} : (Holds(v)' <=> Holds(v)) /\ (Raising(v)' <=> Raising(v))
  BY <1>1, <1>4 DEF Holds, Raising
<1>7. Claims'
  <2>1. \A v \in Workers : Holds(v) => at[v] # x
    BY <1>2 DEF HonestInv, Claims
  <2>2. \A v \in Workers : Holds(v)' => at'[v] \in Nat
    BY <1>4, <1>6 DEF HonestInv, Claims
  <2>3. \A v \in Workers, i \in Nat : Holds(v)' /\ at'[v] = i => Drawn(i)'
    BY <1>2, <1>4, <1>6 DEF HonestInv, Claims
  <2>4. \A u, v \in Workers : Holds(u)' /\ Holds(v)' /\ u # v => at'[u] # at'[v]
    BY <1>4, <1>6, <2>1 DEF HonestInv, Claims
  <2>5. ASSUME NEW i \in DOMAIN ran', ran'[i] # 0
        PROVE  /\ ran'[i] = 1 /\ Drawn(i)'
               /\ \A v \in Workers : Holds(v)' => at'[v] # i
    <3>1. i \in Nat /\ ran[i] = 1 /\ Drawn(i) /\ (\A v \in Workers : Holds(v) => at[v] # i)
      BY <1>1, <1>5, <2>5 DEF HonestInv, Claims
    <3>2. i # x
      BY <1>2, <3>1
    <3> QED
      BY <1>1, <1>2, <1>4, <1>6, <3>1, <3>2
  <2>6. ASSUME NEW i \in 0 .. published - 1, Drawn(i)', ~failed', ran'[i] # 1
        PROVE  \E v \in Workers : Holds(v)' /\ at'[v] = i
    <3>1. CASE i = x
      BY <1>4, <1>6, <3>1
    <3>2. CASE i # x
      <4>1. Drawn(i) /\ ~failed /\ ran[i] # 1
        BY <1>1, <1>2, <1>5, <2>6, <3>2
      <4>2. PICK v \in Workers : Holds(v) /\ at[v] = i
        BY <4>1 DEF HonestInv, Claims
      <4> QED
        BY <1>4, <1>6, <4>2
    <3> QED
      BY <3>1, <3>2
  <2> QED
    BY <1>3, <2>2, <2>3, <2>4, <2>5, <2>6 DEF Claims
<1>8. Draws'
  <2>1. status # "STOPPED"
    BY <1>1 DEF JoinInv, StoppedIsFresh
  <2>2. at \in [Workers -> Nat \cup {NoIndex}]
    BY DEF JoinInv, TypeOK
  <2>3. CASE multi
    BY <1>2, <1>3, <1>4, <2>1, <2>3 DEF HonestInv, Draws
  <2>4. CASE ~multi
    BY <1>1, <1>2, <1>3, <1>4, <1>5, <2>1, <2>2, <2>4 DEF HonestInv, Draws, NoIndex
  <2> QED
    BY <2>3, <2>4
<1>9. Through'
  BY <1>1, <1>3, <1>4 DEF HonestInv, Through, Drawing
<1>10. Failures'
  <2>1. \A v \in Workers : Raising(v)' <=> Raising(v)
    BY <1>6
  <2>2. UNCHANGED <<failed, threw, errors, active, generation, future>> /\ Failures
    BY <1>1, <1>3 DEF HonestInv
  <2> QED
    BY <1>3, <2>1, <2>2 DEF Failures
<1> QED
  BY <1>3, <1>7, <1>8, <1>9, <1>10 DEF HonestInv

\* A worker compares its index with the workload.
LEMMA TestHonest ==
    ASSUME JoinInv, HonestInv, NEW w \in Workers, Test(w)
    PROVE  HonestInv'
<1>1. /\ UNCHANGED Steady /\ UNCHANGED <<index, seen, at, failed, errors, ran, threw>>
      /\ pc[w] = "test"
      /\ pc' = [pc EXCEPT ![w] = IF at[w] < Len(workload) /\ ~failed THEN "task" ELSE "post"]
  BY DEF Test, Steady, modeVars, poolVars, historyVars
<1>2. /\ Sized' /\ FreshInv' /\ (RaisesFailed' <=> RaisesFailed)
      /\ UNCHANGED <<multi, status, generation, active, participants, future, published>>
  BY <1>1, SteadyFacts DEF Steady
<1>3. Len(workload) = published /\ published \in Nat
  BY <1>1, BusyFacts, BoundAssumption DEF HonestInv, Sized, Busy, InBatch, JoinInv, TypeOK
<1>4. at[w] \in Nat
  BY <1>1 DEF HonestInv, Claims, Holds
<1>5. /\ pc'[w] = "task" \/ (pc'[w] = "post" /\ (failed \/ at[w] >= published))
      /\ \A v \in Workers \ {w} : pc'[v] = pc[v]
  BY <1>1, <1>3, <1>4 DEF JoinInv, TypeOK
<1>6. Claims'
  <2>1. \A i \in Nat : Drawn(i)' <=> Drawn(i)
    BY <1>1, <1>2, DrawnFrame
  <2>2. \A v \in Workers : Holds(v)' => Holds(v) /\ at'[v] = at[v]
    BY <1>1, <1>5 DEF Holds
  <2>3. \A v \in Workers : Holds(v) /\ ~Holds(v)' => failed' \/ at[v] >= published
    BY <1>1, <1>5 DEF Holds
  <2> QED
    BY <1>1, <1>2, <2>1, <2>2, <2>3, ClaimsFrame DEF HonestInv
<1>7. Draws'
  BY <1>1, <1>2 DEF HonestInv, Draws
<1>8. Through'
  BY <1>1, <1>2, <1>5 DEF HonestInv, Through, Drawing
<1>9. Failures'
  <2>1. \A v \in Workers : Raising(v)' <=> Raising(v)
    BY <1>1, <1>5 DEF Raising
  <2>2. UNCHANGED <<failed, threw, errors, active, generation, future>> /\ Failures
    BY <1>1, <1>2 DEF HonestInv
  <2> QED
    BY <1>2, <2>1, <2>2 DEF Failures
<1> QED
  BY <1>2, <1>6, <1>7, <1>8, <1>9 DEF HonestInv

\* A worker leaves the batch; the last one completes the future.
LEMMA LeaveHonest ==
    ASSUME JoinInv, HonestInv, NEW w \in Workers, Leave(w)
    PROVE  HonestInv'
<1>1. /\ UNCHANGED <<clearMode, errorHandling, multi, errors, index, failed, generation,
                     participants, dirty, seen, at, ran, threw, published>>
      /\ pc[w] = "leave" /\ pc' = [pc EXCEPT ![w] = "check"] /\ active' = active - 1
  BY DEF Leave, modeVars, historyVars
<1>2. active \in Nat /\ active > 0 /\ generation \in 1 .. MaxBatches
  BY <1>1, BusyFacts, SizeAssumption, BoundAssumption DEF JoinInv, TypeOK, Busy
<1>3. /\ \A v \in Workers : (Holds(v)' <=> Holds(v)) /\ (Raising(v)' <=> Raising(v))
      /\ \A v \in Workers : pc'[v] \notin Drawing => pc[v] \notin Drawing
  BY <1>1 DEF Holds, Raising, Drawing, JoinInv, TypeOK
<1>4. active # 1 => UNCHANGED <<workload, status, future>>
  BY DEF Leave, LastOut
<1>5. active = 1 =>
        /\ workload' = IF ClearsOnCompletion THEN <<>> ELSE workload
        /\ status' = "READY"
        /\ future'[generation] = IF failed /\ errors > 0 THEN "exception" ELSE "value"
  BY <1>2 DEF Leave, LastOut, JoinInv, TypeOK
<1>6. Claims'
  <2>1. \A i \in Nat : Drawn(i)' <=> Drawn(i)
    BY <1>1, DrawnFrame
  <2>2. \A v \in Workers : Holds(v)' => Holds(v) /\ at'[v] = at[v]
    BY <1>1, <1>3
  <2>3. \A v \in Workers : Holds(v) /\ ~Holds(v)' => failed' \/ at[v] >= published
    BY <1>3
  <2> QED
    BY <1>1, <2>1, <2>2, <2>3, ClaimsFrame DEF HonestInv
<1>7. Draws'
  <2>1. status' = "STOPPED" => status = "STOPPED"
    BY <1>4, <1>5
  <2> QED
    BY <1>1, <2>1 DEF HonestInv, Draws
<1>8. Through'
  BY <1>1, <1>3 DEF HonestInv, Through
<1>9. Sized'
  <2>1. active' > 0 => workload' = workload
    BY <1>1, <1>2, <1>4
  <2> QED
    BY <1>1, <1>2, <2>1 DEF HonestInv, Sized
<1>10. Failures'
  <2>1. (RaisesFailed' <=> RaisesFailed) /\ UNCHANGED <<failed, threw, errors, generation>>
    BY <1>1 DEF RaisesFailed
  <2>2. Failures /\ (\A v \in Workers : Raising(v)' <=> Raising(v))
    BY <1>3 DEF HonestInv
  <2>3. active' = 0 => active = 1
    BY <1>1, <1>2
  <2>4. failed => errors > 0
    BY <2>2 DEF Failures
  <2>5. active' = 0 => future'[generation] = IF failed THEN "exception" ELSE "value"
    BY <1>5, <2>3, <2>4
  <2> QED
    BY <2>1, <2>2, <2>5 DEF Failures
<1>11. FreshInv'
  <2>. SUFFICES ASSUME clearMode # "NEVER"
                PROVE  /\ active' > 0 => QueuedIn(generation - 1)'
                                         /\ (clearMode = "AT_NEXT_WORKLOAD" => dirty)
                       /\ active' = 0 /\ ~(clearMode = "AT_NEXT_WORKLOAD" /\ dirty)
                            => QueuedIn(generation)'
    BY <1>1 DEF FreshInv
  <2>1. /\ QueuedIn(generation - 1) /\ (clearMode = "AT_NEXT_WORKLOAD" => dirty)
        /\ clearMode \in {"UPPON_COMPLETION", "AT_NEXT_WORKLOAD"}
    BY <1>2, ModeAssumption DEF HonestInv, FreshInv, JoinInv, TypeOK
  <2>2. active' > 0 => QueuedIn(generation - 1)'
    BY <1>1, <1>2, <1>4, <2>1 DEF QueuedIn
  <2>3. active' = 0 /\ clearMode = "UPPON_COMPLETION" => QueuedIn(generation)'
    BY <1>1, <1>2, <1>5 DEF ClearsOnCompletion, QueuedIn
  <2> QED
    BY <2>1, <2>2, <2>3
<1> QED
  BY <1>6, <1>7, <1>8, <1>9, <1>10, <1>11 DEF HonestInv

-----------------------------------------------------------------------------
(* The theorems                                                             *)

\* Nothing is drawn and nothing has run at the start.
LEMMA HonestInit == Init => HonestInv
<1>. SUFFICES ASSUME Init PROVE HonestInv
  OBVIOUS
<1>. USE SizeAssumption, BoundAssumption DEF Init
<1>1. \A w \in Workers : pc[w] = "unborn" /\ at[w] = NoIndex /\ ~Holds(w) /\ ~Raising(w)
  BY DEF Holds, Raising
<1>2. \A i \in DOMAIN ran : ran[i] = 0
  OBVIOUS
<1>3. Claims
  BY <1>1, <1>2 DEF Claims
<1>4. Draws
  BY <1>1, <1>2 DEF Draws
<1>5. Through /\ Sized
  <2>1. \A w \in Workers : ~(w < participants)
    BY DEF Workers
  <2> QED
    BY <2>1 DEF Through, Sized
<1>6. Failures
  BY <1>1 DEF Failures
<1>7. FreshInv
  BY DEF FreshInv, QueuedIn
<1> QED
  BY <1>3, <1>4, <1>5, <1>6, <1>7 DEF HonestInv

\* Every step keeps the claims.
LEMMA HonestStep == JoinInv /\ HonestInv /\ [Next]_vars => HonestInv'
<1>. SUFFICES ASSUME JoinInv, HonestInv, [Next]_vars PROVE HonestInv'
  OBVIOUS
<1>1. CASE UNCHANGED vars
  <2>1. UNCHANGED <<clearMode, errorHandling, multi, status, workload, errors, index, failed,
          generation, active, participants, dirty, future, pc, seen, at, ran, threw, published>>
    BY <1>1 DEF vars, modeVars, poolVars, workerVars, historyVars
  <2>2. FreshInv'
    BY <2>1 DEF HonestInv, FreshInv, QueuedIn
  <2> QED
    BY <2>1, <2>2, QuietStep
<1>2. CASE \E w \in Workers : WorkerStep(w) \/ SpuriousWake(w)
  BY <1>2, WaitHonest, ExecuteHonest, RaiseHonest, FetchHonest, TestHonest, LeaveHonest
     DEF WorkerStep
<1>3. CASE \/ StartWorkers \/ ProcessQueued \/ ProcessGiven \/ QueueCallable
           \/ ClearWorkload \/ Destroy \/ DestructorStep
  BY <1>3, OwnerHonest
<1> QED
  BY <1>1, <1>2, <1>3 DEF Next, Terminated

\* The claims hold in every reachable state.
THEOREM HonestInvariant == Spec => [](JoinInv /\ HonestInv)
<1>1. Init => JoinInv /\ HonestInv
  BY JoinInit, HonestInit
<1>2. JoinInv /\ HonestInv /\ [Next]_vars => (JoinInv /\ HonestInv)'
  BY JoinStep, HonestStep
<1> QED
  BY <1>1, <1>2, PTL DEF Spec

\* RunWorker: neither the shared counter of a SingleQueue nor the strides of a
\* MultiQueue give a callable to two workers, or to one of them twice.
THEOREM RunsOnceTheorem == Spec => []RunsOnce
<1>1. JoinInv /\ HonestInv => RunsOnce
  <2>. SUFFICES ASSUME JoinInv, HonestInv, NEW i \in DOMAIN ran PROVE ran[i] <= 1
    BY DEF RunsOnce
  <2>1. ran[i] = 0 \/ ran[i] = 1
    BY DEF HonestInv, Claims
  <2> QED
    BY <2>1
<1> QED
  BY <1>1, HonestInvariant, PTL

\* A batch that nobody is inside, and that did not fail, has drawn every index.
LEMMA AllDrawn ==
    ASSUME JoinInv, HonestInv, generation > 0, active = 0, ~failed,
           NEW i \in 0 .. published - 1
    PROVE  Drawn(i)
<1>1. /\ published \in Nat /\ Size \in Nat /\ generation \in Nat /\ index \in Nat
      /\ at \in [Workers -> Nat \cup {NoIndex}] /\ multi \in BOOLEAN
  BY SizeAssumption, BoundAssumption DEF JoinInv, TypeOK
<1>2. ASSUME NEW w \in Workers, w < participants
      PROVE  seen[w] = generation /\ at[w] >= published /\ at[w] # NoIndex
  <2>1. seen[w] = generation /\ pc[w] \notin Drawing
    BY <1>2, IdleFacts DEF Busy, InBatch, Drawing
  <2>2. at[w] >= published
    BY <1>2, <2>1 DEF HonestInv, Through
  <2> QED
    BY <1>1, <2>1, <2>2 DEF NoIndex
<1>3. Size > 0
  BY DEF HonestInv, Sized
<1>4. CASE multi
  <2>1. PICK w \in Workers : w < (IF Size < published THEN Size ELSE published) /\ OnStride(w, i)
    BY <1>1, <1>3, StridesCover
  <2>2. w < participants
    BY <2>1 DEF HonestInv, Sized
  <2>3. seen[w] = generation /\ at[w] >= published
    BY <1>2, <2>2
  <2>4. at[w] >= i
    BY <1>1, <1>2, <2>2, <2>3
  <2> QED
    BY <1>4, <2>1, <2>3, <2>4 DEF Drawn
<1>5. CASE ~multi
  <2>1. 0 \in Workers /\ 0 < participants
    BY <1>1, <1>3 DEF Workers, HonestInv, Sized
  <2>2. seen[0] = generation /\ at[0] >= published /\ at[0] # NoIndex /\ at[0] < index
    BY <1>2, <1>5, <2>1 DEF HonestInv, Draws
  <2>3. at[0] \in Nat
    BY <1>1, <2>1, <2>2
  <2>4. i < index
    BY <1>1, <2>2, <2>3
  <2> QED
    BY <1>5, <2>4 DEF Drawn
<1> QED
  BY <1>1, <1>4, <1>5

\* ThreadPool::RunWorker and Execute: what the future of a batch reports is what
\* happened to its callables.  Idle is active = 0, so the verdict written by the
\* last worker out is still the one the claims determine.
THEOREM CompletionIsHonestTheorem == Spec => []CompletionIsHonest
<1>1. JoinInv /\ HonestInv => CompletionIsHonest
  <2>. SUFFICES ASSUME JoinInv, HonestInv PROVE CompletionIsHonest
    OBVIOUS
  <2>1. HoldsFreshWork
    BY DEF HoldsFreshWork, HonestInv, FreshInv, QueuedIn
  <2>2. ASSUME generation > 0, future[generation] \in {"value", "exception"}
        PROVE  /\ active = 0
               /\ future[generation] = IF failed THEN "exception" ELSE "value"
               /\ \A w \in Workers : ~Raising(w) /\ ~Holds(w)
    <3>1. generation \in 1 .. MaxBatches /\ active \in Nat
      BY <2>2, SizeAssumption, BoundAssumption DEF JoinInv, TypeOK
    <3>2. active = 0
      BY <2>2, <3>1 DEF JoinInv, FuturesMatch
    <3>3. \A w \in Workers : ~Raising(w) /\ ~Holds(w)
      BY <3>2, IdleFacts DEF Raising, Holds, Busy, InBatch
    <3> QED
      BY <2>2, <3>2, <3>3 DEF HonestInv, Failures
  <2>3. ASSUME generation > 0, future[generation] = "value"
        PROVE  /\ \A i \in 0 .. published - 1 : ran[i] = 1
               /\ errorHandling \in {"NONE", "TERMINATE"} => ~threw
    <3>1. active = 0 /\ ~failed /\ \A w \in Workers : ~Raising(w) /\ ~Holds(w)
      BY <2>2, <2>3
    <3>2. \A i \in 0 .. published - 1 : ran[i] = 1
      BY <2>3, <3>1, AllDrawn DEF HonestInv, Claims
    <3>3. errorHandling \in {"NONE", "TERMINATE"} => ~threw
      BY <3>1 DEF HonestInv, Failures, RaisesFailed
    <3> QED
      BY <3>2, <3>3
  <2>4. ASSUME generation > 0, future[generation] = "exception"
        PROVE  threw /\ errorHandling \in {"NONE", "TERMINATE"}
    <3>1. failed
      BY <2>2, <2>4
    <3> QED
      BY <3>1 DEF HonestInv, Failures, RaisesFailed
  <2> QED
    BY <2>1, <2>3, <2>4 DEF CompletionIsHonest
<1> QED
  BY <1>1, HonestInvariant, PTL
=============================================================================
