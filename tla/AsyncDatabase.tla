---------------------------- MODULE AsyncDatabase ----------------------------
(***************************************************************************)
(* The asynchronous side of src/shared/Database: the routing of operations  *)
(* to the lanes of the delay threads (Database.cpp, DatabaseImpl.h), the     *)
(* delay threads (SqlDelayThread.cpp), the hand-over of results to the world *)
(* thread (SqlOperations.cpp) and the shutdown (Database::StopServer).       *)
(*                                                                         *)
(* A LockedQueue operation is one action, and so is the execution of an      *)
(* operation on its connection.  An operation is its position in `accepted`. *)
(* How the result queue chooses between its two lanes is modelled in         *)
(* SqlResultQueue, how a transaction runs on a connection in SqlTransaction. *)
(***************************************************************************)
EXTENDS Naturals, Sequences, SequencesExt

CONSTANTS
    NumWorkers,     \* nWorkers of Database::Initialize
    Serials,        \* the serial ids operations carry; 0 is "no serial id"
    PriorityBatch,  \* the caps of one ProcessRequests: 32, 64 and 64
    NormalBatch,
    SerialBatch,
    MaxOps          \* bound: operations accepted in one behaviour

ASSUME WorkersAssumption == NumWorkers \in Nat \ {0}
ASSUME SerialsAssumption == Serials \subseteq Nat
ASSUME BatchAssumption ==
    /\ PriorityBatch \in Nat \ {0} /\ NormalBatch \in Nat \ {0}
    /\ SerialBatch \in Nat \ {0}
ASSUME BoundAssumption == MaxOps \in Nat

Workers == 0 .. NumWorkers - 1
Shared == <<"shared", 0>>
Lanes == {Shared} \cup ({"serial", "priority", "prioSerial"} \X Workers)

\* Statements and transactions write; queries and query holders only read.
Operations ==
    [kind : {"write"}, serial : Serials, high : {FALSE}]
    \cup [kind : {"read"}, serial : Serials, high : BOOLEAN]

VARIABLES
    accepted,       \* history: the operations in the order of acceptance
    executed,       \* history: operations in the order of execution
    applied,        \* history: operations in the order of their callbacks
    queue,          \* the contents of every lane
    workers,        \* m_numAsyncWorkers
    running,        \* m_running (all workers are stopped together)
    thread,         \* where SqlDelayThread::run is
    phase,          \* the loop of ProcessRequests a body is in, "out" outside
    quota,          \* what is left of the cap of that loop
    current,        \* the operation a body holds, 0 if none
    processed,      \* has this ProcessRequests processed anything
    results,        \* the result queue: results[TRUE] is the priority lane
    server,         \* where StopServer is
    cursor,         \* the body the main thread drains
    drained,        \* has this drain pass processed anything
    calling,        \* does CancelAll run a callback
    haltMark        \* history: operations accepted when the workers were gone

bodyVars == <<phase, quota, current, processed>>
stopVars == <<server, cursor, drained, calling, haltMark, workers, running>>
vars == <<accepted, executed, applied, queue, thread, bodyVars, results, stopVars>>

Init ==
    /\ accepted = <<>> /\ executed = <<>> /\ applied = <<>>
    /\ queue = [l \in Lanes |-> <<>>]
    /\ workers = NumWorkers /\ running = TRUE
    /\ thread = [w \in Workers |-> "running"]
    /\ phase = [w \in Workers |-> "out"] /\ quota = [w \in Workers |-> 0]
    /\ current = [w \in Workers |-> 0] /\ processed = [w \in Workers |-> FALSE]
    /\ results = [h \in BOOLEAN |-> <<>>]
    /\ server = "up" /\ cursor = 0 /\ drained = FALSE /\ calling = FALSE
    /\ haltMark = 0

-----------------------------------------------------------------------------
(* Routing                                                                  *)

DelayLane(o) ==
    IF workers > 0 /\ o.kind = "write" THEN <<"serial", 0>> ELSE Shared

\* Fault: reads of a keyed chain leave the lane of its writes.
KeyedReadsShared(o) ==
    IF o.serial = 0 \/ workers = 0 \/ o.kind = "read" THEN DelayLane(o)
    ELSE <<"serial", o.serial % workers>>

SerialLane(o) ==
    IF o.serial = 0 \/ workers = 0 THEN DelayLane(o)
    ELSE <<"serial", o.serial % workers>>

PriorityLane(o) == IF workers > 0 THEN <<"priority", 0>> ELSE DelayLane(o)

PrioritySerialLane(o) ==
    IF o.serial = 0 \/ workers = 0 THEN PriorityLane(o)
    ELSE <<"prioSerial", o.serial % workers>>

Route(o) == IF o.high THEN PrioritySerialLane(o) ELSE SerialLane(o)

\* A call is refused once the object it needs is gone: m_pResultQueue for a
\* query, m_pAsyncConn for a statement or a transaction.
\* A call while m_threadsBodies is being cleared indexes a destroyed element:
\* that is undefined and the model lets nobody call then.
Accepting(o) ==
    /\ server \notin {"destroying", "down"}
    /\ server = "closing" => o.kind = "write"

Enqueue ==
    /\ Len(accepted) < MaxOps
    /\ \E o \in Operations :
         /\ Accepting(o)
         /\ accepted' = Append(accepted, o)
         /\ queue' = [queue EXCEPT ![Route(o)] = Append(@, Len(accepted) + 1)]

\* A call from any other thread: the world thread, from its result callbacks
\* too, or one of the threads that World::InternalShutdown joins only after
\* StopServer (character database worker, dumps, shop).  The server is running:
\* before AllowAsyncTransactions, at the end of the start-up (Master.cpp:578), a
\* statement or transaction is executed by its caller and reaches no queue.
Call ==
    /\ Enqueue
    /\ UNCHANGED <<executed, applied, thread, bodyVars, results, stopVars>>

-----------------------------------------------------------------------------
(* ProcessRequests, run by a delay thread or by the thread in StopServer     *)

\* Fault: the count of the previous ProcessRequests is kept.
EnterKeepingCount(w) ==
    /\ phase' = [phase EXCEPT ![w] = "priority"]
    /\ quota' = [quota EXCEPT ![w] = PriorityBatch]
    /\ UNCHANGED processed

Enter(w) ==
    /\ phase' = [phase EXCEPT ![w] = "priority"]
    /\ quota' = [quota EXCEPT ![w] = PriorityBatch]
    /\ processed' = [processed EXCEPT ![w] = FALSE]

\* Fault: the unkeyed priority lane is forgotten.
OnlyKeyedPriority(w) == << <<"prioSerial", w>> >>

PriorityTries(w) == << <<"prioSerial", w>>, <<"priority", w>> >>

\* The lanes a loop takes from, in the order in which it tries them.
Tries(w) ==
    CASE phase[w] = "priority" -> PriorityTries(w)
      [] phase[w] = "normal" -> << Shared >>
      [] OTHER -> << <<"serial", w>> >>

\* The loop finds nothing in its lanes.
Dry(w) == \A n \in DOMAIN Tries(w) : queue[Tries(w)[n]] = <<>>

WithinCap(w) == quota[w] > 0

Take(w) ==
    /\ phase[w] # "out" /\ current[w] = 0 /\ WithinCap(w)
    /\ \E n \in DOMAIN Tries(w) :
         LET l == Tries(w)[n] IN
         /\ queue[l] # <<>> /\ \A m \in 1 .. n - 1 : queue[Tries(w)[m]] = <<>>
         /\ current' = [current EXCEPT ![w] = Head(queue[l])]
         /\ queue' = [queue EXCEPT ![l] = Tail(@)]
    /\ quota' = [quota EXCEPT ![w] = @ - 1]
    /\ processed' = [processed EXCEPT ![w] = TRUE]
    /\ UNCHANGED <<accepted, executed, applied, thread, phase, results, stopVars>>

\* SqlOperation::Execute; a query hands its callback to the result queue.
\* The operation's own callback may call the database again (Callback).
Execute(w) ==
    /\ current[w] # 0 /\ current[w] \notin Range(executed)
    /\ executed' = Append(executed, current[w])
    /\ LET o == accepted[current[w]] IN
         IF o.kind = "read"
         THEN /\ results' = [results EXCEPT ![o.high] = Append(@, current[w])]
              /\ current' = [current EXCEPT ![w] = 0]
         ELSE UNCHANGED <<results, current>>
    /\ UNCHANGED <<accepted, applied, queue, thread, phase, quota, processed, stopVars>>

\* The completion callback of a write runs on the thread that executed it and
\* may enqueue a further operation.
Callback(w) ==
    /\ current[w] # 0 /\ current[w] \in Range(executed)
    /\ current' = [current EXCEPT ![w] = 0]
    /\ Enqueue \/ UNCHANGED <<accepted, queue>>
    /\ UNCHANGED <<executed, applied, thread, phase, quota, processed, results, stopVars>>

\* A loop ends when its cap is used up or its lanes are empty.
NextPhase(w) ==
    /\ phase[w] # "out" /\ current[w] = 0
    /\ ~WithinCap(w) \/ Dry(w)
    /\ phase' = [phase EXCEPT ![w] = CASE @ = "priority" -> "normal"
                                       [] @ = "normal" -> "serial"
                                       [] OTHER -> "out"]
    /\ quota' = [quota EXCEPT ![w] = CASE phase[w] = "priority" -> NormalBatch
                                       [] phase[w] = "normal" -> SerialBatch
                                       [] OTHER -> 0]
    /\ UNCHANGED <<accepted, executed, applied, queue, thread, current, processed,
                   results, stopVars>>

BodyStep(w) == Take(w) \/ Execute(w) \/ Callback(w) \/ NextPhase(w)

-----------------------------------------------------------------------------
(* SqlDelayThread::run                                                      *)

DrainedDry(w) == thread[w] = "draining" /\ ~processed[w]

\* At the top of the loop m_running decides between one more ProcessRequests
\* of the polling loop and the draining loop, which runs until one is empty.
Poll(w) ==
    /\ phase[w] = "out" /\ thread[w] \in {"running", "draining"}
    /\ IF DrainedDry(w)
       THEN /\ thread' = [thread EXCEPT ![w] = "exited"]
            /\ UNCHANGED bodyVars
       ELSE /\ thread' = [thread EXCEPT ![w] =
                            IF running THEN "running" ELSE "draining"]
            /\ Enter(w) /\ UNCHANGED current
    /\ UNCHANGED <<accepted, executed, applied, queue, results, stopVars>>

-----------------------------------------------------------------------------
(* The world thread applies results while the server is up                   *)

ApplyResult(h) ==
    /\ results[h] # <<>>
    /\ applied' = Append(applied, Head(results[h]))
    /\ results' = [results EXCEPT ![h] = Tail(@)]
    /\ UNCHANGED <<accepted, queue, executed, thread, bodyVars, server, cursor,
                   drained, haltMark, workers, running>>

Update == server = "up" /\ (\E h \in BOOLEAN : ApplyResult(h)) /\ UNCHANGED calling

-----------------------------------------------------------------------------
(* StopServer: HaltDelayThread, CancelAll, then the connections              *)

StopServer ==
    /\ server = "up"
    /\ server' = "joining" /\ running' = FALSE
    /\ UNCHANGED <<accepted, executed, applied, queue, thread, bodyVars, results,
                   cursor, drained, calling, haltMark, workers>>

JoinThreads ==
    /\ server = "joining" /\ \A w \in Workers : thread[w] = "exited"
    /\ server' = "draining" /\ cursor' = 0 /\ drained' = FALSE
    /\ Enter(0) /\ UNCHANGED current
    /\ UNCHANGED <<accepted, executed, applied, queue, thread, results, calling,
                   haltMark, workers, running>>

\* One DrainRequests has returned: go on with the next body, with the next
\* pass, or with clearing m_threadsBodies once a whole pass has found nothing.
DrainNext ==
    /\ server = "draining" /\ phase[cursor] = "out"
    /\ LET found == drained \/ processed[cursor]
           last == cursor = NumWorkers - 1 IN
         /\ server' = IF last /\ ~found THEN "destroying" ELSE "draining"
         /\ cursor' = IF last THEN 0 ELSE cursor + 1
         /\ drained' = (found /\ ~last)
         /\ Enter(cursor')
    /\ UNCHANGED <<accepted, executed, applied, queue, thread, current, results,
                   calling, haltMark, workers, running>>

\* Fault: the destructor does not look at the lanes again.
DestroyAtOnce == TRUE

DestroyedDry == ~processed[cursor]

\* ~SqlDelayThread of the body at the cursor: ProcessRequests until it finds
\* nothing; after the last body m_numAsyncWorkers is zeroed.
DestroyNext ==
    /\ server = "destroying" /\ phase[cursor] = "out"
    /\ IF ~DestroyedDry
       THEN Enter(cursor) /\ UNCHANGED <<server, cursor, workers, haltMark>>
       ELSE IF cursor < NumWorkers - 1
       THEN cursor' = cursor + 1 /\ Enter(cursor') /\ UNCHANGED <<server, workers, haltMark>>
       ELSE /\ server' = "cancelling" /\ workers' = 0 /\ haltMark' = Len(accepted)
            /\ UNCHANGED <<cursor, phase, quota, processed>>
    /\ UNCHANGED <<accepted, executed, applied, queue, thread, current, results,
                   calling, drained, running>>

\* CancelAll runs the remaining callbacks, the priority ones first.
CancelOne ==
    /\ server = "cancelling"
    /\ \/ ApplyResult(TRUE)
       \/ results[TRUE] = <<>> /\ ApplyResult(FALSE)
    /\ calling' = TRUE

\* The callback it runs may enqueue; it is over when CancelAll goes on.
CancelledCallbackCalls ==
    /\ server = "cancelling" /\ calling
    /\ Enqueue
    /\ UNCHANGED <<executed, applied, thread, bodyVars, results, stopVars>>

\* Fault: the result queue is deleted with its callbacks.
DeleteAtOnce == server = "cancelling"

CancelledAll == server = "cancelling" /\ \A h \in BOOLEAN : results[h] = <<>>

DeleteResultQueue ==
    /\ CancelledAll
    /\ server' = "closing" /\ calling' = FALSE
    /\ UNCHANGED <<accepted, executed, applied, queue, thread, bodyVars, results,
                   cursor, drained, haltMark, workers, running>>

CloseConnections ==
    /\ server = "closing"
    /\ server' = "down"
    /\ UNCHANGED <<accepted, executed, applied, queue, thread, bodyVars, results,
                   cursor, drained, calling, haltMark, workers, running>>

StopStep ==
    JoinThreads \/ DrainNext \/ DestroyNext \/ CancelOne \/ DeleteResultQueue \/ CloseConnections

Terminated == server = "down" /\ UNCHANGED vars

Next ==
    \/ Call \/ CancelledCallbackCalls \/ Update \/ StopServer \/ StopStep
    \/ \E w \in Workers : BodyStep(w) \/ Poll(w)
    \/ Terminated

\* Delay threads and StopServer's thread are scheduled and the world thread
\* polls the result queue every tick.  Nobody has to call or to stop.
Spec == /\ Init /\ [][Next]_vars
        /\ \A w \in Workers : WF_vars(BodyStep(w)) /\ WF_vars(Poll(w))
        /\ WF_vars(Update) /\ WF_vars(StopStep)

-----------------------------------------------------------------------------
Ids == 1 .. MaxOps

TypeOK ==
    /\ accepted \in Seq(Operations) /\ Len(accepted) <= MaxOps
    /\ executed \in Seq(Ids) /\ applied \in Seq(Ids)
    /\ queue \in [Lanes -> Seq(Ids)]
    /\ workers \in {0, NumWorkers} /\ running \in BOOLEAN
    /\ thread \in [Workers -> {"running", "draining", "exited"}]
    /\ phase \in [Workers -> {"out", "priority", "normal", "serial"}]
    /\ quota \in [Workers -> Nat]
    /\ current \in [Workers -> Ids \cup {0}]
    /\ processed \in [Workers -> BOOLEAN]
    /\ results \in [BOOLEAN -> Seq(Ids)]
    /\ server \in {"up", "joining", "draining", "destroying", "cancelling",
                   "closing", "down"}
    /\ cursor \in Workers /\ drained \in BOOLEAN /\ calling \in BOOLEAN
    /\ haltMark \in 0 .. MaxOps

\* The order the comment in AddToDelayQueue promises: unkeyed writes are one
\* class, every serial id is one, and high-priority work is in none ("Priority
\* queues can reorder work across priorities", docs/CORE_SYSTEMS_GUIDE.md).
OrderClass(o) ==
    IF o.high \/ (o.serial = 0 /\ o.kind = "read") THEN <<>> ELSE <<o.serial>>

IsRead(o) == o.kind = "read"

Promise == INSTANCE DelayedWork WITH Reads <- IsRead, Class <- OrderClass

\* Database, its delay threads and its result queue do what DelayedWork says:
\* nothing runs twice, the ordered classes keep their order, every callback is
\* applied at most once and after its query.
KeepsPromise == Promise!Spec

\* "Preserve every accepted operation, not just one capped batch, on shutdown"
\* (SqlDelayThread::run): what was accepted before HaltDelayThread zeroed
\* m_numAsyncWorkers has been executed, the work of final callbacks and of
\* threads that went on calling included.
HaltPreservesAccepted ==
    server \in {"cancelling", "closing", "down"} =>
        1 .. haltMark \subseteq Range(executed)

\* Every query that was executed has had its callback by the end of StopServer.
NoCallbackLost ==
    server = "down" =>
        \A i \in Range(executed) : IsRead(accepted[i]) => i \in Range(applied)

\* While there are workers, an accepted operation is eventually executed.
EventuallyExecuted ==
    \A i \in Ids : (i <= Len(accepted) /\ workers > 0) ~> i \in Range(executed)

\* StopServer returns.
StopServerReturns == server = "joining" ~> server = "down"

-----------------------------------------------------------------------------
(* Statements of the repository that the code does not keep                  *)

\* "Keep Turtle's explicit serial-ID affinity for keyed read-after-write
\* chains" (Database::AddToDelayQueue) and "Must be serialized in a transaction
\* with the player GUID" (Player::SaveInventoryAndGoldToDB): a read with a
\* serial id sees every write with that serial id accepted before it.
KeyedReadAfterWrite ==
    \A i \in Range(executed) :
        accepted[i].kind = "read" /\ accepted[i].serial # 0 =>
            \A j \in 1 .. i - 1 :
                accepted[j].kind = "write" /\ accepted[j].serial = accepted[i].serial
                    => j \in Range(executed)
=============================================================================
