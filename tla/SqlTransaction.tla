---------------------------- MODULE SqlTransaction ----------------------------
(***************************************************************************)
(* One SqlTransaction::Execute (src/shared/Database/SqlOperations.cpp) on    *)
(* one MySQL connection (DatabaseMysql.cpp): the statements in order, the    *)
(* replay after a deadlock, and the reconnection inside a statement.         *)
(*                                                                         *)
(* The database server is external: a statement inside an open transaction   *)
(* is pending until COMMIT if its table is InnoDB and durable at once        *)
(* otherwise; a deadlock or a lost connection rolls the open transaction     *)
(* back.  Any command may be answered by an error or by the loss of the      *)
(* connection, before or after the server carried it out.                    *)
(***************************************************************************)
EXTENDS Naturals, Sequences, Functions

CONSTANTS
    MaxStatements,  \* bound: statements of a transaction
    MaxAttempts,    \* attempts of a replayable transaction: 3
    MaxLosses       \* bound: connections lost in one behaviour

ASSUME StatementsAssumption == MaxStatements \in Nat
ASSUME AttemptsAssumption == MaxAttempts \in Nat \ {0}
ASSUME LossesAssumption == MaxLosses \in Nat

\* A plain statement reconnects by itself, a prepared one does not.
Statements == [prepared : BOOLEAN, innodb : BOOLEAN]
Queues == UNION {[1 .. n -> Statements] : n \in 0 .. MaxStatements}

VARIABLES
    queue,          \* m_queue
    retry,          \* m_retryDeadlock
    transactional,  \* m_transactionalSchema: the schema is known to be InnoDB
    attempts,       \* the local variables of Execute
    attempt,
    at,             \* the statement of the inner loop
    deadlock,       \* LastStatementWasDeadlock of the failed statement
    pc,
    result,         \* what Execute returned
    conn,           \* mMysql: "live", "dead" (server gone) or "null"
    open,           \* server: is a transaction open on this connection
    pending,        \* server: statements of the open transaction
    durable,        \* server: statements that took effect for good
    losses,
    reissued,       \* history: a statement was repeated on a new connection
    ambiguous       \* history: the answer to COMMIT was lost

locals == <<attempts, attempt, at, deadlock, pc, result>>
server == <<open, pending, durable>>
history == <<losses, reissued, ambiguous>>
input == <<queue, retry, transactional>>
vars == <<input, locals, conn, server, history>>

\* The connection may have been left dead or without a handle by earlier work.
Init ==
    /\ queue \in Queues /\ retry \in BOOLEAN /\ transactional \in BOOLEAN
    /\ transactional => \A i \in DOMAIN queue : queue[i].innodb
    /\ attempts = 0 /\ attempt = 0 /\ at = 1 /\ deadlock = FALSE
    /\ pc = "start" /\ result = FALSE
    /\ conn \in {"live", "dead", "null"}
    /\ open = FALSE /\ pending = <<>> /\ durable = <<>>
    /\ losses = 0 /\ reissued = FALSE /\ ambiguous = FALSE

Return(r) == pc' = "done" /\ result' = r

\* Fault: every marked transaction is replayed, whatever its tables are.
AttemptsIfMarked == IF retry THEN MaxAttempts ELSE 1

Attempts == IF retry /\ transactional THEN MaxAttempts ELSE 1

Start ==
    /\ pc = "start"
    /\ attempts' = Attempts
    /\ IF queue = <<>> THEN Return(TRUE) ELSE pc' = "begin" /\ UNCHANGED result
    /\ UNCHANGED <<input, attempt, at, deadlock, conn, server, history>>

-----------------------------------------------------------------------------
(* The connection                                                           *)

Lose == losses < MaxLosses /\ losses' = losses + 1

ServerRollsBack == open' = FALSE /\ pending' = <<>>

\* _TransactionCmd fails: it neither reconnects nor tests mMysql.
CommandFails ==
    /\ UNCHANGED <<reissued, ambiguous, durable>>
    /\ \/ conn = "dead" /\ UNCHANGED <<conn, open, pending, losses>>
       \/ conn = "live" /\ Lose /\ conn' = "dead" /\ ServerRollsBack

\* mysql_query(nullptr) is undefined; the process is taken to end.
Undefined ==
    /\ pc \in {"begin", "rollback", "abandon"} /\ conn = "null"
    /\ pc' = "undefined"
    /\ UNCHANGED <<input, attempts, attempt, at, deadlock, result, conn, server, history>>

\* START TRANSACTION commits a transaction that is still open.
Begin ==
    /\ pc = "begin"
    /\ \/ /\ conn = "live"
          /\ open' = TRUE /\ durable' = durable \o pending /\ pending' = <<>>
          /\ pc' = "statement" /\ at' = 1 /\ deadlock' = FALSE
          /\ UNCHANGED <<result, conn, history>>
       \/ CommandFails /\ Return(FALSE) /\ UNCHANGED <<at, deadlock>>
    /\ UNCHANGED <<input, attempts, attempt>>

-----------------------------------------------------------------------------
(* The statements                                                           *)

Transactional(i) == open /\ queue[i].innodb

Advance ==
    /\ at' = at + 1
    /\ pc' = IF at = Len(queue) THEN "commit" ELSE "statement"
    /\ UNCHANGED deadlock

\* Fault: the loop goes on with the statement after the failed one.
SkipFailed(dead) == Advance

Fail(dead) == deadlock' = dead /\ pc' = "rollback" /\ UNCHANGED at

StatementSucceeds ==
    /\ pc = "statement"
    /\ IF Transactional(at)
       THEN pending' = Append(pending, at) /\ UNCHANGED durable
       ELSE durable' = Append(durable, at) /\ UNCHANGED pending
    /\ Advance
    /\ UNCHANGED <<input, attempts, attempt, result, conn, open, history>>

StatementFails ==
    /\ pc = "statement"
    /\ Fail(FALSE)
    /\ UNCHANGED <<input, attempts, attempt, result, conn, server, history>>

StatementDeadlocks ==
    /\ pc = "statement" /\ queue[at].innodb
    /\ ServerRollsBack /\ Fail(TRUE)
    /\ UNCHANGED <<input, attempts, attempt, result, conn, durable, history>>

\* The connection is lost before or after the statement took effect.  A plain
\* statement reconnects and is executed again, outside any transaction.
StatementLosesConnection ==
    /\ pc = "statement" /\ Lose
    /\ \/ UNCHANGED durable
       \/ ~Transactional(at) /\ durable' = Append(durable, at)
    /\ ServerRollsBack
    /\ \/ queue[at].prepared /\ conn' = "dead" /\ Fail(FALSE) /\ UNCHANGED reissued
       \/ /\ ~queue[at].prepared
          /\ \/ /\ conn' = "live" /\ reissued' = TRUE
                /\ UNCHANGED <<pc, at, deadlock>>
             \/ conn' = "null" /\ Fail(FALSE) /\ UNCHANGED reissued
    /\ UNCHANGED <<input, attempts, attempt, result, ambiguous>>

-----------------------------------------------------------------------------
(* The end of an attempt                                                     *)

Commit ==
    /\ pc = "commit"
    /\ open' = FALSE /\ pending' = <<>> /\ durable' = durable \o pending
    /\ Return(TRUE)
    /\ UNCHANGED <<input, attempts, attempt, at, deadlock, conn, history>>

CommitIsRefused ==
    /\ pc = "commit"
    /\ pc' = "abandon"
    /\ UNCHANGED <<input, attempts, attempt, at, deadlock, result, conn, server, history>>

CommitLosesConnection ==
    /\ pc = "commit" /\ Lose
    /\ \/ UNCHANGED durable
       \/ durable' = durable \o pending
    /\ ServerRollsBack
    /\ conn' = "dead" /\ ambiguous' = TRUE /\ pc' = "abandon"
    /\ UNCHANGED <<input, attempts, attempt, at, deadlock, result, reissued>>

\* After a failed COMMIT: ROLLBACK, whatever it answers, and return false.
Abandon ==
    /\ pc = "abandon"
    /\ \/ conn = "live" /\ ServerRollsBack /\ UNCHANGED <<conn, durable, history>>
       \/ CommandFails
    /\ Return(FALSE)
    /\ UNCHANGED <<input, attempts, attempt, at, deadlock>>

Replays == deadlock /\ attempt + 1 < attempts

\* Fault: the attempt is not counted.
UncountedReplay == pc' = "begin" /\ UNCHANGED <<attempt, result>>

Replay == pc' = "begin" /\ attempt' = attempt + 1 /\ UNCHANGED result

\* Fault: only a deadlock is rolled back.
RollbackDeadlockOnly ==
    /\ pc = "rollback" /\ conn # "null"
    /\ IF Replays THEN Replay ELSE Return(FALSE) /\ UNCHANGED attempt
    /\ UNCHANGED <<input, attempts, at, deadlock, conn, server, history>>

Rollback ==
    /\ pc = "rollback"
    /\ \/ /\ conn = "live" /\ ServerRollsBack
          /\ IF Replays THEN Replay ELSE Return(FALSE) /\ UNCHANGED attempt
          /\ UNCHANGED <<conn, durable, history>>
       \/ CommandFails /\ Return(FALSE) /\ UNCHANGED attempt
    /\ UNCHANGED <<input, attempts, at, deadlock>>

Terminated == pc \in {"done", "undefined"} /\ UNCHANGED vars

Step ==
    \/ Start \/ Begin \/ StatementSucceeds \/ StatementFails \/ StatementDeadlocks
    \/ StatementLosesConnection \/ Commit \/ CommitIsRefused \/ CommitLosesConnection
    \/ Abandon \/ Rollback \/ Undefined

Next == Step \/ Terminated

\* The thread that executes the transaction is scheduled.
Spec == Init /\ [][Next]_vars /\ WF_vars(Step)

-----------------------------------------------------------------------------
Whole == [i \in DOMAIN queue |-> i]
AllInnoDB == \A i \in DOMAIN queue : queue[i].innodb

TypeOK ==
    /\ queue \in Queues /\ retry \in BOOLEAN /\ transactional \in BOOLEAN
    /\ attempts \in 0 .. MaxAttempts /\ attempt \in 0 .. MaxAttempts - 1
    /\ at \in 1 .. MaxStatements + 1 /\ deadlock \in BOOLEAN
    /\ pc \in {"start", "begin", "statement", "commit", "rollback", "abandon",
               "done", "undefined"}
    /\ result \in BOOLEAN
    /\ conn \in {"live", "dead", "null"} /\ open \in BOOLEAN
    /\ pending \in Seq(DOMAIN queue) /\ durable \in Seq(DOMAIN queue)
    /\ losses \in 0 .. MaxLosses /\ reissued \in BOOLEAN /\ ambiguous \in BOOLEAN

\* Execute tells the truth about a transaction on InnoDB tables: true means
\* that all of it is durable, in order; false that none of it is, unless the
\* answer to COMMIT was lost.  Excluded are the transactions in which a plain
\* statement was repeated on a new connection: its predecessors are lost.
AllOrNothing ==
    pc = "done" /\ AllInnoDB /\ ~reissued =>
        \/ durable = Whole /\ (result \/ ambiguous)
        \/ durable = <<>> /\ ~result

\* The replay never makes a statement durable twice, on whatever tables: this
\* is what m_transactionalSchema is tested for ("mixed schemas ... are not
\* retried", docs/CORE_SYSTEMS_GUIDE.md).
AppliedAtMostOnce == ~reissued => IsInjective(durable)

\* Execute leaves no transaction open on a connection that is still usable:
\* the next operation on it would run inside this one.
ConnectionLeftClean == pc = "done" /\ conn = "live" => ~open /\ pending = <<>>

\* Execute ends, however often its statements deadlock.
Finishes == <>(pc \in {"done", "undefined"})
=============================================================================
