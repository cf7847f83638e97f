------------------------- MODULE SqlTransactionProofs -------------------------
(***************************************************************************)
(* For transactions of any length, any number of attempts and any number of  *)
(* lost connections: what SqlTransaction::Execute returns is true of the     *)
(* database (AllOrNothing), the connection is left without an open           *)
(* transaction (ConnectionLeftClean), and no statement is applied twice      *)
(* (AppliedAtMostOnce).                                                      *)
(*                                                                         *)
(* The invariant says how far the current attempt has come: the pending      *)
(* statements are exactly those before the one the loop is at, and nothing   *)
(* is durable before COMMIT.                                                 *)
(***************************************************************************)
EXTENDS SqlTransaction, SequenceTheorems, TLAPS

UpTo(k) == [i \in 1 .. k |-> i]

\* The loop is where the statements say it is.
LoopInv ==
    /\ queue \in Seq(Statements)
    /\ at \in Nat
    /\ pc \notin {"start", "done"} => Len(queue) > 0
    /\ pc = "statement" => at \in 1 .. Len(queue)
    /\ pc # "done" => result = FALSE

\* A transaction is open on the server only inside an attempt.
OpenInv ==
    /\ ~open => pending = <<>>
    /\ pc \in {"start", "begin"} => ~open
    /\ pc = "done" /\ conn = "live" => ~open

Progress ==
    /\ pc \in {"start", "begin", "statement", "commit", "rollback"} => durable = <<>>
    /\ pc = "statement" => open /\ pending = UpTo(at - 1)
    /\ pc = "commit" => open /\ pending = UpTo(Len(queue))
    /\ pc = "abandon" => durable = <<>> \/ (ambiguous /\ durable = UpTo(Len(queue)))
    /\ pc = "done" => \/ durable = UpTo(Len(queue)) /\ (result \/ ambiguous)
                      \/ durable = <<>> /\ ~result

ProgressInv == AllInnoDB /\ ~reissued => Progress

TxInv == LoopInv /\ OpenInv /\ ProgressInv

\* The prefix of the next length is the prefix with one element more.
LEMMA AppendUpTo ==
    ASSUME NEW k \in Nat PROVE Append(UpTo(k), k + 1) = UpTo(k + 1)
<1>1. UpTo(k) \in Seq(Nat) /\ Len(UpTo(k)) = k
  BY DEF UpTo
<1> QED
  BY <1>1 DEF UpTo

\* No statements make the empty sequence.
LEMMA UpToZero == UpTo(0) = <<>>
  BY DEF UpTo

\* Concatenation to nothing.
LEMMA EmptyConcat == ASSUME NEW k \in Nat PROVE <<>> \o UpTo(k) = UpTo(k)
<1>1. UpTo(k) \in Seq(Nat)
  BY DEF UpTo
<1> QED
  BY <1>1, ConcatEmptySeq

\* A transaction that has not started satisfies the invariant.
LEMMA TxInit == Init => TxInv
<1> SUFFICES ASSUME Init PROVE TxInv
  OBVIOUS
<1>1. queue \in Seq(Statements)
  BY DEF Init, Queues
<1> QED
  BY <1>1 DEF Init, TxInv, LoopInv, OpenInv, ProgressInv, Progress

\* A failed transaction command leaves no open transaction on a live connection.
LEMMA CommandFailsClean ==
    ASSUME TxInv, CommandFails
    PROVE  /\ conn' = "dead" /\ durable' = durable
           /\ reissued' = reissued /\ ambiguous' = ambiguous
           /\ ~open' => pending' = <<>>
  BY DEF CommandFails, ServerRollsBack, TxInv, OpenInv

\* Every step of Execute preserves the invariant.
LEMMA TxNext == TxInv /\ [Next]_vars => TxInv'
<1> SUFFICES ASSUME TxInv, [Next]_vars PROVE TxInv'
  OBVIOUS
<1> USE DEF TxInv, LoopInv, OpenInv, input, server, history, Return
<1>a. ASSUME UNCHANGED queue PROVE AllInnoDB' = AllInnoDB
  BY <1>a DEF AllInnoDB
<1>b. Len(queue) \in Nat
  OBVIOUS
<1>1. CASE Start
  <2>1. LoopInv' /\ OpenInv'
    BY <1>1 DEF Start
  <2>2. ProgressInv'
    <3>1. CASE queue = <<>>
      <4>1. Len(queue) = 0
        BY <3>1
      <4> QED
        BY <1>1, <1>a, <3>1, <4>1, UpToZero DEF Start, ProgressInv, Progress
    <3>2. CASE queue # <<>>
      BY <1>1, <1>a, <3>2 DEF Start, ProgressInv, Progress
    <3> QED
      BY <3>1, <3>2
  <2> QED
    BY <2>1, <2>2
<1>2. CASE Begin
  <2>1. pc = "begin" /\ UNCHANGED queue /\ pending = <<>> /\ ~open
    BY <1>2 DEF Begin
  <2>2. CASE pc' = "statement"
    <3>1. /\ conn' = "live" /\ open' = TRUE /\ durable' = durable \o pending
          /\ pending' = <<>> /\ at' = 1 /\ UNCHANGED <<result, reissued>>
      BY <1>2, <2>2 DEF Begin
    <3>2. LoopInv' /\ OpenInv'
      BY <1>b, <2>1, <2>2, <3>1
    <3>3. ASSUME AllInnoDB, ~reissued PROVE durable' = <<>>
      BY <2>1, <3>1, <3>3 DEF ProgressInv, Progress
    <3>4. pending' = UpTo(at' - 1)
      BY <3>1, UpToZero
    <3> QED
      BY <1>a, <2>1, <2>2, <3>1, <3>2, <3>3, <3>4 DEF ProgressInv, Progress
  <2>3. CASE pc' # "statement"
    <3>1. CommandFails /\ pc' = "done" /\ result' = FALSE /\ UNCHANGED at
      BY <1>2, <2>3 DEF Begin
    <3>2. /\ conn' = "dead" /\ durable' = durable /\ reissued' = reissued
          /\ ~open' => pending' = <<>>
      BY <3>1, CommandFailsClean
    <3>3. LoopInv' /\ OpenInv'
      BY <2>1, <3>1, <3>2
    <3> QED
      BY <1>a, <2>1, <3>1, <3>2, <3>3 DEF ProgressInv, Progress
  <2> QED
    BY <2>2, <2>3
<1>3. CASE StatementSucceeds
  <2>1. /\ pc = "statement" /\ UNCHANGED <<queue, open, result, conn, reissued>>
        /\ at \in 1 .. Len(queue) /\ at' = at + 1
        /\ pc' = IF at = Len(queue) THEN "commit" ELSE "statement"
    BY <1>3 DEF StatementSucceeds, Advance
  <2>2. LoopInv'
    BY <1>b, <2>1
  <2>3. OpenInv'
    BY <1>3, <2>1 DEF StatementSucceeds, Transactional
  <2>4. ASSUME AllInnoDB, ~reissued PROVE Progress'
    <3>1. queue[at].innodb
      BY <2>1, <2>4 DEF AllInnoDB
    <3>2. open /\ pending = UpTo(at - 1) /\ durable = <<>>
      BY <2>1, <2>4 DEF ProgressInv, Progress
    <3>3. pending' = Append(pending, at) /\ durable' = <<>>
      BY <1>3, <3>1, <3>2 DEF StatementSucceeds, Transactional
    <3>4. pending' = UpTo(at)
      <4>1. at - 1 \in Nat /\ (at - 1) + 1 = at
        BY <1>b, <2>1
      <4>2. Append(UpTo(at - 1), (at - 1) + 1) = UpTo((at - 1) + 1)
        BY <4>1, AppendUpTo
      <4> QED
        BY <3>2, <3>3, <4>1, <4>2
    <3> QED
      BY <2>1, <3>2, <3>3, <3>4 DEF Progress
  <2> QED
    BY <1>a, <2>1, <2>2, <2>3, <2>4 DEF ProgressInv
<1>4. CASE StatementFails
  BY <1>4, <1>a DEF StatementFails, Fail, ProgressInv, Progress
<1>5. CASE StatementDeadlocks
  BY <1>5, <1>a DEF StatementDeadlocks, Fail, ServerRollsBack, ProgressInv, Progress
<1>6. CASE StatementLosesConnection
  <2>1. /\ pc = "statement" /\ UNCHANGED <<queue, result, at>>
        /\ pending' = <<>> /\ open' = FALSE
        /\ pc' = "rollback" \/ (pc' = "statement" /\ reissued' = TRUE)
        /\ pc' = "rollback" => reissued' = reissued
    BY <1>6 DEF StatementLosesConnection, ServerRollsBack, Fail
  <2>2. LoopInv' /\ OpenInv'
    BY <1>b, <2>1
  <2>3. ASSUME AllInnoDB, ~reissued PROVE durable' = <<>>
    <3>1. Transactional(at) /\ durable = <<>>
      BY <1>b, <2>1, <2>3 DEF Transactional, AllInnoDB, ProgressInv, Progress
    <3> QED
      BY <1>6, <3>1 DEF StatementLosesConnection
  <2> QED
    BY <1>a, <2>1, <2>2, <2>3 DEF ProgressInv, Progress
<1>7. CASE Commit
  <2>1. /\ pc = "commit" /\ UNCHANGED <<queue, at, conn, reissued>>
        /\ open' = FALSE /\ pending' = <<>> /\ durable' = durable \o pending
        /\ pc' = "done" /\ result' = TRUE
    BY <1>7 DEF Commit
  <2>2. ASSUME AllInnoDB, ~reissued PROVE durable' = UpTo(Len(queue))
    BY <1>b, <2>1, <2>2, EmptyConcat DEF ProgressInv, Progress
  <2> QED
    BY <1>a, <2>1, <2>2 DEF ProgressInv, Progress
<1>8. CASE CommitIsRefused
  BY <1>8, <1>a DEF CommitIsRefused, ProgressInv, Progress
<1>9. CASE CommitLosesConnection
  <2>1. /\ pc = "commit" /\ UNCHANGED <<queue, at, result, reissued>>
        /\ open' = FALSE /\ pending' = <<>> /\ pc' = "abandon"
        /\ conn' = "dead" /\ ambiguous' = TRUE
        /\ durable' = durable \/ durable' = durable \o pending
    BY <1>9 DEF CommitLosesConnection, ServerRollsBack
  <2>2. ASSUME AllInnoDB, ~reissued PROVE durable' \in {<<>>, UpTo(Len(queue))}
    BY <1>b, <2>1, <2>2, EmptyConcat DEF ProgressInv, Progress
  <2> QED
    BY <1>a, <2>1, <2>2 DEF ProgressInv, Progress
<1>10. CASE Abandon
  <2>1. /\ pc = "abandon" /\ UNCHANGED <<queue, at>> /\ pc' = "done" /\ result' = FALSE
        /\ UNCHANGED <<durable, reissued, ambiguous>>
        /\ ~open' => pending' = <<>>
        /\ conn' = "live" => ~open'
    BY <1>10, CommandFailsClean DEF Abandon, ServerRollsBack
  <2> QED
    BY <1>a, <2>1 DEF ProgressInv, Progress
<1>11. CASE Rollback
  <2>1. /\ pc = "rollback" /\ UNCHANGED <<queue, at>>
        /\ UNCHANGED <<durable, reissued>> /\ result = FALSE
        /\ pc' \in {"begin", "done"} /\ result' = FALSE
        /\ ~open' => pending' = <<>>
        /\ conn' = "live" => ~open'
        /\ pc' = "begin" => ~open'
    BY <1>11, CommandFailsClean DEF Rollback, ServerRollsBack, Replay
  <2> QED
    BY <1>a, <2>1 DEF ProgressInv, Progress
<1>12. CASE Undefined
  BY <1>12, <1>a DEF Undefined, ProgressInv, Progress
<1>13. CASE UNCHANGED vars
  BY <1>13, <1>a DEF vars, locals, ProgressInv, Progress
<1> QED
  BY <1>1, <1>2, <1>3, <1>4, <1>5, <1>6, <1>7, <1>8, <1>9, <1>10, <1>11, <1>12,
     <1>13 DEF Next, Step, Terminated

\* What Execute returns is true of the database.
THEOREM AllOrNothingTheorem == Spec => []AllOrNothing
<1>1. TxInv => AllOrNothing
  <2> SUFFICES ASSUME TxInv, pc = "done", AllInnoDB, ~reissued
               PROVE  \/ durable = Whole /\ (result \/ ambiguous)
                      \/ durable = <<>> /\ ~result
    BY DEF AllOrNothing
  <2>1. Whole = UpTo(Len(queue))
    BY DEF Whole, UpTo, TxInv, LoopInv
  <2> QED
    BY <2>1 DEF TxInv, ProgressInv, Progress
<1> QED
  BY TxInit, TxNext, <1>1, PTL DEF Spec

\* No transaction is left open on a live connection.
THEOREM ConnectionLeftCleanTheorem == Spec => []ConnectionLeftClean
<1>1. TxInv => ConnectionLeftClean
  BY DEF TxInv, OpenInv, ConnectionLeftClean
<1> QED
  BY TxInit, TxNext, <1>1, PTL DEF Spec

-----------------------------------------------------------------------------
(* No statement is durable twice                                            *)

\* All statements of s come before k.
Before(s, k) == \A i \in DOMAIN s : s[i] < k

\* s and u have no statement in common.
Apart(s, u) == \A i \in DOMAIN s, j \in DOMAIN u : s[i] # u[j]

\* On whatever tables, an attempt has applied each statement before the one it
\* is at once at most, for good or in the open transaction.  A new attempt
\* starts with nothing durable: a transaction that is replayed is all InnoDB.
Applied ==
    /\ IsInjective(durable)
    /\ pc \in {"start", "begin"} => durable = <<>>
    /\ pc \in {"statement", "commit"} => IsInjective(pending) /\ Apart(durable, pending)
    /\ pc = "statement" => Before(durable, at) /\ Before(pending, at)

OnceInv ==
    /\ durable \in Seq(Nat) /\ pending \in Seq(Nat)
    /\ transactional => AllInnoDB
    /\ attempt \in Nat
    /\ pc # "start" => attempts = Attempts
    /\ ~reissued => Applied

\* The elements of a sequence with one statement more.
LEMMA AppendShape ==
    ASSUME NEW s \in Seq(Nat), NEW k \in Nat
    PROVE  /\ Append(s, k) \in Seq(Nat) /\ DOMAIN Append(s, k) = 1 .. Len(s) + 1
           /\ DOMAIN s = 1 .. Len(s) /\ Len(s) \in Nat
           /\ \A i \in 1 .. Len(s) : Append(s, k)[i] = s[i] /\ s[i] \in Nat
           /\ Append(s, k)[Len(s) + 1] = k
  OBVIOUS

\* A statement that is appended to earlier ones is new.
LEMMA AppendOnce ==
    ASSUME NEW s \in Seq(Nat), NEW k \in Nat, IsInjective(s), Before(s, k)
    PROVE  /\ Append(s, k) \in Seq(Nat) /\ IsInjective(Append(s, k))
           /\ Before(Append(s, k), k + 1)
<1>1. /\ Append(s, k) \in Seq(Nat) /\ DOMAIN Append(s, k) = 1 .. Len(s) + 1
      /\ DOMAIN s = 1 .. Len(s) /\ Len(s) \in Nat
      /\ \A i \in 1 .. Len(s) : Append(s, k)[i] = s[i] /\ s[i] \in Nat
      /\ Append(s, k)[Len(s) + 1] = k
  BY AppendShape
<1>2. Before(Append(s, k), k + 1)
  BY <1>1 DEF Before
<1>3. ASSUME NEW i \in 1 .. Len(s) + 1, NEW j \in 1 .. Len(s) + 1,
             Append(s, k)[i] = Append(s, k)[j]
      PROVE  i = j
  BY <1>1, <1>3 DEF IsInjective, Before
<1> QED
  BY <1>1, <1>2, <1>3 DEF IsInjective

\* Statements that lie before k stay apart when k is appended to some of them.
LEMMA AppendApart ==
    ASSUME NEW s \in Seq(Nat), NEW u \in Seq(Nat), NEW k \in Nat, Apart(s, u),
           Before(s, k), Before(u, k)
    PROVE  /\ Apart(Append(s, k), u) /\ Apart(s, Append(u, k))
           /\ Before(s, k + 1) /\ Before(u, k + 1)
<1>1. ASSUME NEW v \in Seq(Nat)
      PROVE  /\ DOMAIN Append(v, k) = 1 .. Len(v) + 1
             /\ DOMAIN v = 1 .. Len(v) /\ Len(v) \in Nat
             /\ \A i \in 1 .. Len(v) : Append(v, k)[i] = v[i] /\ v[i] \in Nat
             /\ Append(v, k)[Len(v) + 1] = k
  BY <1>1, AppendShape
<1>2. Before(s, k + 1) /\ Before(u, k + 1)
  BY <1>1 DEF Before
<1>3. Apart(Append(s, k), u)
  BY <1>1 DEF Before, Apart
<1>4. Apart(s, Append(u, k))
  BY <1>1 DEF Before, Apart
<1> QED
  BY <1>2, <1>3, <1>4

\* Two sequences that are apart have no statement twice in one after the other.
LEMMA ConcatOnce ==
    ASSUME NEW s \in Seq(Nat), NEW u \in Seq(Nat), IsInjective(s), IsInjective(u), Apart(s, u)
    PROVE  s \o u \in Seq(Nat) /\ IsInjective(s \o u)
<1>1. /\ s \o u \in Seq(Nat) /\ DOMAIN (s \o u) = 1 .. Len(s) + Len(u)
      /\ DOMAIN s = 1 .. Len(s) /\ Len(s) \in Nat /\ DOMAIN u = 1 .. Len(u) /\ Len(u) \in Nat
      /\ \A i \in 1 .. Len(s) + Len(u) :
           (s \o u)[i] = IF i <= Len(s) THEN s[i] ELSE u[i - Len(s)]
  OBVIOUS
<1>2. ASSUME NEW i \in 1 .. Len(s) + Len(u), NEW j \in 1 .. Len(s) + Len(u),
             (s \o u)[i] = (s \o u)[j]
      PROVE  i = j
  <2>1. CASE i <= Len(s) /\ j <= Len(s)
    <3>1. i \in DOMAIN s /\ j \in DOMAIN s /\ s[i] = s[j]
      BY <1>1, <1>2, <2>1
    <3> QED
      BY <3>1 DEF IsInjective
  <2>2. CASE i > Len(s) /\ j > Len(s)
    <3>1. i - Len(s) \in DOMAIN u /\ j - Len(s) \in DOMAIN u
      BY <1>1, <2>2
    <3>2. u[i - Len(s)] = u[j - Len(s)]
      BY <1>1, <1>2, <2>2
    <3>3. i - Len(s) = j - Len(s)
      BY <3>1, <3>2 DEF IsInjective
    <3> QED
      BY <1>1, <3>3
  <2>3. CASE i <= Len(s) /\ j > Len(s)
    <3>1. i \in DOMAIN s /\ j - Len(s) \in DOMAIN u /\ s[i] = u[j - Len(s)]
      <4>1. j \in Nat /\ i \in Nat /\ j - Len(s) \in 1 .. Len(u) /\ i \in 1 .. Len(s)
        BY <1>1, <2>3
      <4>2. (s \o u)[i] = s[i] /\ (s \o u)[j] = u[j - Len(s)]
        BY <1>1, <2>3, <4>1
      <4> QED
        BY <1>1, <1>2, <4>1, <4>2
    <3> QED
      BY <3>1 DEF Apart
  <2>4. CASE i > Len(s) /\ j <= Len(s)
    <3>1. j \in DOMAIN s /\ i - Len(s) \in DOMAIN u /\ s[j] = u[i - Len(s)]
      <4>1. j \in Nat /\ i \in Nat /\ i - Len(s) \in 1 .. Len(u) /\ j \in 1 .. Len(s)
        BY <1>1, <2>4
      <4>2. (s \o u)[j] = s[j] /\ (s \o u)[i] = u[i - Len(s)]
        BY <1>1, <2>4, <4>1
      <4> QED
        BY <1>1, <1>2, <4>1, <4>2
    <3> QED
      BY <3>1 DEF Apart
  <2>5. (i <= Len(s) \/ i > Len(s)) /\ (j <= Len(s) \/ j > Len(s))
    BY <1>1
  <2> QED
    BY <2>1, <2>2, <2>3, <2>4, <2>5, Zenon
<1> QED
  BY <1>1, <1>2 DEF IsInjective

\* Nothing is applied twice in nothing.
LEMMA NothingOnce ==
    /\ <<>> \in Seq(Nat) /\ IsInjective(<<>>) /\ <<>> \o <<>> = <<>>
    /\ \A k : Before(<<>>, k)
    /\ \A s : Apart(s, <<>>) /\ Apart(<<>>, s)
  BY DEF IsInjective, Before, Apart

\* Before the first attempt nothing is durable.
LEMMA OnceInit == Init => OnceInv
  BY NothingOnce DEF Init, OnceInv, Applied, AllInnoDB

\* Every step of Execute applies a statement that has not been applied.
LEMMA OnceNext == TxInv /\ OnceInv /\ [Next]_vars => OnceInv'
<1> SUFFICES ASSUME TxInv, OnceInv, [Next]_vars PROVE OnceInv'
  OBVIOUS
<1> USE DEF input, server, history, Return
<1>a. ASSUME UNCHANGED input
      PROVE  (transactional' => AllInnoDB') /\ Attempts' = Attempts
  BY <1>a DEF AllInnoDB, Attempts, OnceInv
<1>b. /\ durable \in Seq(Nat) /\ pending \in Seq(Nat) /\ at \in Nat /\ attempt \in Nat
      /\ transactional => AllInnoDB
      /\ pc # "start" => attempts = Attempts
      /\ ~open => pending = <<>>
  BY DEF OnceInv, TxInv, LoopInv, OpenInv
<1>1. CASE Start
  BY <1>1, <1>a, <1>b DEF Start, OnceInv, Applied
<1>2. CASE Begin
  <2>1. /\ pc = "begin" /\ pending = <<>> /\ UNCHANGED <<input, attempts, attempt, reissued>>
    BY <1>2, <1>b DEF Begin, CommandFails, TxInv, OpenInv
  <2>2. CASE pc' = "statement"
    <3>1. durable' = durable \o <<>> /\ pending' = <<>>
      BY <1>2, <2>1, <2>2 DEF Begin
    <3>2. durable' = durable
      BY <1>b, <3>1, ConcatEmptySeq
    <3>3. ASSUME ~reissued PROVE durable' = <<>>
      BY <2>1, <3>2, <3>3 DEF OnceInv, Applied
    <3> QED
      BY <1>a, <1>b, <2>1, <2>2, <3>1, <3>2, <3>3, NothingOnce DEF OnceInv, Applied
  <2>3. CASE pc' # "statement"
    <3>1. /\ pc' = "done" /\ durable' = durable
          /\ pending' = pending \/ pending' = <<>>
      BY <1>2, <2>3 DEF Begin, CommandFails, ServerRollsBack
    <3> QED
      BY <1>a, <1>b, <2>1, <3>1, NothingOnce DEF OnceInv, Applied
  <2> QED
    BY <2>2, <2>3
<1>3. CASE StatementSucceeds
  <2>1. /\ pc = "statement" /\ at' = at + 1 /\ pc' \in {"statement", "commit"}
        /\ UNCHANGED <<input, attempts, attempt, reissued>>
        /\ \/ pending' = Append(pending, at) /\ durable' = durable
           \/ durable' = Append(durable, at) /\ pending' = pending
    BY <1>3 DEF StatementSucceeds, Advance
  <2>2. durable' \in Seq(Nat) /\ pending' \in Seq(Nat)
    <3>1. Append(durable, at) \in Seq(Nat) /\ Append(pending, at) \in Seq(Nat)
      BY <1>b, AppendShape
    <3> QED
      BY <1>b, <2>1, <3>1, Zenon
  <2>3. ASSUME ~reissued PROVE Applied'
    <3>1. /\ IsInjective(durable) /\ IsInjective(pending) /\ Apart(durable, pending)
          /\ Before(durable, at) /\ Before(pending, at)
      BY <2>1, <2>3 DEF OnceInv, Applied
    <3>2. /\ IsInjective(durable') /\ IsInjective(pending') /\ Apart(durable', pending')
          /\ Before(durable', at + 1) /\ Before(pending', at + 1)
      BY <1>b, <2>1, <3>1, AppendOnce, AppendApart
    <3> QED
      BY <2>1, <3>2 DEF Applied
  <2> QED
    BY <1>a, <1>b, <2>1, <2>2, <2>3 DEF OnceInv
<1>4. CASE StatementFails
  BY <1>4, <1>a, <1>b DEF StatementFails, Fail, OnceInv, Applied
<1>5. CASE StatementDeadlocks
  BY <1>5, <1>a, <1>b, NothingOnce DEF StatementDeadlocks, Fail, ServerRollsBack, OnceInv, Applied
<1>6. CASE StatementLosesConnection
  <2>1. /\ pc = "statement" /\ UNCHANGED <<input, attempts, attempt>>
        /\ pending' = <<>>
        /\ durable' = durable \/ durable' = Append(durable, at)
        /\ reissued' \/ (pc' = "rollback" /\ reissued' = reissued)
    BY <1>6 DEF StatementLosesConnection, ServerRollsBack, Fail
  <2>2. durable' \in Seq(Nat) /\ pending' \in Seq(Nat)
    <3>1. Append(durable, at) \in Seq(Nat) /\ <<>> \in Seq(Nat)
      BY <1>b, AppendShape, NothingOnce
    <3> QED
      BY <1>b, <2>1, <3>1, Zenon
  <2>3. ASSUME ~reissued' PROVE Applied'
    <3>1. IsInjective(durable) /\ Before(durable, at) /\ pc' = "rollback"
      BY <2>1, <2>3 DEF OnceInv, Applied
    <3>2. IsInjective(durable')
      BY <1>b, <2>1, <3>1, AppendOnce
    <3> QED
      BY <3>1, <3>2 DEF Applied
  <2>4. pc' # "start"
    BY <1>6 DEF StatementLosesConnection, Fail
  <2> QED
    BY <1>a, <1>b, <2>1, <2>2, <2>3, <2>4 DEF OnceInv
<1>7. CASE Commit \/ CommitLosesConnection
  <2>1. /\ pc = "commit" /\ UNCHANGED <<input, attempts, attempt, reissued>>
        /\ pending' = <<>>
        /\ durable' = durable \/ durable' = durable \o pending
        /\ pc' \in {"done", "abandon"}
    BY <1>7 DEF Commit, CommitLosesConnection, ServerRollsBack
  <2>2. durable' \in Seq(Nat) /\ pending' \in Seq(Nat)
    <3>1. durable \o pending \in Seq(Nat) /\ <<>> \in Seq(Nat)
      BY <1>b, ConcatProperties, NothingOnce
    <3> QED
      BY <1>b, <2>1, <3>1, Zenon
  <2>3. ASSUME ~reissued PROVE Applied'
    <3>1. IsInjective(durable) /\ IsInjective(pending) /\ Apart(durable, pending)
      BY <2>1, <2>3 DEF OnceInv, Applied
    <3>2. IsInjective(durable')
      BY <1>b, <2>1, <3>1, ConcatOnce
    <3> QED
      BY <2>1, <3>2 DEF Applied
  <2> QED
    BY <1>a, <1>b, <2>1, <2>2, <2>3 DEF OnceInv
<1>8. CASE CommitIsRefused
  BY <1>8, <1>a, <1>b DEF CommitIsRefused, OnceInv, Applied
<1>9. CASE Abandon
  <2>1. /\ pc = "abandon" /\ pc' = "done"
        /\ UNCHANGED <<input, attempts, attempt, durable, reissued>>
        /\ pending' = pending \/ pending' = <<>>
    BY <1>9 DEF Abandon, CommandFails, ServerRollsBack
  <2> QED
    BY <1>a, <1>b, <2>1, NothingOnce DEF OnceInv, Applied
<1>10. CASE Rollback
  <2>1. /\ pc = "rollback" /\ UNCHANGED <<input, attempts, durable, reissued>>
        /\ pending' = pending \/ pending' = <<>>
        /\ \/ pc' = "done" /\ attempt' = attempt
           \/ pc' = "begin" /\ attempt' = attempt + 1 /\ Replays
    BY <1>10 DEF Rollback, CommandFails, ServerRollsBack, Replay
  <2>2. ASSUME ~reissued, pc' = "begin" PROVE durable = <<>>
    <3>1. retry /\ transactional
      BY <1>b, <2>1, <2>2 DEF Replays, Attempts
    <3> QED
      BY <1>b, <2>1, <2>2, <3>1 DEF TxInv, ProgressInv, Progress
  <2>3. pending' \in Seq(Nat) /\ attempt' \in Nat
    <3>1. <<>> \in Seq(Nat) /\ attempt + 1 \in Nat
      BY <1>b, NothingOnce
    <3> QED
      BY <1>b, <2>1, <3>1, Zenon
  <2>4. ASSUME ~reissued PROVE Applied'
    BY <2>1, <2>2, <2>4 DEF OnceInv, Applied
  <2> QED
    BY <1>a, <1>b, <2>1, <2>3, <2>4 DEF OnceInv
<1>11. CASE Undefined
  BY <1>11, <1>a, <1>b DEF Undefined, OnceInv, Applied
<1>12. CASE UNCHANGED vars
  BY <1>12, <1>a, <1>b DEF vars, locals, OnceInv, Applied
<1> QED
  BY <1>1, <1>2, <1>3, <1>4, <1>5, <1>6, <1>7, <1>8, <1>9, <1>10, <1>11, <1>12
     DEF Next, Step, Terminated

\* No statement is durable twice, on whatever tables and however often the
\* transaction deadlocks, unless a plain statement was repeated.
THEOREM AppliedAtMostOnceTheorem == Spec => []AppliedAtMostOnce
<1>1. OnceInv => AppliedAtMostOnce
  BY DEF OnceInv, Applied, AppliedAtMostOnce
<1>2. Spec => [](TxInv /\ OnceInv)
  <2>1. Init => TxInv /\ OnceInv
    BY TxInit, OnceInit
  <2>2. TxInv /\ OnceInv /\ [Next]_vars => (TxInv /\ OnceInv)'
    BY TxNext, OnceNext
  <2> QED
    BY <2>1, <2>2, PTL DEF Spec
<1> QED
  BY <1>1, <1>2, PTL
=============================================================================
