------------------------- MODULE SqlResultQueueProofs -------------------------
(***************************************************************************)
(* For every burst limit, portion and lane length: the state of the result   *)
(* queue is well typed and a normal callback is overtaken at most BurstLimit *)
(* times.  The bound is not inductive by itself: the counter m_priorityBurst *)
(* carries the number of overtakings from one call of Update to the next,    *)
(* which is what OvertakingCounted says.  Before a pick it may be one behind: *)
(* a pick that resets it because the normal lane is empty may be followed by *)
(* a delivery and then by a priority callback.  A reset without a normal      *)
(* callback only happens when none is waiting (OvertakenWaits).              *)
(***************************************************************************)
EXTENDS SqlResultQueue, TLAPS

OvertakingCounted ==
    /\ overtaken <= burst + 1
    /\ at \in {"priority", "normal"} => overtaken <= burst

OvertakenWaits == overtaken > 0 => waiting["normal"] > 0

ResultInv == TypeOK /\ OvertakingCounted /\ OvertakenWaits

\* The initial state satisfies the invariant.
LEMMA InitInv == Init => ResultInv
<1> SUFFICES ASSUME Init PROVE ResultInv
  OBVIOUS
<1>1. waiting \in [Lanes -> 0 .. MaxWaiting]
  BY WaitingAssumption DEF Init
<1>2. burst \in 0 .. BurstLimit - 1 /\ n \in 0 .. MaxPerUpdate
  BY BurstAssumption, PortionAssumption DEF Init
<1> QED
  BY <1>1, <1>2 DEF Init, ResultInv, TypeOK, OvertakingCounted, OvertakenWaits, Places

\* A callback of lane l is applied, burst being what the step makes of it: the
\* overtakings stay within what the counter has seen, and one more.
LEMMA ApplyInv ==
    ASSUME ResultInv, NEW l \in Lanes, Apply(l), WithinPortion \/ n < MaxPerUpdate,
           burst' \in 0 .. BurstLimit - 1,
           l = "priority" => overtaken <= burst'
    PROVE  ResultInv'
<1>1. /\ waiting["normal"] \in 0 .. MaxWaiting
      /\ waiting[l] \in 0 .. MaxWaiting
      /\ waiting \in [Lanes -> 0 .. MaxWaiting]
      /\ overtaken \in Nat /\ n \in 0 .. MaxPerUpdate
  BY DEF ResultInv, TypeOK, Lanes
<1>2. waiting' \in [Lanes -> 0 .. MaxWaiting]
  BY <1>1, WaitingAssumption DEF Apply
<1>3. n' \in 0 .. MaxPerUpdate
  BY <1>1, PortionAssumption DEF Apply, WithinPortion, NextCount
<1>4. at' = "pick" /\ at' \in Places /\ at' \notin {"priority", "normal"}
  BY DEF Apply, Places
<1>5. burst' \in Nat
  BY BurstAssumption
<1>6. CASE l = "priority" /\ waiting["normal"] > 0
  <2>1. overtaken' = overtaken + 1 /\ overtaken <= burst'
    BY <1>6 DEF Apply
  <2>2. overtaken' \in Nat /\ overtaken' <= burst' + 1
    <3>1. \A x, k \in Nat : x <= k => x + 1 \in Nat /\ x + 1 <= k + 1
      OBVIOUS
    <3> QED
      BY <1>1, <1>5, <2>1, <3>1, Zenon
  <2>3. waiting'["normal"] = waiting["normal"]
    BY <1>1, <1>6 DEF Apply, Lanes
  <2>4. OvertakenWaits'
    BY <1>6, <2>3 DEF OvertakenWaits
  <2>5. OvertakingCounted'
    BY <1>4, <2>2, Zenon DEF OvertakingCounted
  <2> QED
    BY <1>2, <1>3, <1>4, <2>2, <2>4, <2>5 DEF ResultInv, TypeOK
<1>7. CASE ~(l = "priority" /\ waiting["normal"] > 0)
  <2>1. overtaken' = 0
    BY <1>7 DEF Apply
  <2>2. overtaken' \in Nat /\ overtaken' <= burst' + 1 /\ ~(overtaken' > 0)
    <3>1. \A k \in Nat : 0 \in Nat /\ 0 <= k + 1 /\ ~(0 > 0)
      OBVIOUS
    <3> QED
      BY <1>5, <2>1, <3>1, Zenon
  <2>3. OvertakenWaits'
    BY <2>2 DEF OvertakenWaits
  <2>4. OvertakingCounted'
    BY <1>4, <2>2, Zenon DEF OvertakingCounted
  <2> QED
    BY <1>2, <1>3, <1>4, <2>2, <2>3, <2>4 DEF ResultInv, TypeOK
<1> QED
  BY <1>6, <1>7

\* Every step of Update, and every delivery, preserves the invariant; between
\* two reads of the lanes the portion is not used up (Reading).
Reading == at \in {"priority", "normal"} => n < MaxPerUpdate

LEMMA NextInv == ResultInv /\ Reading /\ [Next]_vars => ResultInv' /\ Reading'
<1> SUFFICES ASSUME ResultInv, Reading, [Next]_vars PROVE ResultInv' /\ Reading'
  OBVIOUS
<1> USE BurstAssumption, PortionAssumption, WaitingAssumption
<1>1. NextBurst \in 0 .. BurstLimit - 1 /\ burst \in 0 .. BurstLimit - 1
  BY DEF NextBurst, Due, ResultInv, TypeOK
<1>2. ASSUME NEW l \in Lanes, Apply(l) PROVE Reading'
  BY <1>2 DEF Apply, Reading
<1>3. ASSUME NEW l \in Lanes, Add(l) PROVE ResultInv' /\ Reading'
  BY <1>3 DEF Add, ResultInv, TypeOK, OvertakingCounted, OvertakenWaits, Reading, Lanes
<1>4. CASE BeginUpdate
  BY <1>4 DEF BeginUpdate, ResultInv, TypeOK, OvertakingCounted, OvertakenWaits, Reading,
              Places
<1>5. CASE PickNormal
  <2>1. CASE Apply("normal")
    BY <1>1, <1>2, <1>5, <2>1, ApplyInv DEF PickNormal, Lanes
  <2>2. CASE Miss("normal", "priority")
    <3>1. overtaken = 0
      BY <2>2 DEF Miss, ResultInv, OvertakenWaits, TypeOK
    <3> QED
      BY <1>1, <1>5, <2>2, <3>1
      DEF PickNormal, Miss, WithinPortion, ResultInv, TypeOK, OvertakingCounted,
          OvertakenWaits, Reading, Places
  <2> QED
    BY <1>5, <2>1, <2>2 DEF PickNormal
<1>6. CASE PickPriority
  <2>1. burst' = burst + 1
    BY <1>6 DEF PickPriority, NextBurst
  <2> QED
    BY <1>1, <1>6, <2>1
    DEF PickPriority, WithinPortion, ResultInv, TypeOK, OvertakingCounted,
        OvertakenWaits, Reading, Places
<1>7. CASE TryPriority
  <2>1. CASE Apply("priority")
    <3>1. n < MaxPerUpdate /\ overtaken <= burst /\ burst' = burst
      BY <1>7 DEF TryPriority, ResultInv, OvertakingCounted, Reading
    <3> QED
      BY <1>1, <1>2, <2>1, <3>1, ApplyInv DEF Lanes
  <2>2. CASE Miss("priority", "normal")
    BY <1>7, <2>2 DEF TryPriority, Miss, ResultInv, TypeOK, OvertakingCounted,
                      OvertakenWaits, Reading, Places
  <2> QED
    BY <1>7, <2>1, <2>2 DEF TryPriority
<1>8. CASE TryNormal
  <2>1. CASE Apply("normal")
    <3>1. n < MaxPerUpdate /\ burst' = burst
      BY <1>8 DEF TryNormal, Reading
    <3> QED
      BY <1>1, <1>2, <2>1, <3>1, ApplyInv DEF Lanes
  <2>2. CASE Miss("normal", "out")
    BY <1>8, <2>2 DEF TryNormal, Miss, ResultInv, TypeOK, OvertakingCounted,
                      OvertakenWaits, Reading, Places
  <2> QED
    BY <1>8, <2>1, <2>2 DEF TryNormal
<1>9. CASE Leave
  BY <1>9 DEF Leave, ResultInv, TypeOK, OvertakingCounted, OvertakenWaits, Reading, Places
<1>10. CASE UNCHANGED vars
  BY <1>10 DEF vars, ResultInv, TypeOK, OvertakingCounted, OvertakenWaits, Reading
<1> QED
  BY <1>3, <1>4, <1>5, <1>6, <1>7, <1>8, <1>9, <1>10 DEF Next, UpdateStep

LEMMA ResultQueueInv == Spec => [](ResultInv /\ Reading)
<1>1. Init => Reading
  BY DEF Init, Reading
<1> QED
  BY InitInv, NextInv, <1>1, PTL DEF Spec

\* m_priorityBurst stays below its limit and Update within its portion.
THEOREM ResultQueueTypeCorrect == Spec => []TypeOK
  BY ResultQueueInv, PTL DEF ResultInv

\* However deliveries, the reads of the two lanes, calls of Update and expiring
\* budgets interleave, at most BurstLimit priority callbacks are applied before
\* a waiting normal one.
THEOREM OvertakingBoundedTheorem == Spec => []OvertakingBounded
<1>1. ResultInv => OvertakingBounded
  BY BurstAssumption
  DEF ResultInv, TypeOK, OvertakingCounted, OvertakingBounded
<1> QED
  BY ResultQueueInv, <1>1, PTL
=============================================================================
