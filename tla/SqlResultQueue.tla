---------------------------- MODULE SqlResultQueue ----------------------------
(***************************************************************************)
(* SqlResultQueue::Update (src/shared/Database/SqlOperations.cpp): the world *)
(* thread applies the results of asynchronous queries, those of priority     *)
(* first, in bounded portions.  Both lanes are refilled by the delay threads *)
(* without end; only their lengths matter here, the order within a lane is   *)
(* that of its LockedQueue.                                                  *)
(***************************************************************************)
EXTENDS Naturals

CONSTANTS
    BurstLimit,     \* every so many picks the normal lane goes first: 8
    MaxPerUpdate,   \* callbacks of one Update: 64
    MaxWaiting      \* bound: callbacks waiting in a lane

ASSUME BurstAssumption == BurstLimit \in Nat \ {0}
ASSUME PortionAssumption == MaxPerUpdate \in Nat \ {0}
ASSUME WaitingAssumption == MaxWaiting \in Nat

Lanes == {"priority", "normal"}

Places == {"out", "pick", "priority", "normal"}

VARIABLES
    waiting,        \* callbacks in each lane
    burst,          \* m_priorityBurst
    at,             \* the world thread: outside Update, before a pick, or about
                    \* to look into a lane
    n,              \* the loop counter of Update
    overtaken       \* history: priority callbacks applied while the oldest
                    \* normal callback has been waiting

vars == <<waiting, burst, at, n, overtaken>>

Init ==
    /\ waiting = [l \in Lanes |-> 0]
    /\ burst = 0 /\ at = "out" /\ n = 0 /\ overtaken = 0

\* A delay thread delivers a result, at any moment of Update: every lane has a
\* lock of its own.
Add(l) ==
    /\ waiting[l] < MaxWaiting
    /\ waiting' = [waiting EXCEPT ![l] = @ + 1]
    /\ UNCHANGED <<burst, at, n, overtaken>>

BeginUpdate ==
    /\ at = "out"
    /\ at' = "pick" /\ n' = 0
    /\ UNCHANGED <<waiting, burst, overtaken>>

\* Fault: ++m_priorityBurst > 8
DueLate == burst + 1 > BurstLimit

\* ++m_priorityBurst >= 8
Due == burst + 1 >= BurstLimit

NextBurst == IF Due THEN 0 ELSE burst + 1

WithinPortion == n < MaxPerUpdate

NextCount == n + 1

\* nextCallback finds one in lane l, and it is executed.
Apply(l) ==
    /\ waiting[l] > 0
    /\ waiting' = [waiting EXCEPT ![l] = @ - 1]
    /\ overtaken' = IF l = "priority" /\ waiting["normal"] > 0 THEN overtaken + 1 ELSE 0
    /\ at' = "pick" /\ n' = NextCount

\* nextCallback finds nothing in lane l.
Miss(l, next) ==
    /\ waiting[l] = 0
    /\ at' = next
    /\ UNCHANGED <<waiting, n, overtaken>>

\* The turn of the normal lane has come; when it is empty, the turn is over.
PickNormal ==
    /\ at = "pick" /\ WithinPortion /\ Due
    /\ burst' = NextBurst
    /\ Apply("normal") \/ Miss("normal", "priority")

PickPriority ==
    /\ at = "pick" /\ WithinPortion /\ ~Due
    /\ burst' = NextBurst
    /\ at' = "priority"
    /\ UNCHANGED <<waiting, n, overtaken>>

TryPriority ==
    /\ at = "priority"
    /\ Apply("priority") \/ Miss("priority", "normal")
    /\ UNCHANGED burst

\* Nothing here either: the loop ends.
TryNormal ==
    /\ at = "normal"
    /\ Apply("normal") \/ Miss("normal", "out")
    /\ UNCHANGED burst

\* Fault: the time budget is tested before the first callback too.
ExpiresAtOnce == TRUE

\* The time budget may be used up after any callback.
MayExpire == n > 0

Leave ==
    /\ at = "pick" /\ (MayExpire \/ ~WithinPortion)
    /\ at' = "out"
    /\ UNCHANGED <<waiting, burst, n, overtaken>>

UpdateStep == PickNormal \/ PickPriority \/ TryPriority \/ TryNormal \/ Leave

Next == BeginUpdate \/ UpdateStep \/ \E l \in Lanes : Add(l)

\* The world thread calls Update every tick and is scheduled inside it.
Spec == Init /\ [][Next]_vars /\ WF_vars(BeginUpdate) /\ WF_vars(UpdateStep)

-----------------------------------------------------------------------------
TypeOK ==
    /\ waiting \in [Lanes -> 0 .. MaxWaiting]
    /\ burst \in 0 .. BurstLimit - 1
    /\ at \in Places
    /\ n \in 0 .. MaxPerUpdate
    /\ overtaken \in Nat

\* "Prefer player logins, but do not starve background bot completions": a
\* waiting normal callback is overtaken by at most BurstLimit priority
\* callbacks, over any number of calls of Update, for every time budget and
\* wherever between the reads of the two lanes it was delivered.  The bound is
\* reached: a turn of the normal lane is spent when its lane is found empty, and
\* the callback may arrive before the priority lane is read.
OvertakingBounded == overtaken <= BurstLimit

\* A normal lane that always has callbacks is served again and again, however
\* many priority callbacks arrive.
NormalIsServed ==
    \/ []<>(waiting["normal"] = 0)
    \/ []<><<waiting'["normal"] < waiting["normal"]>>_vars
=============================================================================
