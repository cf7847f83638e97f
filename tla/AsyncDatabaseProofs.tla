------------------------- MODULE AsyncDatabaseProofs -------------------------
(***************************************************************************)
(* For any number of delay threads, serial ids, batch sizes and operations:  *)
(* AsyncDatabase implements DelayedWork, StopServer executes everything that *)
(* was accepted before the workers were gone and no callback is lost.        *)
(*                                                                         *)
(* The order of a class rests on one lane per class, served by one body      *)
(* (Ordered); that nothing is lost rests on where an operation is (Placed)   *)
(* and on the last, empty ProcessRequests of every destructor (Emptied).     *)
(***************************************************************************)
EXTENDS AsyncDatabase, SequenceTheorems, TLAPS

Gone == {"cancelling", "closing", "down"}

\* The positions of accepted operations.
Positions == 1 .. Len(accepted)

Keyed(o) == OrderClass(o) # <<>>
Home(o) == o.serial % NumWorkers
SerialQueue(w) == queue[<<"serial", w>>]

Increasing(s) == \A m, n \in 1 .. Len(s) : m < n => s[m] < s[n]
Distinct(s) == \A m, n \in 1 .. Len(s) : m # n => s[m] # s[n]

Known ==
    /\ Range(executed) \subseteq Positions
    /\ \A l \in Lanes : Range(queue[l]) \subseteq Positions
    /\ \A w \in Workers : current[w] \in Positions \cup {0}

\* What was accepted is executed, in a lane, or in the hands of a body.
Placed ==
    \A i \in Positions :
        \/ i \in Range(executed)
        \/ \E l \in Lanes : i \in Range(queue[l])
        \/ \E w \in Workers : current[w] = i

\* A class has one lane, its lane one body, and both keep the order.
Ordered ==
    workers > 0 =>
        /\ \A w \in Workers : \A i \in Range(SerialQueue(w)) :
             Keyed(accepted[i]) /\ Home(accepted[i]) = w
        /\ \A l \in Lanes : l[1] # "serial" => \A i \in Range(queue[l]) : ~Keyed(accepted[i])
        /\ \A w \in Workers : current[w] # 0 /\ Keyed(accepted[current[w]]) =>
             Home(accepted[current[w]]) = w /\ \A i \in Range(SerialQueue(w)) : current[w] < i
        /\ \A w \in Workers : Increasing(SerialQueue(w))

\* Who may run a body: its thread until it exits, then StopServer one after
\* the other, then nobody.
Control ==
    /\ workers = 0 <=> server \in Gone
    /\ \A w \in Workers : phase[w] = "out" => current[w] = 0
    /\ \A w \in Workers : thread[w] = "exited" /\ server \in {"up", "joining"} => phase[w] = "out"
    /\ server \notin {"up", "joining"} => \A w \in Workers : thread[w] = "exited"
    /\ server \in {"draining", "destroying"} => \A w \in Workers \ {cursor} : phase[w] = "out"
    /\ server \in Gone => \A w \in Workers : phase[w] = "out"

EmptyLanes(w, S) == \A k \in S : queue[<<k, w>>] = <<>>

\* What the destructors have left behind: nothing of the bodies before the
\* cursor, and nothing in the lanes a so far idle ProcessRequests has passed.
Emptied ==
    server = "destroying" =>
        /\ \A w \in Workers : w < cursor =>
             EmptyLanes(w, {"prioSerial", "priority", "serial"})
        /\ ~processed[cursor] =>
             /\ current[cursor] = 0
             /\ phase[cursor] # "out" => quota[cursor] > 0
             /\ phase[cursor] # "priority" => EmptyLanes(cursor, {"prioSerial", "priority"})
             /\ phase[cursor] \in {"serial", "out"} => queue[Shared] = <<>>
             /\ phase[cursor] = "out" => EmptyLanes(cursor, {"serial"})

\* A result is one of an executed query whose callback was not yet applied.
Delivered ==
    /\ Range(applied) \subseteq Range(executed)
    /\ \A h \in BOOLEAN : Distinct(results[h])
    /\ \A h \in BOOLEAN : \A i \in Range(results[h]) :
         /\ i \in Range(executed) \ Range(applied)
         /\ IsRead(accepted[i]) /\ accepted[i].high = h
    /\ \A i \in Range(executed) : IsRead(accepted[i]) =>
         i \in Range(applied) \/ i \in Range(results[accepted[i].high])
    /\ server \in {"closing", "down"} => \A h \in BOOLEAN : results[h] = <<>>

DatabaseInv ==
    /\ TypeOK /\ Known /\ Placed /\ Ordered /\ Control /\ Emptied /\ Delivered
    /\ HaltPreservesAccepted

-----------------------------------------------------------------------------
(* Sequences as sets                                                        *)

\* An empty lane holds nothing.
LEMMA RangeEmpty == Range(<<>>) = {}
  BY DEF Range

\* LockedQueue::add puts one element into the lane.
LEMMA RangeAppend ==
    ASSUME NEW S, NEW s \in Seq(S), NEW e \in S
    PROVE  Append(s, e) \in Seq(S) /\ Range(Append(s, e)) = Range(s) \cup {e}
<1> DEFINE t == Append(s, e)
<1>1. /\ t \in Seq(S) /\ Len(s) \in Nat /\ Len(t) = Len(s) + 1 /\ t[Len(s) + 1] = e
      /\ \A n \in 1 .. Len(s) : t[n] = s[n]
  OBVIOUS
<1>2. DOMAIN s = 1 .. Len(s) /\ DOMAIN t = 1 .. Len(s) + 1
  BY <1>1
<1> HIDE DEF t
<1>3. \A x \in Range(t) : x \in Range(s) \cup {e}
  BY <1>1, <1>2 DEF Range
<1>4. \A x \in Range(s) \cup {e} : x \in Range(t)
  BY <1>1, <1>2 DEF Range
<1> QED
  BY <1>1, <1>3, <1>4 DEF t

\* LockedQueue::next takes the head and leaves the rest.
LEMMA RangeTail ==
    ASSUME NEW S, NEW s \in Seq(S), s # <<>>
    PROVE  /\ Head(s) \in S /\ Tail(s) \in Seq(S)
           /\ Range(s) = {Head(s)} \cup Range(Tail(s))
<1> DEFINE t == Tail(s)
<1>1. /\ t \in Seq(S) /\ Len(s) \in Nat \ {0} /\ Len(t) = Len(s) - 1 /\ Head(s) = s[1]
      /\ \A n \in 1 .. Len(t) : t[n] = s[n + 1]
  OBVIOUS
<1>2. DOMAIN s = 1 .. Len(s) /\ DOMAIN t = 1 .. Len(s) - 1 /\ Head(s) \in S
  BY <1>1
<1> HIDE DEF t
<1>3. \A x \in Range(t) \cup {Head(s)} : x \in Range(s)
  <2>1. \A n \in DOMAIN t : n + 1 \in DOMAIN s /\ t[n] = s[n + 1]
    BY <1>1, <1>2
  <2>2. 1 \in DOMAIN s
    BY <1>1, <1>2
  <2> QED
    BY <1>1, <2>1, <2>2 DEF Range
<1>4. ASSUME NEW n \in 1 .. Len(s) PROVE s[n] \in Range(t) \cup {Head(s)}
  <2>1. CASE n = 1
    BY <1>1, <2>1
  <2>2. CASE n # 1
    <3>1. n - 1 \in DOMAIN t /\ t[n - 1] = s[n]
      BY <1>1, <1>2, <2>2
    <3> QED
      BY <3>1 DEF Range
  <2> QED
    BY <2>1, <2>2
<1>5. \A x \in Range(s) : x \in Range(t) \cup {Head(s)}
  BY <1>2, <1>4 DEF Range
<1> QED
  BY <1>1, <1>2, <1>3, <1>5 DEF t

\* Positions can be compared.
LEMMA IdsAreNumbers == ASSUME NEW s \in Seq(Ids) PROVE s \in Seq(Nat)
<1>1. \A x \in Ids : x \in Nat
  BY BoundAssumption DEF Ids
<1>2. Len(s) \in Nat /\ s \in [1 .. Len(s) -> Ids]
  OBVIOUS
<1>3. s \in [1 .. Len(s) -> Nat]
  BY <1>1, <1>2
<1> QED
  BY <1>2, <1>3

\* An id larger than all of them goes to the end of an increasing lane.
LEMMA IncreasingAppend ==
    ASSUME NEW s \in Seq(Nat), NEW e \in Nat, Increasing(s), \A x \in Range(s) : x < e
    PROVE  Increasing(Append(s, e))
<1> DEFINE t == Append(s, e)
<1>1. /\ Len(s) \in Nat /\ Len(t) = Len(s) + 1 /\ t[Len(s) + 1] = e
      /\ \A n \in 1 .. Len(s) : t[n] = s[n] /\ s[n] \in Nat
  OBVIOUS
<1>2. \A n \in 1 .. Len(s) : s[n] < e
  BY DEF Range
<1> HIDE DEF t
<1>3. ASSUME NEW m \in 1 .. Len(t), NEW n \in 1 .. Len(t), m < n PROVE t[m] < t[n]
  <2>1. m \in 1 .. Len(s) /\ t[m] = s[m]
    BY <1>1, <1>3
  <2>2. CASE n = Len(s) + 1
    BY <1>1, <1>2, <2>1, <2>2
  <2>3. CASE n \in 1 .. Len(s)
    BY <1>1, <1>3, <2>1, <2>3 DEF Increasing
  <2> QED
    BY <1>1, <2>2, <2>3
<1> QED
  BY <1>3 DEF t, Increasing

\* The head of an increasing lane is smaller than what stays behind.
LEMMA IncreasingTail ==
    ASSUME NEW s \in Seq(Nat), s # <<>>, Increasing(s)
    PROVE  Increasing(Tail(s)) /\ \A x \in Range(Tail(s)) : Head(s) < x
<1>1. /\ Len(s) \in Nat \ {0} /\ Len(Tail(s)) = Len(s) - 1 /\ Head(s) = s[1]
      /\ \A n \in 1 .. Len(Tail(s)) : Tail(s)[n] = s[n + 1]
  OBVIOUS
<1>2. DOMAIN Tail(s) = 1 .. Len(s) - 1
  BY <1>1
<1>3. \A n \in 1 .. Len(s) - 1 : n + 1 \in 1 .. Len(s)
  BY <1>1
<1>4. Increasing(Tail(s))
  BY <1>1, <1>3 DEF Increasing
<1>5. \A n \in 1 .. Len(s) - 1 : Head(s) < Tail(s)[n]
  BY <1>1, <1>3 DEF Increasing
<1> QED
  BY <1>2, <1>4, <1>5 DEF Range

\* A result that is not in the lane yet leaves it without repetition.
LEMMA DistinctAppend ==
    ASSUME NEW S, NEW s \in Seq(S), NEW e \in S, Distinct(s), e \notin Range(s)
    PROVE  Distinct(Append(s, e))
  BY DEF Distinct, Range

\* A result taken off the lane is not in it any more.
LEMMA DistinctTail ==
    ASSUME NEW S, NEW s \in Seq(S), s # <<>>, Distinct(s)
    PROVE  Distinct(Tail(s)) /\ Head(s) \notin Range(Tail(s))
<1>1. /\ Len(s) \in Nat \ {0} /\ Len(Tail(s)) = Len(s) - 1 /\ Head(s) = s[1]
      /\ \A n \in 1 .. Len(Tail(s)) : Tail(s)[n] = s[n + 1]
  OBVIOUS
<1>2. DOMAIN Tail(s) = 1 .. Len(s) - 1
  BY <1>1
<1>3. \A n \in 1 .. Len(s) - 1 : n + 1 \in 1 .. Len(s)
  BY <1>1
<1>4. Distinct(Tail(s))
  BY <1>1, <1>3 DEF Distinct
<1>5. \A n \in 1 .. Len(s) - 1 : Head(s) # Tail(s)[n]
  BY <1>1, <1>3 DEF Distinct
<1> QED
  BY <1>2, <1>4, <1>5 DEF Range

-----------------------------------------------------------------------------
(* Routing and lanes                                                        *)

\* While there are workers, an operation of an ordered class goes to the serial
\* lane of its class and no other operation goes to a serial lane.
LEMMA RouteLane ==
    ASSUME workers \in {0, NumWorkers}, NEW o \in Operations
    PROVE  /\ Route(o) \in Lanes
           /\ workers > 0 /\ OrderClass(o) # <<>> =>
                Route(o) = <<"serial", o.serial % NumWorkers>>
           /\ workers > 0 /\ OrderClass(o) = <<>> => Route(o)[1] # "serial"
<1> USE WorkersAssumption, SerialsAssumption
<1>1. o.serial \in Nat /\ o.kind \in {"read", "write"} /\ o.high \in BOOLEAN
  BY DEF Operations
<1>2. o.serial % NumWorkers \in Workers /\ 0 \in Workers /\ 0 % NumWorkers = 0
  BY <1>1 DEF Workers
<1>3. o.kind = "write" => ~o.high
  BY DEF Operations
<1>4. \A w \in Workers : <<"serial", w>> \in Lanes /\ <<"priority", w>> \in Lanes
                         /\ <<"prioSerial", w>> \in Lanes
  BY DEF Lanes
<1>5. Shared \in Lanes /\ Shared[1] # "serial"
  BY DEF Lanes, Shared
<1>6. CASE o.high
  <2>1. Route(o) \in Lanes /\ (workers > 0 => Route(o)[1] # "serial")
    BY <1>1, <1>2, <1>3, <1>4, <1>5, <1>6
       DEF Route, PrioritySerialLane, PriorityLane, DelayLane
  <2> QED
    BY <2>1, <1>6 DEF OrderClass
<1>7. CASE ~o.high /\ (o.serial = 0 \/ workers = 0)
  <2>1. Route(o) = DelayLane(o)
    BY <1>7 DEF Route, SerialLane
  <2>2. DelayLane(o) = IF workers > 0 /\ o.kind = "write" THEN <<"serial", 0>> ELSE Shared
    BY DEF DelayLane
  <2>3. workers > 0 /\ OrderClass(o) # <<>> => o.kind = "write"
    BY <1>1, <1>7 DEF OrderClass
  <2>4. workers > 0 /\ OrderClass(o) = <<>> => o.kind = "read"
    BY <1>1, <1>7 DEF OrderClass
  <2>5. CASE workers > 0 /\ o.kind = "write"
    <3>1. o.serial = 0 /\ Route(o) = <<"serial", 0>> /\ OrderClass(o) # <<>>
      BY <1>1, <1>7, <2>1, <2>2, <2>4, <2>5
    <3> QED
      BY <1>2, <1>4, <3>1
  <2>6. CASE ~(workers > 0 /\ o.kind = "write")
    <3>1. Route(o) = Shared
      BY <2>1, <2>2, <2>6
    <3> QED
      BY <1>5, <2>3, <2>6, <3>1
  <2> QED
    BY <2>5, <2>6
<1>8. CASE ~o.high /\ o.serial # 0 /\ workers # 0
  <2>1. Route(o) = <<"serial", o.serial % NumWorkers>>
    BY <1>8 DEF Route, SerialLane
  <2>2. OrderClass(o) # <<>>
    BY <1>8 DEF OrderClass
  <2> QED
    BY <1>2, <1>4, <2>1, <2>2
<1> QED
  BY <1>6, <1>7, <1>8

\* A body takes from the shared lane and from its own.
LEMMA TriesLanes ==
    ASSUME TypeOK, NEW w \in Workers, phase[w] # "out", NEW n \in DOMAIN Tries(w)
    PROVE  /\ Tries(w)[n] \in Lanes
           /\ Tries(w)[n] = <<"serial", w>> \/ Tries(w)[n][1] # "serial"
<1>1. Shared \in Lanes /\ \A k \in {"serial", "priority", "prioSerial"} : <<k, w>> \in Lanes
  BY DEF Lanes
<1>2. CASE phase[w] = "priority"
  BY <1>1, <1>2 DEF Tries, PriorityTries
<1>3. CASE phase[w] = "normal"
  BY <1>1, <1>3 DEF Tries, Shared
<1>4. CASE phase[w] = "serial"
  BY <1>1, <1>4 DEF Tries
<1> QED
  BY <1>2, <1>3, <1>4 DEF TypeOK

\* A loop that finds nothing has seen all of its lanes empty.
LEMMA DryLanes ==
    ASSUME TypeOK, NEW w \in Workers, Dry(w)
    PROVE  /\ phase[w] = "priority" => EmptyLanes(w, {"prioSerial", "priority"})
           /\ phase[w] = "normal" => queue[Shared] = <<>>
           /\ phase[w] = "serial" => EmptyLanes(w, {"serial"})
<1>1. CASE phase[w] = "priority"
  <2>1. Tries(w) = << <<"prioSerial", w>>, <<"priority", w>> >>
    BY <1>1 DEF Tries, PriorityTries
  <2>2. queue[Tries(w)[1]] = <<>> /\ queue[Tries(w)[2]] = <<>>
    BY <2>1 DEF Dry
  <2> QED
    BY <1>1, <2>1, <2>2 DEF EmptyLanes
<1>2. CASE phase[w] = "normal"
  <2>1. Tries(w) = << Shared >>
    BY <1>2 DEF Tries
  <2>2. queue[Tries(w)[1]] = <<>>
    BY <2>1 DEF Dry
  <2> QED
    BY <1>2, <2>1, <2>2
<1>3. CASE phase[w] = "serial"
  <2>1. Tries(w) = << <<"serial", w>> >>
    BY <1>3 DEF Tries
  <2>2. queue[Tries(w)[1]] = <<>>
    BY <2>1 DEF Dry
  <2> QED
    BY <1>3, <2>1, <2>2 DEF EmptyLanes
<1> QED
  BY <1>1, <1>2, <1>3

-----------------------------------------------------------------------------
(* The invariant                                                            *)

\* A call, from another thread or from a callback that ends with it, preserves
\* the invariant.
LEMMA EnqueueInv ==
    ASSUME DatabaseInv, Enqueue, current' \in [Workers -> Ids \cup {0}],
           \A w \in Workers : \/ current'[w] = current[w]
                              \/ current'[w] = 0 /\ current[w] \in Range(executed),
           UNCHANGED <<executed, applied, thread, phase, quota, processed, results, stopVars>>
    PROVE  DatabaseInv'
<1> USE BoundAssumption DEF DatabaseInv, stopVars
<1> DEFINE n == Len(accepted) + 1
<1>1. PICK o \in Operations :
        /\ Accepting(o) /\ Len(accepted) < MaxOps
        /\ accepted' = Append(accepted, o)
        /\ queue' = [queue EXCEPT ![Route(o)] = Append(@, n)]
  BY DEF Enqueue
<1>2. /\ accepted' \in Seq(Operations) /\ Len(accepted) \in Nat /\ Len(accepted') = n
      /\ n \in Ids /\ \A i \in Positions : accepted'[i] = accepted[i] /\ i < n
  BY <1>1 DEF TypeOK, Ids, Positions
<1>3. accepted'[n] = o
  BY <1>1 DEF TypeOK
<1>4. Positions' = Positions \cup {n}
  BY <1>2 DEF Positions
<1>5. Route(o) \in Lanes
  BY RouteLane DEF TypeOK
<1> HIDE DEF n
<1>6. /\ queue' \in [Lanes -> Seq(Ids)]
      /\ Range(queue'[Route(o)]) = Range(queue[Route(o)]) \cup {n}
      /\ \A l \in Lanes : l # Route(o) => queue'[l] = queue[l]
  <2>1. /\ Append(queue[Route(o)], n) \in Seq(Ids)
        /\ Range(Append(queue[Route(o)], n)) = Range(queue[Route(o)]) \cup {n}
    BY <1>2, <1>5, RangeAppend DEF TypeOK
  <2> QED
    BY <1>1, <1>5, <2>1 DEF TypeOK
<1>7. server # "destroying"
  BY <1>1 DEF Accepting
<1>8. TypeOK'
  BY <1>2, <1>6 DEF TypeOK, Ids
<1>9. Known'
  <2>1. \A l \in Lanes : Range(queue'[l]) \subseteq Positions'
    BY <1>4, <1>5, <1>6 DEF Known
  <2>2. \A w \in Workers : current'[w] \in Positions' \cup {0}
    BY <1>4 DEF Known
  <2> QED
    BY <2>1, <2>2, <1>4 DEF Known
<1>10. Placed'
  <2>1. ASSUME NEW i \in Positions, i \notin Range(executed)
        PROVE  \/ \E l \in Lanes : i \in Range(queue'[l])
               \/ \E w \in Workers : current'[w] = i
    <3>1. CASE \E w \in Workers : current[w] = i
      BY <2>1, <3>1
    <3>2. CASE \E l \in Lanes : i \in Range(queue[l])
      BY <3>2, <1>5, <1>6
    <3> QED
      BY <2>1, <3>1, <3>2 DEF Placed
  <2>2. n \in Range(queue'[Route(o)])
    BY <1>6
  <2> QED
    BY <2>1, <2>2, <1>4, <1>5 DEF Placed
<1>11. Ordered'
  <2> SUFFICES ASSUME workers > 0 PROVE Ordered'
    BY DEF Ordered
  <2> USE DEF SerialQueue
  <2>1. \A i \in Positions :
          (Keyed(accepted'[i]) <=> Keyed(accepted[i])) /\ Home(accepted'[i]) = Home(accepted[i])
    BY <1>2 DEF Keyed, Home
  <2>2. \A w \in Workers : <<"serial", w>> \in Lanes
    BY DEF Lanes
  <2>3. \A w \in Workers : \A i \in Range(SerialQueue(w)) : i \in Positions
    BY <2>2 DEF Known
  <2>4. (Keyed(accepted'[n]) <=> OrderClass(o) # <<>>) /\ Home(accepted'[n]) = o.serial % NumWorkers
    BY <1>3 DEF Keyed, Home
  <2>5. /\ OrderClass(o) # <<>> => Route(o) = <<"serial", o.serial % NumWorkers>>
        /\ OrderClass(o) = <<>> => Route(o)[1] # "serial"
    BY RouteLane DEF TypeOK
  <2>6. \A w \in Workers : \A i \in Range(queue'[<<"serial", w>>]) :
          Keyed(accepted'[i]) /\ Home(accepted'[i]) = w
    <3> SUFFICES ASSUME NEW w \in Workers, NEW i \in Range(queue'[<<"serial", w>>])
                 PROVE  Keyed(accepted'[i]) /\ Home(accepted'[i]) = w
      OBVIOUS
    <3>1. CASE i \in Range(SerialQueue(w))
      BY <3>1, <2>1, <2>3 DEF Ordered
    <3>2. CASE i \notin Range(SerialQueue(w))
      <4>1. i = n /\ Route(o) = <<"serial", w>>
        BY <3>2, <1>6, <2>2
      <4>2. OrderClass(o) # <<>> /\ o.serial % NumWorkers = w
        BY <4>1, <2>5
      <4> QED
        BY <4>1, <4>2, <2>4
    <3> QED
      BY <3>1, <3>2
  <2>7. \A l \in Lanes : l[1] # "serial" => \A i \in Range(queue'[l]) : ~Keyed(accepted'[i])
    <3> SUFFICES ASSUME NEW l \in Lanes, l[1] # "serial", NEW i \in Range(queue'[l])
                 PROVE  ~Keyed(accepted'[i])
      OBVIOUS
    <3>1. CASE i \in Range(queue[l])
      BY <3>1, <2>1 DEF Ordered, Known
    <3>2. CASE i \notin Range(queue[l])
      <4>1. i = n /\ l = Route(o)
        BY <3>2, <1>6
      <4> QED
        BY <4>1, <2>4, <2>5
    <3> QED
      BY <3>1, <3>2
  <2>8. ASSUME NEW w \in Workers, current'[w] # 0, Keyed(accepted'[current'[w]])
        PROVE  /\ Home(accepted'[current'[w]]) = w
               /\ \A i \in Range(queue'[<<"serial", w>>]) : current'[w] < i
    <3>1. current'[w] = current[w] /\ current[w] \in Positions
      BY <2>8 DEF Known
    <3>2. Keyed(accepted[current[w]]) /\ Home(accepted'[current[w]]) = Home(accepted[current[w]])
      BY <3>1, <2>8, <2>1
    <3>3. \A i \in Range(queue'[<<"serial", w>>]) : i \in Range(SerialQueue(w)) \/ i = n
      BY <1>6, <2>2
    <3>4. current[w] < n
      BY <3>1, <1>2
    <3> QED
      BY <2>8, <3>1, <3>2, <3>3, <3>4 DEF Ordered
  <2>9. ASSUME NEW w \in Workers PROVE Increasing(queue'[<<"serial", w>>])
    <3>1. CASE Route(o) # <<"serial", w>>
      BY <3>1, <1>6, <2>2 DEF Ordered
    <3>2. CASE Route(o) = <<"serial", w>>
      <4>1. SerialQueue(w) \in Seq(Nat) /\ n \in Nat
        BY <1>2, <2>2 DEF TypeOK, Ids
      <4>2. \A i \in Range(SerialQueue(w)) : i < n
        BY <2>3, <1>2
      <4>3. Increasing(Append(SerialQueue(w), n))
        BY <4>1, <4>2, IncreasingAppend DEF Ordered
      <4> QED
        BY <3>2, <4>3, <1>1, <2>2 DEF TypeOK
    <3> QED
      BY <3>1, <3>2
  <2> QED
    BY <2>6, <2>7, <2>8, <2>9 DEF Ordered
<1>12. Control' /\ Emptied'
  BY <1>7 DEF Control, Emptied
<1>13. Delivered'
  <2>1. \A i \in Range(executed) : accepted'[i] = accepted[i]
    BY <1>2 DEF Known
  <2> QED
    BY <2>1 DEF Delivered
<1>14. HaltPreservesAccepted'
  BY DEF HaltPreservesAccepted
<1> QED
  BY <1>8, <1>9, <1>10, <1>11, <1>12, <1>13, <1>14

\* Taking an operation off a lane preserves the invariant.
LEMMA TakeInv == ASSUME DatabaseInv, NEW w \in Workers, Take(w) PROVE DatabaseInv'
<1> USE DEF DatabaseInv
<1>1. PICK n \in DOMAIN Tries(w) :
        /\ queue[Tries(w)[n]] # <<>>
        /\ current' = [current EXCEPT ![w] = Head(queue[Tries(w)[n]])]
        /\ queue' = [queue EXCEPT ![Tries(w)[n]] = Tail(@)]
  BY DEF Take
<1> DEFINE l == Tries(w)[n]
           h == Head(queue[l])
<1>2. /\ phase[w] # "out" /\ current[w] = 0
      /\ quota' = [quota EXCEPT ![w] = @ - 1] /\ quota[w] > 0
      /\ processed' = [processed EXCEPT ![w] = TRUE]
      /\ UNCHANGED <<accepted, executed, applied, thread, phase, results, stopVars>>
  BY DEF Take, WithinCap
<1>3. l \in Lanes /\ (l = <<"serial", w>> \/ l[1] # "serial")
  BY <1>2, TriesLanes
<1>e. queue[l] # <<>>
  BY <1>1
<1> HIDE DEF l
<1>4. /\ h \in Ids /\ queue[l] \in Seq(Ids) /\ Tail(queue[l]) \in Seq(Ids)
      /\ Range(queue[l]) = {h} \cup Range(Tail(queue[l]))
  BY <1>1, <1>3, RangeTail DEF TypeOK, l
<1> HIDE DEF h
<1>5. /\ current' \in [Workers -> Ids \cup {0}] /\ current'[w] = h
      /\ \A v \in Workers : v # w => current'[v] = current[v]
  BY <1>1, <1>4 DEF TypeOK, l, h
<1>6. /\ queue' \in [Lanes -> Seq(Ids)] /\ queue'[l] = Tail(queue[l])
      /\ Range(queue[l]) = {h} \cup Range(queue'[l])
      /\ \A k \in Lanes : k # l => queue'[k] = queue[k]
  BY <1>1, <1>3, <1>4 DEF TypeOK, l
<1>7. server \notin Gone /\ workers > 0
  BY <1>2, WorkersAssumption DEF Control, TypeOK
<1>8. TypeOK'
  <2>1. quota' \in [Workers -> Nat]
    BY <1>2 DEF TypeOK
  <2>2. processed' \in [Workers -> BOOLEAN]
    BY <1>2 DEF TypeOK
  <2> QED
    BY <1>2, <1>5, <1>6, <2>1, <2>2 DEF TypeOK, stopVars
<1>9. h \in Positions
  BY <1>3, <1>6 DEF Known
<1>10. Known'
  BY <1>2, <1>3, <1>5, <1>6, <1>9 DEF Known, Positions
<1>11. Placed'
  <2> SUFFICES ASSUME NEW i \in Positions, i \notin Range(executed)
               PROVE  \/ \E k \in Lanes : i \in Range(queue'[k])
                      \/ \E v \in Workers : current'[v] = i
    BY <1>2 DEF Placed, Positions
  <2>1. CASE \E k \in Lanes : i \in Range(queue[k])
    BY <2>1, <1>3, <1>5, <1>6
  <2>2. CASE \E v \in Workers : current[v] = i
    <3>1. i # 0
      BY DEF Positions
    <3> QED
      BY <2>2, <3>1, <1>2, <1>5
  <2> QED
    BY <2>1, <2>2 DEF Placed
<1>12. Ordered'
  <2> USE DEF SerialQueue
  <2>0. queue[l] \in Seq(Nat)
    BY <1>4, IdsAreNumbers
  <2>1. \A k \in Lanes : \A i \in Range(queue'[k]) : i \in Range(queue[k])
    BY <1>3, <1>6
  <2>2. \A v \in Workers : <<"serial", v>> \in Lanes
    BY DEF Lanes
  <2>3. ASSUME NEW v \in Workers, current'[v] # 0, Keyed(accepted[current'[v]])
        PROVE  /\ Home(accepted[current'[v]]) = v
               /\ \A i \in Range(queue'[<<"serial", v>>]) : current'[v] < i
    <3>1. CASE v # w
      BY <3>1, <2>3, <1>5, <1>7, <2>1, <2>2 DEF Ordered
    <3>2. CASE v = w
      <4>1. l = <<"serial", w>>
        BY <3>2, <2>3, <1>3, <1>5, <1>6, <1>7 DEF Ordered
      <4>2. Increasing(queue[l])
        BY <4>1, <1>7 DEF Ordered
      <4>3. \A i \in Range(queue'[l]) : h < i
        BY <4>2, <1>e, <2>0, <1>6, IncreasingTail DEF h
      <4> QED
        BY <3>2, <4>1, <4>3, <1>5, <1>6, <1>7 DEF Ordered
    <3> QED
      BY <3>1, <3>2
  <2>4. ASSUME NEW v \in Workers PROVE Increasing(queue'[<<"serial", v>>])
    <3>1. CASE l # <<"serial", v>>
      BY <3>1, <1>6, <1>7, <2>2 DEF Ordered
    <3>2. CASE l = <<"serial", v>>
      <4>1. Increasing(queue[l])
        BY <3>2, <1>7 DEF Ordered
      <4> QED
        BY <3>2, <4>1, <1>e, <2>0, <1>6, IncreasingTail
    <3> QED
      BY <3>1, <3>2
  <2>5. \A v \in Workers : \A i \in Range(queue'[<<"serial", v>>]) :
            Keyed(accepted[i]) /\ Home(accepted[i]) = v
    BY <1>7, <2>1, <2>2 DEF Ordered
  <2>6. \A k \in Lanes : k[1] # "serial" => \A i \in Range(queue'[k]) : ~Keyed(accepted[i])
    BY <1>7, <2>1 DEF Ordered
  <2> QED
    BY <1>2, <2>3, <2>4, <2>5, <2>6 DEF Ordered, stopVars
<1>13. Control'
  BY <1>2, <1>5 DEF Control, stopVars
<1>14. Emptied'
  <2> SUFFICES ASSUME server = "destroying" PROVE Emptied'
    BY <1>2 DEF Emptied, stopVars
  <2>1. w = cursor /\ processed'[cursor] = TRUE
    BY <1>2 DEF Control, TypeOK
  <2>2. \A v \in Workers : v < cursor => \A k \in {"prioSerial", "priority", "serial"} :
            queue'[<<k, v>>] = <<>>
    <3>1. \A v \in Workers : \A k \in {"prioSerial", "priority", "serial"} : <<k, v>> \in Lanes
      BY DEF Lanes
    <3> QED
      BY <1>e, <1>6, <3>1 DEF Emptied, EmptyLanes
  <2> QED
    BY <1>2, <2>1, <2>2 DEF Emptied, EmptyLanes, stopVars
<1>15. Delivered' /\ HaltPreservesAccepted'
  BY <1>2 DEF Delivered, HaltPreservesAccepted, stopVars
<1> QED
  BY <1>8, <1>10, <1>11, <1>12, <1>13, <1>14, <1>15

\* Executing an operation, and handing over its result, preserves the invariant.
LEMMA ExecuteInv == ASSUME DatabaseInv, NEW w \in Workers, Execute(w) PROVE DatabaseInv'
<1> USE DEF DatabaseInv
<1> DEFINE i == current[w]
           o == accepted[current[w]]
<1>1. /\ i # 0 /\ i \notin Range(executed) /\ executed' = Append(executed, i)
      /\ UNCHANGED <<accepted, applied, queue, thread, phase, quota, processed, stopVars>>
  BY DEF Execute
<1>2. i \in Positions /\ i \in Ids
  BY <1>1 DEF Known, TypeOK, Ids
<1>3. executed' \in Seq(Ids) /\ Range(executed') = Range(executed) \cup {i}
  BY <1>1, <1>2, RangeAppend DEF TypeOK
<1>4. o \in Operations /\ o.high \in BOOLEAN
  <2>1. o \in Operations
    BY <1>2 DEF TypeOK, Positions
  <2> QED
    BY <2>1 DEF Operations
<1>5. \/ /\ IsRead(o) /\ results' = [results EXCEPT ![o.high] = Append(@, i)]
         /\ current' = [current EXCEPT ![w] = 0]
      \/ ~IsRead(o) /\ UNCHANGED <<results, current>>
  BY DEF Execute, IsRead
<1> HIDE DEF i, o
<1>6. /\ current' \in [Workers -> Ids \cup {0}] /\ current'[w] \in {i, 0}
      /\ \A v \in Workers : v # w => current'[v] = current[v]
  BY <1>5 DEF TypeOK, i
<1>7. \A v \in Workers : current'[v] = current[v] \/ (current'[v] = 0 /\ current[v] = i)
  BY <1>6 DEF i
<1>8. results' \in [BOOLEAN -> Seq(Ids)] /\ \A h \in BOOLEAN :
        \/ results'[h] = results[h] /\ (h # o.high \/ ~IsRead(o))
        \/ /\ h = o.high /\ IsRead(o) /\ results'[h] = Append(results[h], i)
           /\ Range(results'[h]) = Range(results[h]) \cup {i}
  <2>1. ASSUME NEW h \in BOOLEAN
        PROVE  /\ Append(results[h], i) \in Seq(Ids)
               /\ Range(Append(results[h], i)) = Range(results[h]) \cup {i}
    BY <1>2, RangeAppend DEF TypeOK
  <2>2. CASE UNCHANGED <<results, current>> /\ ~IsRead(o)
    BY <2>2 DEF TypeOK
  <2>3. CASE IsRead(o) /\ results' = [results EXCEPT ![o.high] = Append(@, i)]
    BY <2>1, <2>3, <1>4 DEF TypeOK
  <2> QED
    BY <1>5, <2>2, <2>3
<1>9. TypeOK'
  BY <1>1, <1>3, <1>6, <1>8 DEF TypeOK, stopVars
<1>10. Known'
  BY <1>1, <1>2, <1>3, <1>7 DEF Known, Positions
<1>11. Placed'
  BY <1>1, <1>3, <1>7 DEF Placed, Positions
<1>12. Ordered'
  BY <1>1, <1>7 DEF Ordered, SerialQueue, stopVars
<1>13. Control'
  BY <1>1, <1>7 DEF Control, stopVars
<1>14. Emptied'
  <2> SUFFICES ASSUME server = "destroying" PROVE Emptied'
    BY <1>1 DEF Emptied, stopVars
  <2>1. w = cursor
    BY <1>1 DEF Control, i
  <2>2. processed[cursor]
    BY <1>1, <2>1 DEF Emptied, i
  <2> QED
    BY <1>1, <2>2 DEF Emptied, EmptyLanes, stopVars
<1>15. Delivered'
  <2>1. \A h \in BOOLEAN : i \notin Range(results[h])
    BY <1>1 DEF Delivered
  <2>2. Range(applied) \subseteq Range(executed')
    BY <1>3 DEF Delivered
  <2>3. ASSUME NEW h \in BOOLEAN PROVE Distinct(results'[h])
    <3>1. results[h] \in Seq(Ids) /\ Distinct(results[h])
      BY DEF Delivered, TypeOK
    <3>2. Distinct(Append(results[h], i))
      BY <3>1, <1>2, <2>1, DistinctAppend
    <3> QED
      BY <1>8, <3>1, <3>2
  <2>4. ASSUME NEW h \in BOOLEAN, NEW j \in Range(results'[h])
        PROVE  /\ j \in Range(executed') \ Range(applied)
               /\ IsRead(accepted[j]) /\ accepted[j].high = h
    <3>1. CASE j \in Range(results[h])
      BY <3>1, <1>3 DEF Delivered
    <3>2. CASE j \notin Range(results[h])
      <4>1. j = i /\ h = o.high /\ IsRead(o)
        BY <3>2, <1>8
      <4> QED
        BY <4>1, <1>1, <1>3 DEF Delivered, o, i
    <3> QED
      BY <3>1, <3>2
  <2>5. ASSUME NEW j \in Range(executed'), IsRead(accepted[j])
        PROVE  j \in Range(applied) \/ j \in Range(results'[accepted[j].high])
    <3>1. CASE j = i
      BY <3>1, <2>5, <1>4, <1>8 DEF o, i
    <3>2. CASE j # i
      <4>1. accepted[j].high \in BOOLEAN
        <5>1. accepted[j] \in Operations
          BY <3>2, <1>3 DEF Known, TypeOK, Positions
        <5> QED
          BY <5>1 DEF Operations
      <4> QED
        BY <3>2, <4>1, <2>5, <1>3, <1>8 DEF Delivered
    <3> QED
      BY <3>1, <3>2
  <2>6. server \notin {"closing", "down"}
    BY <1>1 DEF Control, Gone, i
  <2> QED
    BY <1>1, <2>2, <2>3, <2>4, <2>5, <2>6 DEF Delivered, stopVars
<1>16. HaltPreservesAccepted'
  BY <1>1, <1>3 DEF HaltPreservesAccepted, stopVars
<1> QED
  BY <1>9, <1>10, <1>11, <1>12, <1>13, <1>14, <1>15, <1>16

\* A step that moves no operation and applies no callback keeps what is known
\* of operations and results.
LEMMA DataStays ==
    ASSUME DatabaseInv, workers' \in {workers, 0},
           UNCHANGED <<accepted, executed, applied, queue, current, results>>
    PROVE  Known' /\ Placed' /\ Ordered'
<1>1. Known' /\ Placed'
  BY DEF DatabaseInv, Known, Placed, Positions
<1>2. Ordered'
  BY DEF DatabaseInv, Ordered, SerialQueue
<1> QED
  BY <1>1, <1>2

\* The end of a loop of ProcessRequests preserves the invariant: an idle one
\* has found its lanes empty.
LEMMA NextPhaseInv == ASSUME DatabaseInv, NEW w \in Workers, NextPhase(w) PROVE DatabaseInv'
<1> USE BatchAssumption DEF DatabaseInv
<1>1. /\ phase[w] # "out" /\ current[w] = 0 /\ (quota[w] > 0 => Dry(w))
      /\ UNCHANGED <<accepted, executed, applied, queue, thread, current, processed,
                     results, stopVars>>
  BY DEF NextPhase, WithinCap
<1>2. /\ phase' \in [Workers -> {"out", "priority", "normal", "serial"}]
      /\ phase'[w] = CASE phase[w] = "priority" -> "normal"
                       [] phase[w] = "normal" -> "serial"
                       [] OTHER -> "out"
      /\ \A v \in Workers : v # w => phase'[v] = phase[v]
  BY DEF NextPhase, TypeOK
<1>3. /\ quota' \in [Workers -> Nat]
      /\ phase[w] = "priority" => quota'[w] = NormalBatch
      /\ phase[w] = "normal" => quota'[w] = SerialBatch
  BY DEF NextPhase, TypeOK
<1>4. TypeOK'
  BY <1>1, <1>2, <1>3 DEF TypeOK, stopVars
<1>5. Known' /\ Placed' /\ Ordered'
  BY <1>1, DataStays DEF stopVars
<1>6. Control'
  BY <1>1, <1>2 DEF Control, stopVars
<1>7. Emptied'
  <2> SUFFICES ASSUME server = "destroying", ~processed[w], w = cursor
               PROVE  /\ phase'[w] # "out" => quota'[w] > 0
                      /\ phase'[w] # "priority" => EmptyLanes(w, {"prioSerial", "priority"})
                      /\ phase'[w] \in {"serial", "out"} => queue[Shared] = <<>>
                      /\ phase'[w] = "out" => EmptyLanes(w, {"serial"})
    <3>1. server = "destroying" => w = cursor
      BY <1>1 DEF Control
    <3> QED
      BY <1>1, <3>1 DEF Emptied, EmptyLanes, stopVars
  <2>1. Dry(w)
    BY <1>1 DEF Emptied
  <2>2. CASE phase[w] = "priority"
    BY <2>1, <2>2, <1>2, <1>3, DryLanes
  <2>3. CASE phase[w] = "normal"
    BY <2>1, <2>3, <1>2, <1>3, DryLanes DEF Emptied
  <2>4. CASE phase[w] = "serial"
    BY <2>1, <2>4, <1>2, DryLanes DEF Emptied
  <2> QED
    BY <1>1, <2>2, <2>3, <2>4 DEF TypeOK
<1>8. Delivered' /\ HaltPreservesAccepted'
  BY <1>1 DEF Delivered, HaltPreservesAccepted, stopVars
<1> QED
  BY <1>4, <1>5, <1>6, <1>7, <1>8

\* What Enter does to the bodies.
LEMMA EnterFacts ==
    ASSUME TypeOK, NEW w \in Workers, Enter(w)
    PROVE  /\ phase' \in [Workers -> {"out", "priority", "normal", "serial"}]
           /\ quota' \in [Workers -> Nat] /\ processed' \in [Workers -> BOOLEAN]
           /\ phase'[w] = "priority" /\ quota'[w] > 0 /\ processed'[w] = FALSE
           /\ \A v \in Workers : v # w => phase'[v] = phase[v]
<1>1. quota' \in [Workers -> Nat] /\ quota'[w] > 0
  BY BatchAssumption DEF Enter, TypeOK
<1>2. processed' \in [Workers -> BOOLEAN] /\ processed'[w] = FALSE
  BY DEF Enter, TypeOK
<1> QED
  BY <1>1, <1>2 DEF Enter, TypeOK

\* The loop of SqlDelayThread::run preserves the invariant.
LEMMA PollInv == ASSUME DatabaseInv, NEW w \in Workers, Poll(w) PROVE DatabaseInv'
<1> USE DEF DatabaseInv
<1>1. /\ phase[w] = "out" /\ thread[w] \in {"running", "draining"}
      /\ UNCHANGED <<accepted, executed, applied, queue, current, results, stopVars>>
  BY DEF Poll, bodyVars
<1>2. /\ thread' \in [Workers -> {"running", "draining", "exited"}]
      /\ \A v \in Workers : v # w => thread'[v] = thread[v]
  BY DEF Poll, TypeOK
<1>3. \/ thread'[w] = "exited" /\ UNCHANGED <<phase, quota, processed>>
      \/ thread'[w] # "exited" /\ Enter(w)
  BY DEF Poll, TypeOK, bodyVars
<1>4. /\ phase' \in [Workers -> {"out", "priority", "normal", "serial"}]
      /\ quota' \in [Workers -> Nat] /\ processed' \in [Workers -> BOOLEAN]
      /\ \A v \in Workers : v # w => phase'[v] = phase[v]
      /\ thread'[w] = "exited" => phase'[w] = "out"
  BY <1>1, <1>3, EnterFacts DEF TypeOK
<1>5. server \in {"up", "joining"}
  BY <1>1 DEF Control
<1>6. TypeOK'
  BY <1>1, <1>2, <1>4 DEF TypeOK, stopVars
<1>7. Known' /\ Placed' /\ Ordered'
  BY <1>1, DataStays DEF stopVars
<1>8. Control'
  BY <1>1, <1>2, <1>4, <1>5 DEF Control, Gone, stopVars
<1>9. Emptied' /\ Delivered' /\ HaltPreservesAccepted'
  BY <1>1, <1>5 DEF Emptied, Delivered, HaltPreservesAccepted, stopVars
<1> QED
  BY <1>6, <1>7, <1>8, <1>9

\* Applying the first result of a lane preserves the invariant.
LEMMA ApplyInv ==
    ASSUME DatabaseInv, NEW h \in BOOLEAN, ApplyResult(h), calling' \in BOOLEAN
    PROVE  DatabaseInv'
<1> USE DEF DatabaseInv
<1> DEFINE i == Head(results[h])
<1>1. /\ results[h] # <<>> /\ applied' = Append(applied, i)
      /\ results' = [results EXCEPT ![h] = Tail(@)]
      /\ UNCHANGED <<accepted, queue, executed, thread, bodyVars, server, cursor,
                     drained, haltMark, workers, running>>
  BY DEF ApplyResult
<1>2. /\ i \in Ids /\ Tail(results[h]) \in Seq(Ids)
      /\ Range(results[h]) = {i} \cup Range(Tail(results[h]))
      /\ Distinct(Tail(results[h])) /\ i \notin Range(Tail(results[h]))
  <2>1. results[h] \in Seq(Ids) /\ Distinct(results[h])
    BY DEF TypeOK, Delivered
  <2> QED
    BY <2>1, <1>1, RangeTail, DistinctTail
<1> HIDE DEF i
<1>3. /\ results' \in [BOOLEAN -> Seq(Ids)] /\ results'[h] = Tail(results[h])
      /\ \A g \in BOOLEAN : g # h => results'[g] = results[g]
  BY <1>1, <1>2 DEF TypeOK
<1>4. applied' \in Seq(Ids) /\ Range(applied') = Range(applied) \cup {i}
  BY <1>1, <1>2, RangeAppend DEF TypeOK
<1>5. TypeOK'
  BY <1>1, <1>3, <1>4 DEF TypeOK, bodyVars
<1>6. Known' /\ Placed'
  BY <1>1 DEF Known, Placed, Positions, bodyVars
<1>7. Ordered'
  BY <1>1 DEF Ordered, SerialQueue, bodyVars
<1>8. Control' /\ Emptied' /\ HaltPreservesAccepted'
  BY <1>1 DEF Control, Emptied, EmptyLanes, HaltPreservesAccepted, bodyVars
<1>9. Delivered'
  <2>1. i \in Range(executed) /\ accepted[i].high = h
    BY <1>2 DEF Delivered
  <2>2. Range(applied') \subseteq Range(executed)
    BY <1>4, <2>1 DEF Delivered
  <2>3. \A g \in BOOLEAN : Distinct(results'[g])
    BY <1>2, <1>3 DEF Delivered
  <2>4. ASSUME NEW g \in BOOLEAN, NEW j \in Range(results'[g])
        PROVE  /\ j \in Range(executed) \ Range(applied')
               /\ IsRead(accepted[j]) /\ accepted[j].high = g
    <3>1. j \in Range(results[g]) /\ (g = h => j # i)
      BY <1>2, <1>3
    <3>2. j # i
      BY <3>1, <2>1 DEF Delivered
    <3> QED
      BY <3>1, <3>2, <1>4 DEF Delivered
  <2>5. ASSUME NEW j \in Range(executed), IsRead(accepted[j])
        PROVE  j \in Range(applied') \/ j \in Range(results'[accepted[j].high])
    <3>1. accepted[j].high \in BOOLEAN
      <4>1. accepted[j] \in Operations
        BY DEF Known, TypeOK, Positions
      <4> QED
        BY <4>1 DEF Operations
    <3> QED
      BY <2>5, <3>1, <1>2, <1>3, <1>4 DEF Delivered
  <2>6. server \notin {"closing", "down"}
    BY <1>1 DEF Delivered
  <2> QED
    BY <1>1, <2>2, <2>3, <2>4, <2>5, <2>6 DEF Delivered
<1> QED
  BY <1>5, <1>6, <1>7, <1>8, <1>9

\* HaltDelayThread up to the first body it drains preserves the invariant.
LEMMA JoinInv == ASSUME DatabaseInv, StopServer \/ JoinThreads PROVE DatabaseInv'
<1> USE DEF DatabaseInv
<1>1. CASE StopServer
  <2>1. /\ server = "up" /\ server' = "joining" /\ running' = FALSE
        /\ UNCHANGED <<accepted, executed, applied, queue, thread, bodyVars, results,
                       cursor, drained, calling, haltMark, workers>>
    BY <1>1 DEF StopServer
  <2>2. TypeOK'
    BY <2>1 DEF TypeOK, bodyVars
  <2>3. Known' /\ Placed' /\ Ordered'
    BY <2>1, DataStays DEF bodyVars
  <2>4. Control'
    BY <2>1 DEF Control, Gone, bodyVars
  <2>5. Emptied' /\ Delivered' /\ HaltPreservesAccepted'
    BY <2>1 DEF Emptied, Delivered, HaltPreservesAccepted
  <2> QED
    BY <2>2, <2>3, <2>4, <2>5
<1>2. CASE JoinThreads
  <2>1. /\ server = "joining" /\ \A w \in Workers : thread[w] = "exited"
        /\ server' = "draining" /\ cursor' = 0 /\ drained' = FALSE /\ Enter(0)
        /\ UNCHANGED <<accepted, executed, applied, queue, thread, current, results, calling,
                       haltMark, workers, running>>
    BY <1>2 DEF JoinThreads
  <2>2. 0 \in Workers
    BY WorkersAssumption DEF Workers
  <2>3. /\ phase' \in [Workers -> {"out", "priority", "normal", "serial"}]
        /\ quota' \in [Workers -> Nat] /\ processed' \in [Workers -> BOOLEAN]
        /\ phase'[0] = "priority" /\ \A w \in Workers : w # 0 => phase'[w] = phase[w]
    BY <2>1, <2>2, EnterFacts
  <2>4. TypeOK'
    BY <2>1, <2>2, <2>3 DEF TypeOK
  <2>5. Known' /\ Placed' /\ Ordered'
    BY <2>1, DataStays
  <2>6. Control'
    BY <2>1, <2>3 DEF Control, Gone
  <2>7. Emptied' /\ Delivered' /\ HaltPreservesAccepted'
    BY <2>1 DEF Emptied, Delivered, HaltPreservesAccepted
  <2> QED
    BY <2>4, <2>5, <2>6, <2>7
<1> QED
  BY <1>1, <1>2

\* Going on to another body, in the drain passes or in the destructors,
\* preserves the invariant.
LEMMA EnterInv ==
    ASSUME DatabaseInv, NEW c \in Workers, Enter(c), cursor' = c,
           server \in {"draining", "destroying"}, server' \in {"draining", "destroying"},
           phase[cursor] = "out", drained' \in BOOLEAN,
           server' = "destroying" =>
               \A w \in Workers : w < c => EmptyLanes(w, {"prioSerial", "priority", "serial"}),
           UNCHANGED <<accepted, executed, applied, queue, thread, current, results, calling,
                       haltMark, workers, running>>
    PROVE  DatabaseInv'
<1> USE DEF DatabaseInv
<1>1. /\ phase' \in [Workers -> {"out", "priority", "normal", "serial"}]
      /\ quota' \in [Workers -> Nat] /\ processed' \in [Workers -> BOOLEAN]
      /\ phase'[c] = "priority" /\ quota'[c] > 0
      /\ \A w \in Workers : w # c => phase'[w] = phase[w]
  BY EnterFacts
<1>2. \A w \in Workers : phase[w] = "out" /\ current[w] = 0
  BY DEF Control
<1>3. TypeOK'
  BY <1>1 DEF TypeOK
<1>4. Known' /\ Placed' /\ Ordered'
  BY DataStays
<1>5. Control'
  BY <1>1, <1>2 DEF Control, Gone
<1>6. Emptied'
  BY <1>1, <1>2 DEF Emptied, EmptyLanes
<1>7. Delivered' /\ HaltPreservesAccepted'
  BY DEF Delivered, HaltPreservesAccepted
<1> QED
  BY <1>3, <1>4, <1>5, <1>6, <1>7

\* The drain passes preserve the invariant.
LEMMA DrainNextInv == ASSUME DatabaseInv, DrainNext PROVE DatabaseInv'
<1> DEFINE last == cursor = NumWorkers - 1
           c == IF last THEN 0 ELSE cursor + 1
<1>1. /\ server = "draining" /\ phase[cursor] = "out"
      /\ server' \in {"draining", "destroying"} /\ (server' = "destroying" => last)
      /\ cursor' = c /\ drained' \in BOOLEAN /\ Enter(cursor')
      /\ UNCHANGED <<accepted, executed, applied, queue, thread, current, results,
                     calling, haltMark, workers, running>>
  BY DEF DrainNext
<1>2. cursor \in Workers
  BY DEF DatabaseInv, TypeOK
<1>3. c \in Workers /\ (last => \A w \in Workers : ~(w < c))
  BY <1>2, WorkersAssumption DEF Workers
<1>4. Enter(c)
  BY <1>1 DEF Enter
<1> HIDE DEF c
<1> QED
  BY <1>1, <1>3, <1>4, EnterInv

\* The destructors preserve the invariant; when the last one returns, every
\* lane is empty and so every accepted operation was executed.
LEMMA DestroyNextInv == ASSUME DatabaseInv, DestroyNext PROVE DatabaseInv'
<1> USE WorkersAssumption
<1>1. /\ server = "destroying" /\ phase[cursor] = "out" /\ cursor \in Workers
      /\ UNCHANGED <<accepted, executed, applied, queue, thread, current, results,
                     calling, drained, running>>
  BY DEF DestroyNext, DatabaseInv, TypeOK
<1>2. drained \in BOOLEAN
  BY DEF DatabaseInv, TypeOK
<1>3. CASE processed[cursor]
  <2>1. Enter(cursor) /\ UNCHANGED <<server, cursor, workers, haltMark>>
    BY <1>3 DEF DestroyNext, DestroyedDry
  <2>2. \A w \in Workers : w < cursor => EmptyLanes(w, {"prioSerial", "priority", "serial"})
    BY <1>1 DEF DatabaseInv, Emptied
  <2> QED
    BY <1>1, <1>2, <2>1, <2>2, EnterInv
<1>4. CASE ~processed[cursor] /\ cursor < NumWorkers - 1
  <2> DEFINE c == cursor + 1
  <2>1. cursor' = c /\ Enter(c) /\ UNCHANGED <<server, workers, haltMark>>
    BY <1>4 DEF DestroyNext, DestroyedDry, Enter
  <2>2. c \in Workers
    BY <1>1, <1>4 DEF Workers
  <2>3. ASSUME NEW w \in Workers, w < c
        PROVE  EmptyLanes(w, {"prioSerial", "priority", "serial"})
    <3>1. CASE w = cursor
      BY <3>1, <1>1, <1>4 DEF DatabaseInv, Emptied, EmptyLanes
    <3>2. CASE w # cursor
      <4>1. w < cursor
        BY <2>3, <3>2, <1>1 DEF Workers
      <4> QED
        BY <4>1, <1>1 DEF DatabaseInv, Emptied
    <3> QED
      BY <3>1, <3>2
  <2> HIDE DEF c
  <2> QED
    BY <1>1, <1>2, <2>1, <2>2, <2>3, EnterInv
<1>5. CASE ~processed[cursor] /\ ~(cursor < NumWorkers - 1)
  <2>1. /\ server' = "cancelling" /\ workers' = 0 /\ haltMark' = Len(accepted)
        /\ UNCHANGED <<cursor, phase, quota, processed>>
    BY <1>5 DEF DestroyNext, DestroyedDry
  <2>2. \A w \in Workers : phase[w] = "out" /\ current[w] = 0
    BY <1>1 DEF DatabaseInv, Control
  <2>3. \A l \in Lanes : queue[l] = <<>>
    <3>1. ASSUME NEW w \in Workers PROVE EmptyLanes(w, {"prioSerial", "priority", "serial"})
      <4>1. CASE w = cursor
        BY <4>1, <1>1, <1>5 DEF DatabaseInv, Emptied, EmptyLanes
      <4>2. CASE w # cursor
        <5>1. w < cursor
          BY <4>2, <1>1, <1>5 DEF Workers
        <5> QED
          BY <5>1, <1>1 DEF DatabaseInv, Emptied
      <4> QED
        BY <4>1, <4>2
    <3>2. queue[Shared] = <<>>
      BY <1>1, <1>5 DEF DatabaseInv, Emptied
    <3>3. ASSUME NEW l \in Lanes, l # Shared PROVE queue[l] = <<>>
      <4>1. PICK k \in {"serial", "priority", "prioSerial"}, w \in Workers : l = <<k, w>>
        BY <3>3 DEF Lanes
      <4> QED
        BY <4>1, <3>1 DEF EmptyLanes
    <3> QED
      BY <3>2, <3>3
  <2>4. \A i \in Positions : i \in Range(executed)
    <3>1. \A i \in Positions : i # 0
      BY DEF Positions
    <3> QED
      BY <2>2, <2>3, <3>1, RangeEmpty DEF DatabaseInv, Placed
  <2>5. TypeOK'
    <3>1. Len(accepted) \in 0 .. MaxOps
      BY BoundAssumption DEF DatabaseInv, TypeOK
    <3> QED
      BY <1>1, <2>1, <3>1 DEF DatabaseInv, TypeOK
  <2>6. Known' /\ Placed' /\ Ordered'
    BY <1>1, <2>1, DataStays
  <2>7. Control'
    BY <1>1, <2>1, <2>2 DEF DatabaseInv, Control, Gone
  <2>8. Emptied' /\ Delivered'
    BY <1>1, <2>1 DEF DatabaseInv, Emptied, Delivered
  <2>9. HaltPreservesAccepted'
    BY <1>1, <2>1, <2>4 DEF HaltPreservesAccepted, Positions
  <2> QED
    BY <2>5, <2>6, <2>7, <2>8, <2>9 DEF DatabaseInv
<1> QED
  BY <1>3, <1>4, <1>5

\* The end of StopServer preserves the invariant.
LEMMA CloseInv == ASSUME DatabaseInv, DeleteResultQueue \/ CloseConnections PROVE DatabaseInv'
<1> USE DEF DatabaseInv
<1>1. /\ server \in Gone /\ server' \in {"closing", "down"} /\ calling' \in BOOLEAN
      /\ \A h \in BOOLEAN : results[h] = <<>>
      /\ UNCHANGED <<accepted, executed, applied, queue, thread, bodyVars, results,
                     cursor, drained, haltMark, workers, running>>
  <2>1. CASE DeleteResultQueue
    BY <2>1 DEF DeleteResultQueue, CancelledAll, Gone
  <2>2. CASE CloseConnections
    BY <2>2 DEF CloseConnections, Delivered, Gone, TypeOK
  <2> QED
    BY <2>1, <2>2
<1>2. TypeOK'
  BY <1>1 DEF TypeOK, bodyVars
<1>3. Known' /\ Placed' /\ Ordered'
  BY <1>1, DataStays DEF bodyVars
<1>4. Control'
  BY <1>1 DEF Control, Gone, bodyVars
<1>5. Emptied' /\ Delivered'
  BY <1>1 DEF Emptied, Delivered
<1>6. HaltPreservesAccepted'
  BY <1>1 DEF HaltPreservesAccepted, Gone
<1> QED
  BY <1>2, <1>3, <1>4, <1>5, <1>6

\* The end of a write's callback preserves the invariant.
LEMMA CallbackInv == ASSUME DatabaseInv, NEW w \in Workers, Callback(w) PROVE DatabaseInv'
<1>1. /\ current[w] \in Range(executed) /\ current' = [current EXCEPT ![w] = 0]
      /\ UNCHANGED <<executed, applied, thread, phase, quota, processed, results, stopVars>>
  BY DEF Callback
<1>2. /\ current' \in [Workers -> Ids \cup {0}]
      /\ \A v \in Workers : \/ current'[v] = current[v]
                            \/ current'[v] = 0 /\ current[v] \in Range(executed)
  BY <1>1 DEF DatabaseInv, TypeOK
<1>3. CASE Enqueue
  BY <1>1, <1>2, <1>3, EnqueueInv
<1>4. CASE UNCHANGED <<accepted, queue>>
  <2> USE DEF DatabaseInv
  <2>1. TypeOK'
    BY <1>1, <1>2, <1>4 DEF TypeOK, stopVars
  <2>2. Known' /\ Placed'
    BY <1>1, <1>2, <1>4 DEF Known, Placed, Positions
  <2>3. Ordered'
    BY <1>1, <1>2, <1>4 DEF Ordered, SerialQueue, stopVars
  <2>4. Control' /\ Emptied'
    BY <1>1, <1>2, <1>4 DEF Control, Emptied, EmptyLanes, stopVars, TypeOK
  <2>5. Delivered' /\ HaltPreservesAccepted'
    BY <1>1, <1>4 DEF Delivered, HaltPreservesAccepted, stopVars
  <2> QED
    BY <2>1, <2>2, <2>3, <2>4, <2>5
<1> QED
  BY <1>3, <1>4 DEF Callback

\* Every step preserves the invariant.
LEMMA NextInv == DatabaseInv /\ [Next]_vars => DatabaseInv'
<1> SUFFICES ASSUME DatabaseInv, [Next]_vars PROVE DatabaseInv'
  OBVIOUS
<1>1. CASE Call \/ CancelledCallbackCalls
  <2>1. /\ Enqueue /\ UNCHANGED current
        /\ UNCHANGED <<executed, applied, thread, phase, quota, processed, results, stopVars>>
    BY <1>1 DEF Call, CancelledCallbackCalls, bodyVars
  <2> QED
    BY <2>1, EnqueueInv DEF DatabaseInv, TypeOK
<1>2. CASE Update
  BY <1>2, ApplyInv DEF Update, DatabaseInv, TypeOK
<1>3. CASE CancelOne
  BY <1>3, ApplyInv DEF CancelOne
<1>4. ASSUME NEW w \in Workers, BodyStep(w) \/ Poll(w) PROVE DatabaseInv'
  BY <1>4, TakeInv, ExecuteInv, CallbackInv, NextPhaseInv, PollInv DEF BodyStep
<1>5. CASE StopServer \/ JoinThreads
  BY <1>5, JoinInv
<1>6. CASE DrainNext
  BY <1>6, DrainNextInv
<1>7. CASE DestroyNext
  BY <1>7, DestroyNextInv
<1>8. CASE DeleteResultQueue \/ CloseConnections
  BY <1>8, CloseInv
<1>9. CASE UNCHANGED vars
  <2> USE <1>9 DEF DatabaseInv, vars, stopVars, bodyVars
  <2>1. TypeOK'
    BY DEF TypeOK
  <2>2. Known' /\ Placed' /\ Ordered'
    BY DataStays
  <2>3. Control' /\ Emptied'
    BY DEF Control, Emptied, EmptyLanes
  <2>4. Delivered' /\ HaltPreservesAccepted'
    BY DEF Delivered, HaltPreservesAccepted
  <2> QED
    BY <2>1, <2>2, <2>3, <2>4
<1> QED
  BY <1>1, <1>2, <1>3, <1>4, <1>5, <1>6, <1>7, <1>8, <1>9 DEF Next, StopStep, Terminated

\* It holds when the delay threads have been created.
LEMMA InitInv == Init => DatabaseInv
<1> SUFFICES ASSUME Init PROVE DatabaseInv
  OBVIOUS
<1> USE WorkersAssumption, BoundAssumption DEF Init
<1>1. TypeOK
  <2>1. 0 \in Workers /\ workers \in {0, NumWorkers} /\ haltMark \in 0 .. MaxOps
    BY DEF Workers
  <2>2. accepted \in Seq(Operations) /\ Len(accepted) <= MaxOps
    OBVIOUS
  <2>3. executed \in Seq(Ids) /\ applied \in Seq(Ids)
    OBVIOUS
  <2>4. queue \in [Lanes -> Seq(Ids)] /\ results \in [BOOLEAN -> Seq(Ids)]
    OBVIOUS
  <2>5. processed \in [Workers -> BOOLEAN]
    OBVIOUS
  <2> QED
    BY <2>1, <2>2, <2>3, <2>4, <2>5 DEF TypeOK
<1>2. \A w \in Workers : <<"serial", w>> \in Lanes
  BY DEF Lanes
<1>3. Known
  BY RangeEmpty DEF Known
<1>4. Placed
  BY DEF Placed, Positions
<1>5. Ordered
  BY <1>2, RangeEmpty DEF Ordered, SerialQueue, Increasing
<1>6. Control /\ Emptied /\ HaltPreservesAccepted
  BY DEF Control, Emptied, HaltPreservesAccepted, Gone
<1>7. Delivered
  BY RangeEmpty DEF Delivered, Distinct
<1> QED
  BY <1>1, <1>3, <1>4, <1>5, <1>6, <1>7 DEF DatabaseInv

-----------------------------------------------------------------------------
(* The theorems                                                             *)

\* Where operations and results are, in every state of every instance.
THEOREM Invariance == Spec => []DatabaseInv
  BY InitInv, NextInv, PTL DEF Spec

\* HaltDelayThread executes everything that was accepted before it zeroed
\* m_numAsyncWorkers.
THEOREM HaltIsComplete == Spec => []HaltPreservesAccepted
<1>1. DatabaseInv => HaltPreservesAccepted
  BY DEF DatabaseInv
<1> QED
  BY <1>1, Invariance, PTL

\* By the end of StopServer every executed query has had its callback.
THEOREM CallbacksAreNotLost == Spec => []NoCallbackLost
<1>1. DatabaseInv => NoCallbackLost
  <2> SUFFICES ASSUME DatabaseInv, server = "down", NEW i \in Range(executed),
                      IsRead(accepted[i])
               PROVE  i \in Range(applied)
    BY DEF NoCallbackLost
  <2>1. accepted[i].high \in BOOLEAN
    <3>1. accepted[i] \in Operations
      BY DEF DatabaseInv, Known, TypeOK, Positions
    <3> QED
      BY <3>1 DEF Operations
  <2>2. Range(results[accepted[i].high]) = {}
    BY <2>1, RangeEmpty DEF DatabaseInv, Delivered
  <2> QED
    BY <2>2 DEF DatabaseInv, Delivered
<1> QED
  BY <1>1, Invariance, PTL

\* When a body executes an operation of an ordered class, every earlier
\* operation of the class was executed: it could only be in the same lane,
\* behind it, or in the same body.
LEMMA ExecuteFollows ==
    ASSUME DatabaseInv, NEW w \in Workers, current[w] # 0, NEW j \in Positions,
           j < current[w], j \notin Range(executed), Keyed(accepted[current[w]]),
           OrderClass(accepted[j]) = OrderClass(accepted[current[w]])
    PROVE  FALSE
<1> DEFINE i == current[w]
<1>1. workers > 0
  BY WorkersAssumption DEF DatabaseInv, Control, Gone, TypeOK
<1>2. i \in Positions
  BY DEF DatabaseInv, Known
<1>3. /\ OrderClass(accepted[j]) = <<accepted[j].serial>>
      /\ OrderClass(accepted[i]) = <<accepted[i].serial>>
  BY DEF OrderClass, Keyed
<1>4. Keyed(accepted[j]) /\ Home(accepted[j]) = Home(accepted[i])
  <2>1. \A x, y : <<x>> = <<y>> => x = y
    OBVIOUS
  <2>2. <<accepted[j].serial>> = <<accepted[i].serial>>
    BY <1>3
  <2> HIDE DEF i
  <2>3. accepted[j].serial = accepted[i].serial
    BY <2>1, <2>2, Zenon
  <2> QED
    BY <2>3 DEF Keyed, Home, i
<1>5. Home(accepted[i]) = w /\ \A k \in Range(SerialQueue(w)) : i < k
  BY <1>1 DEF DatabaseInv, Ordered
<1>6. i \in Nat /\ j \in Nat /\ j # 0
  BY <1>2 DEF DatabaseInv, TypeOK, Positions
<1> HIDE DEF i
<1>7. CASE \E v \in Workers : current[v] = j
  <2>1. PICK v \in Workers : current[v] = j
    BY <1>7
  <2>2. v = w
    BY <2>1, <1>1, <1>4, <1>5, <1>6 DEF DatabaseInv, Ordered
  <2> QED
    BY <2>1, <2>2, <1>6 DEF i
<1>8. CASE \E l \in Lanes : j \in Range(queue[l])
  <2>1. PICK l \in Lanes : j \in Range(queue[l])
    BY <1>8
  <2>2. l[1] = "serial"
    BY <2>1, <1>1, <1>4 DEF DatabaseInv, Ordered
  <2>3. PICK v \in Workers : l = <<"serial", v>>
    BY <2>2 DEF Lanes, Shared
  <2>4. v = w
    BY <2>1, <2>3, <1>1, <1>4, <1>5 DEF DatabaseInv, Ordered, SerialQueue
  <2>5. i < j
    BY <2>1, <2>3, <2>4, <1>5 DEF SerialQueue
  <2> QED
    BY <2>5, <1>6 DEF i
<1> QED
  BY <1>7, <1>8 DEF DatabaseInv, Placed

\* A step of the database is a step of DelayedWork, or leaves what DelayedWork
\* speaks of alone.
LEMMA StepKeepsPromise ==
    ASSUME DatabaseInv, [Next]_vars PROVE [Promise!Next]_(Promise!vars)
<1> USE DEF Promise!vars
<1>a. \A s : Promise!Range(s) = Range(s)
  BY DEF Promise!Range, Range
<1>d. DOMAIN accepted = Positions
  BY DEF DatabaseInv, TypeOK, Positions
<1>1. ASSUME Enqueue, UNCHANGED <<executed, applied>> PROVE Promise!Next
  BY <1>1 DEF Enqueue, Promise!Next, Promise!Accept
<1>2. ASSUME NEW h \in BOOLEAN, ApplyResult(h) PROVE Promise!Next
  <2> DEFINE i == Head(results[h])
  <2>1. results[h] # <<>> /\ results[h] \in Seq(Ids) /\ applied' = Append(applied, i)
        /\ UNCHANGED <<accepted, executed>>
    BY <1>2 DEF ApplyResult, DatabaseInv, TypeOK
  <2>2. i \in Range(results[h])
    BY <2>1, RangeTail
  <2>3. i \in Range(executed) \ Range(applied) /\ IsRead(accepted[i])
    BY <2>2 DEF DatabaseInv, Delivered
  <2>4. i \in DOMAIN accepted
    BY <2>3, <1>d DEF DatabaseInv, Known
  <2> HIDE DEF i
  <2>5. Promise!Apply(i)
    BY <1>a, <2>1, <2>3 DEF Promise!Apply
  <2> QED
    BY <2>4, <2>5 DEF Promise!Next
<1>3. ASSUME NEW w \in Workers, Execute(w) PROVE Promise!Next
  <2> DEFINE i == current[w]
  <2>1. /\ i # 0 /\ i \notin Range(executed) /\ executed' = Append(executed, i)
        /\ UNCHANGED <<accepted, applied>>
    BY <1>3 DEF Execute
  <2>2. i \in Positions
    BY <2>1 DEF DatabaseInv, Known
  <2>3. Promise!MustFollow(i) \subseteq Range(executed)
    <3> SUFFICES ASSUME NEW j \in 1 .. i - 1, j \notin Range(executed),
                        OrderClass(accepted[j]) = OrderClass(accepted[i]),
                        OrderClass(accepted[i]) # <<>>
                 PROVE  FALSE
      BY DEF Promise!MustFollow, Promise!Unordered
    <3>1. j \in Positions /\ j < i
      BY <2>2 DEF Positions, DatabaseInv, TypeOK
    <3> QED
      BY <2>1, <3>1, ExecuteFollows DEF Keyed
  <2> HIDE DEF i
  <2>4. Promise!Perform(i)
    BY <1>a, <2>1, <2>3 DEF Promise!Perform
  <2> QED
    BY <1>d, <2>2, <2>4 DEF Promise!Next
<1>4. CASE Call \/ CancelledCallbackCalls
  BY <1>1, <1>4 DEF Call, CancelledCallbackCalls
<1>5. CASE Update \/ CancelOne
  BY <1>2, <1>5 DEF Update, CancelOne
<1>6. ASSUME NEW w \in Workers, BodyStep(w) \/ Poll(w) PROVE [Promise!Next]_(Promise!vars)
  <2>1. CASE Take(w)
    BY <2>1 DEF Take
  <2>2. CASE Execute(w)
    BY <2>2, <1>3
  <2>3. CASE Callback(w)
    BY <2>3, <1>1 DEF Callback
  <2>4. CASE NextPhase(w)
    BY <2>4 DEF NextPhase
  <2>5. CASE Poll(w)
    BY <2>5 DEF Poll
  <2> QED
    BY <1>6, <2>1, <2>2, <2>3, <2>4, <2>5 DEF BodyStep
<1>7. CASE StopServer \/ JoinThreads \/ DrainNext \/ DestroyNext
  BY <1>7 DEF StopServer, JoinThreads, DrainNext, DestroyNext
<1>8. CASE DeleteResultQueue \/ CloseConnections \/ UNCHANGED vars
  BY <1>8 DEF DeleteResultQueue, CloseConnections, vars
<1> QED
  BY <1>4, <1>5, <1>6, <1>7, <1>8 DEF Next, StopStep, Terminated

\* Database, its delay threads and its result queue implement DelayedWork:
\* nothing is executed twice, the order classes keep their order, and a
\* callback is applied once and after its query.
THEOREM ImplementsDelayedWork == Spec => KeepsPromise
<1>1. Init => Promise!Init
  BY DEF Init, Promise!Init
<1>2. DatabaseInv /\ [Next]_vars => [Promise!Next]_(Promise!vars)
  BY StepKeepsPromise
<1> QED
  BY <1>1, <1>2, Invariance, PTL DEF Spec, KeepsPromise, Promise!Spec
=============================================================================
