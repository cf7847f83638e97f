----------------------------- MODULE TradeProofs -----------------------------
(***************************************************************************)
(* For any number of players, items, slots and database workers: two trade      *)
(* windows always face each other, a deal is made only about offers that both  *)
(* have accepted, and it gives each what the other offered as far as the item  *)
(* limits admit it.  For one worker: the deals reach the rows.                 *)
(*                                                                         *)
(* The invariant speaks of the windows t and of the players st who stirred     *)
(* them in this second, so that the lemmas about TradeData's operations can    *)
(* be stated for any windows.                                                  *)
(***************************************************************************)
EXTENDS Trade, FiniteSetTheorems, SequenceTheorems, WellFoundedInduction, TLAPS

Offer == [items : [Slots -> Items \cup {Nobody}], money : Nat,
          spell : Spells \cup {Nobody}]

TradeData ==
    [open : BOOLEAN, with : Players \cup {Nobody},
     items : [Slots -> Items \cup {Nobody}], money : Nat,
     spell : Spells \cup {Nobody}, accepted : BOOLEAN, fresh : BOOLEAN,
     seen : [mine : Offer \cup {Nobody}, his : Offer \cup {Nobody}]]

Windows == [Players -> TradeData]

\* Two windows always face each other: nobody's m_trade points to a player
\* whose own m_trade is closed or belongs to a third one.
Paired(t) ==
    \A p \in Players : t[p].open => /\ t[p].with \in Players /\ t[p].with # p
                                    /\ t[t[p].with].open /\ t[t[p].with].with = p

\* Who has accepted still sees the offers he accepted.
Sees(t, p) ==
    t[p].accepted => t[p].seen = [mine |-> OfferOf(t, p), his |-> OfferOf(t, t[p].with)]

AllSee(t) == \A p \in Players : t[p].open => Sees(t, p)

\* A window that was stirred in this second is marked on both sides.
Marks(t, st) ==
    \A p \in st : p \in Players /\ t[p].open /\ t[p].fresh /\ t[t[p].with].fresh

WindowsOK(t, st) == t \in Windows /\ Paired(t) /\ AllSee(t) /\ Marks(t, st)

\* The windows of everybody but p and his trader q are left alone, and these two
\* still face each other.
LeavesOthers(t, u, p, q) ==
    /\ u \in Windows
    /\ \A r \in Players \ {p, q} : u[r] = t[r]
    /\ u[p].open /\ u[q].open /\ u[p].with = q /\ u[q].with = p

\* A change of two facing windows keeps what holds of all of them.
LEMMA TwoWindows ==
    ASSUME NEW t, NEW u, NEW st, NEW sv, NEW p \in Players, NEW q \in Players,
           WindowsOK(t, st), t[p].open, t[p].with = q,
           LeavesOthers(t, u, p, q), Sees(u, p), Sees(u, q),
           sv \subseteq st \cup {p, q},
           p \in sv \/ q \in sv => u[p].fresh /\ u[q].fresh
    PROVE  WindowsOK(u, sv)
<1>1. p # q /\ t[q].open /\ t[q].with = p
  BY DEF WindowsOK, Paired
<1>2. ASSUME NEW r \in Players \ {p, q}, t[r].open
      PROVE  /\ u[r] = t[r] /\ t[r].with \in Players \ {p, q}
             /\ u[t[r].with] = t[t[r].with]
  BY <1>1, <1>2 DEF WindowsOK, Paired, LeavesOthers
<1>3. Paired(u)
  <2> SUFFICES ASSUME NEW r \in Players, u[r].open
               PROVE  /\ u[r].with \in Players /\ u[r].with # r
                      /\ u[u[r].with].open /\ u[u[r].with].with = r
    BY DEF Paired
  <2>1. CASE r \in {p, q}
    BY <2>1, <1>1 DEF LeavesOthers
  <2>2. CASE r \notin {p, q}
    BY <2>2, <1>2 DEF WindowsOK, Paired, LeavesOthers
  <2> QED
    BY <2>1, <2>2
<1>4. AllSee(u)
  <2> SUFFICES ASSUME NEW r \in Players, u[r].open
               PROVE  Sees(u, r)
    BY DEF AllSee
  <2>1. CASE r \in {p, q}
    BY <2>1
  <2>2. CASE r \notin {p, q}
    BY <2>2, <1>2 DEF WindowsOK, AllSee, LeavesOthers, Sees, OfferOf
  <2> QED
    BY <2>1, <2>2
<1>5. Marks(u, sv)
  <2> SUFFICES ASSUME NEW r \in sv
               PROVE  r \in Players /\ u[r].open /\ u[r].fresh /\ u[u[r].with].fresh
    BY DEF Marks
  <2>1. CASE r \in {p, q}
    BY <2>1 DEF LeavesOthers
  <2>2. CASE r \notin {p, q}
    BY <2>2, <1>2 DEF WindowsOK, Marks
  <2> QED
    BY <2>1, <2>2
<1> QED
  BY <1>3, <1>4, <1>5 DEF WindowsOK, LeavesOthers

-----------------------------------------------------------------------------
(* What TradeData's operations do to two facing windows                     *)

Facing(t, p, q) ==
    /\ p \in Players /\ q \in Players /\ p # q
    /\ LeavesOthers(t, t, p, q)

\* u is t, or t with p's offer changed and nobody's acceptance left.
Cleared(t, u, p, q) ==
    /\ LeavesOthers(t, u, p, q)
    /\ u[p].fresh = t[p].fresh /\ u[q].fresh = t[q].fresh
    /\ u = t \/ (~u[p].accepted /\ ~u[q].accepted)

LEMMA NewTradeType ==
    ASSUME NEW q \in Players \cup {Nobody}
    PROVE  NewTrade(q) \in TradeData /\ NoTrade \in TradeData
BY DEF NewTrade, NoTrade, TradeData, Unseen, Offer

LEMMA WithdrawnType ==
    ASSUME NEW d \in TradeData
    PROVE  /\ Withdrawn(d) \in TradeData /\ ~Withdrawn(d).accepted
           /\ Withdrawn(d).open = d.open /\ Withdrawn(d).with = d.with
           /\ Withdrawn(d).items = d.items /\ Withdrawn(d).money = d.money
           /\ Withdrawn(d).spell = d.spell /\ Withdrawn(d).fresh = d.fresh
BY DEF Withdrawn, TradeData, Unseen

\* Both acceptances are withdrawn after p's window became d.
LEMMA UnacceptedClears ==
    ASSUME NEW t, NEW p, NEW q, Facing(t, p, q),
           NEW d \in TradeData, d.open, d.with = q, d.fresh = t[p].fresh,
           NEW u, u = Unaccepted([t EXCEPT ![p] = d], p)
    PROVE  Cleared(t, u, p, q) /\ u[p] = Withdrawn(d) /\ u[q] = Withdrawn(t[q])
<1> DEFINE s == [t EXCEPT ![p] = d]
<1>1. /\ p \in Players /\ q \in Players /\ p # q /\ t \in Windows
      /\ t[p].open /\ t[q].open /\ t[p].with = q /\ t[q].with = p
  BY DEF Facing, LeavesOthers
<1>2. s \in Windows /\ s[p] = d /\ s[q] = t[q] /\ \A r \in Players \ {p} : s[r] = t[r]
  BY <1>1 DEF Windows
<1>3. u = [s EXCEPT ![p] = Withdrawn(s[p]), ![q] = Withdrawn(s[q])]
  <2>1. s[p].with = q
    BY <1>2
  <2>2. u = [s EXCEPT ![p] = Withdrawn(@), ![s[p].with] = Withdrawn(@)]
    BY DEF Unaccepted
  <2> HIDE DEF s
  <2>3. u = [s EXCEPT ![p] = Withdrawn(@), ![q] = Withdrawn(@)]
    BY <2>1, <2>2
  <2> QED
    BY <1>1, <2>3
<1>4. Withdrawn(d) \in TradeData /\ Withdrawn(t[q]) \in TradeData
  BY <1>1, WithdrawnType DEF Windows
<1>5. /\ u \in Windows /\ u[p] = Withdrawn(d) /\ u[q] = Withdrawn(t[q])
      /\ \A r \in Players \ {p, q} : u[r] = t[r]
  <2> DEFINE A == Withdrawn(d)
             B == Withdrawn(t[q])
  <2>1. u = [s EXCEPT ![p] = A, ![q] = B] /\ A \in TradeData /\ B \in TradeData
    BY <1>2, <1>3, <1>4
  <2> HIDE DEF s, A, B
  <2>2. u \in Windows
    BY <1>1, <1>2, <2>1 DEF Windows
  <2>3. u[p] = A /\ u[q] = B
    BY <1>1, <1>2, <2>1 DEF Windows
  <2>4. \A r \in Players \ {p, q} : u[r] = t[r]
    BY <1>1, <1>2, <2>1 DEF Windows
  <2> QED
    BY <2>2, <2>3, <2>4 DEF A, B
<1>6. t[q] \in TradeData
  BY <1>1 DEF Windows
<1>7. /\ u[p].open /\ u[q].open /\ u[p].with = q /\ u[q].with = p
      /\ ~u[p].accepted /\ ~u[q].accepted
      /\ u[p].fresh = t[p].fresh /\ u[q].fresh = t[q].fresh
  <2> HIDE DEF s
  <2> QED
    BY <1>1, <1>5, <1>6, WithdrawnType
<1> HIDE DEF s
<1>8. Cleared(t, u, p, q)
  BY <1>5, <1>7 DEF Cleared, LeavesOthers
<1> QED
  BY <1>5, <1>8

LEMMA SetMoneyClears ==
    ASSUME NEW t, NEW p, NEW q, Facing(t, p, q), NEW amount \in Nat
    PROVE  Cleared(t, SetMoney(t, p, amount), p, q)
<1> DEFINE d == [t[p] EXCEPT !.money = amount]
<1>1. t \in Windows /\ p \in Players /\ t[p].open /\ t[p].with = q
  BY DEF Facing, LeavesOthers
<1>2. t[p] \in TradeData
  BY <1>1 DEF Windows
<1>3. d \in TradeData /\ d.open /\ d.with = q /\ d.fresh = t[p].fresh
  BY <1>1, <1>2 DEF TradeData
<1>4. Cleared(t, t, p, q)
  BY DEF Facing, Cleared
<1>5. [t EXCEPT ![p].money = amount] = [t EXCEPT ![p] = d]
  OBVIOUS
<1>6. Cleared(t, Unaccepted([t EXCEPT ![p] = d], p), p, q)
  BY <1>3, UnacceptedClears
<1> QED
  BY <1>4, <1>5, <1>6 DEF SetMoney

LEMMA SetSpellClears ==
    ASSUME NEW t, NEW p, NEW q, Facing(t, p, q), NEW spell \in Spells \cup {Nobody}
    PROVE  /\ Cleared(t, SetSpell(t, p, spell), p, q)
           /\ SetSpell(t, p, spell)[p].items = t[p].items
           /\ SetSpell(t, p, spell)[p].money = t[p].money
<1> DEFINE d == [t[p] EXCEPT !.spell = spell]
           u == Unaccepted([t EXCEPT ![p] = d], p)
<1>1. t \in Windows /\ p \in Players /\ t[p].open /\ t[p].with = q
  BY DEF Facing, LeavesOthers
<1>2. t[p] \in TradeData
  BY <1>1 DEF Windows
<1>3. /\ d \in TradeData /\ d.open /\ d.with = q /\ d.fresh = t[p].fresh
      /\ d.items = t[p].items /\ d.money = t[p].money
  BY <1>1, <1>2 DEF TradeData
<1>4. Cleared(t, t, p, q)
  BY DEF Facing, Cleared
<1>5. [t EXCEPT ![p].spell = spell] = [t EXCEPT ![p] = d]
  OBVIOUS
<1>6. Cleared(t, u, p, q) /\ u[p] = Withdrawn(d)
  <2>1. u = Unaccepted([t EXCEPT ![p] = d], p)
    OBVIOUS
  <2> HIDE DEF u, d
  <2> QED
    BY <1>3, <2>1, UnacceptedClears
<1>7. u[p].items = t[p].items /\ u[p].money = t[p].money
  <2> HIDE DEF u, d
  <2> QED
    BY <1>3, <1>6, WithdrawnType
<1> QED
  BY <1>4, <1>5, <1>6, <1>7 DEF SetSpell

LEMMA ClearedTransitive ==
    ASSUME NEW t, NEW u, NEW v, NEW p, NEW q,
           Cleared(t, u, p, q), Cleared(u, v, p, q)
    PROVE  Cleared(t, v, p, q)
BY DEF Cleared, LeavesOthers

LEMMA ClearedSymmetric ==
    ASSUME NEW t, NEW u, NEW p, NEW q, Cleared(t, u, p, q)
    PROVE  Cleared(t, u, q, p)
BY DEF Cleared, LeavesOthers

\* After a change the two windows still face each other.
LEMMA ClearedFaces ==
    ASSUME NEW t, NEW u, NEW p, NEW q, Facing(t, p, q), Cleared(t, u, p, q)
    PROVE  Facing(u, p, q) /\ Facing(u, q, p)
BY DEF Facing, Cleared, LeavesOthers

LEMMA SetItemClears ==
    ASSUME NEW t, NEW p, NEW q, Facing(t, p, q),
           NEW slot \in Slots, NEW i \in Items \cup {Nobody}
    PROVE  Cleared(t, SetItem(t, p, slot, i), p, q)
<1> DEFINE d == [t[p] EXCEPT !.items[slot] = i]
           placed == Unaccepted([t EXCEPT ![p].items[slot] = i], p)
           other == IF slot = NonTraded THEN SetSpell(placed, q, Nobody) ELSE placed
           last == SetSpell(other, p, Nobody)
<1>1. t \in Windows /\ p \in Players /\ t[p].open /\ t[p].with = q
  BY DEF Facing, LeavesOthers
<1>2. t[p] \in TradeData
  BY <1>1 DEF Windows
<1>3. d \in TradeData /\ d.open /\ d.with = q /\ d.fresh = t[p].fresh
  BY <1>1, <1>2 DEF TradeData
<1>4. placed = Unaccepted([t EXCEPT ![p] = d], p)
  OBVIOUS
<1>5. SetItem(t, p, slot, i) = IF t[p].items[slot] = i THEN t ELSE last
  BY <1>1 DEF SetItem
<1> HIDE DEF d, placed
<1>6. Cleared(t, placed, p, q)
  BY <1>3, <1>4, UnacceptedClears
<1>7. Facing(placed, p, q) /\ Facing(placed, q, p)
  BY <1>6, ClearedFaces
<1>8. Cleared(placed, SetSpell(placed, q, Nobody), p, q)
  BY <1>7, SetSpellClears, ClearedSymmetric
<1>9. Cleared(placed, placed, p, q)
  BY <1>7 DEF Facing, Cleared
<1>10. Cleared(placed, other, p, q)
  BY <1>8, <1>9
<1> HIDE DEF other
<1>11. Facing(other, p, q)
  BY <1>7, <1>10, ClearedFaces
<1>12. Cleared(other, last, p, q)
  BY <1>11, SetSpellClears
<1> HIDE DEF last
<1>13. Cleared(t, last, p, q)
  BY <1>6, <1>10, <1>12, ClearedTransitive
<1>14. Cleared(t, t, p, q)
  BY DEF Facing, Cleared
<1> QED
  BY <1>5, <1>13, <1>14

-----------------------------------------------------------------------------
(* The handlers keep the windows in order                                   *)

LEMMA OpenFaces ==
    ASSUME NEW t, NEW st, WindowsOK(t, st), NEW p \in Players, t[p].open,
           NEW q, q = t[p].with
    PROVE  /\ Facing(t, p, q) /\ Facing(t, q, p)
           /\ Sees(t, p) /\ Sees(t, q) /\ t[p] \in TradeData /\ t[q] \in TradeData
           /\ p \in st \/ q \in st => t[p].fresh /\ t[q].fresh
<1>1. t \in Windows /\ q \in Players /\ q # p /\ t[q].open /\ t[q].with = p
  BY DEF WindowsOK, Paired
<1>2. Sees(t, p) /\ Sees(t, q)
  BY <1>1 DEF WindowsOK, AllSee
<1>3. p \in st \/ q \in st => t[p].fresh /\ t[q].fresh
  BY <1>1 DEF WindowsOK, Marks
<1> QED
  BY <1>1, <1>2, <1>3 DEF Facing, LeavesOthers, Windows

\* A change that leaves no acceptance, or no change.
LEMMA ClearedOK ==
    ASSUME NEW t, NEW st, WindowsOK(t, st), NEW p \in Players, t[p].open,
           NEW q, q = t[p].with, NEW u, Cleared(t, u, p, q)
    PROVE  WindowsOK(u, st)
<1>1. /\ q \in Players /\ Sees(t, p) /\ Sees(t, q)
      /\ p \in st \/ q \in st => t[p].fresh /\ t[q].fresh
  BY OpenFaces DEF Facing
<1>2. Sees(u, p) /\ Sees(u, q)
  BY <1>1 DEF Cleared, Sees
<1> QED
  BY <1>1, <1>2, TwoWindows DEF Cleared

\* Withdrawing one acceptance.
LEMMA WithdrawnOK ==
    ASSUME NEW t, NEW st, WindowsOK(t, st), NEW p \in Players, t[p].open
    PROVE  WindowsOK([t EXCEPT ![p] = Withdrawn(@)], st)
<1> DEFINE q == t[p].with
           W == Withdrawn(t[p])
           u == [t EXCEPT ![p] = W]
<1>1. /\ Facing(t, p, q) /\ Sees(t, q) /\ t[p] \in TradeData
      /\ p \in st \/ q \in st => t[p].fresh /\ t[q].fresh
  BY OpenFaces
<1>2. /\ W \in TradeData /\ W.open /\ W.with = q /\ ~W.accepted
      /\ W.items = t[p].items /\ W.money = t[p].money /\ W.spell = t[p].spell
      /\ W.fresh = t[p].fresh
  BY <1>1, WithdrawnType
<1>3. /\ q \in Players /\ q # p /\ t \in Windows /\ t[q].open /\ t[q].with = p
  BY <1>1 DEF Facing, LeavesOthers
<1> HIDE DEF W, q
<1>4. u \in Windows /\ u[p] = W /\ \A r \in Players \ {p} : u[r] = t[r]
  BY <1>2, <1>3 DEF Windows
<1> HIDE DEF u
<1>5. LeavesOthers(t, u, p, q)
  BY <1>2, <1>3, <1>4 DEF LeavesOthers
<1>6. Sees(u, p) /\ Sees(u, q)
  BY <1>1, <1>2, <1>3, <1>4 DEF Sees, OfferOf
<1>7. p \in st \/ q \in st => u[p].fresh /\ u[q].fresh
  BY <1>1, <1>2, <1>3, <1>4
<1>8. WindowsOK(u, st)
  BY <1>3, <1>5, <1>6, <1>7, TwoWindows DEF q
<1> QED
  BY <1>8 DEF u, W

\* A handler that marks both windows and withdraws q's acceptance, then changes
\* p's offer or not.
LEMMA ModifiedOK ==
    ASSUME NEW t, NEW st, WindowsOK(t, st), NEW p \in Players, t[p].open,
           NEW q, q = t[p].with, NEW sv, sv \subseteq st \cup {p},
           NEW v, Cleared(Modified(t, p), v, p, q)
    PROVE  WindowsOK(v, sv)
<1> DEFINE P == [t[p] EXCEPT !.fresh = TRUE]
           W == Withdrawn(t[q])
           Q == [W EXCEPT !.fresh = TRUE]
           u == Modified(t, p)
<1>1. Facing(t, p, q) /\ Sees(t, p) /\ t[p] \in TradeData /\ t[q] \in TradeData
  BY OpenFaces
<1>2. q \in Players /\ q # p /\ t \in Windows /\ t[q].open /\ t[q].with = p
  BY <1>1 DEF Facing, LeavesOthers
<1>3. /\ P \in TradeData /\ P.open /\ P.with = q /\ P.fresh
      /\ P.items = t[p].items /\ P.money = t[p].money /\ P.spell = t[p].spell
      /\ P.accepted = t[p].accepted /\ P.seen = t[p].seen
  BY <1>1 DEF TradeData
<1>4. /\ W \in TradeData /\ W.open /\ W.with = p /\ ~W.accepted
      /\ W.items = t[q].items /\ W.money = t[q].money /\ W.spell = t[q].spell
  BY <1>1, <1>2, WithdrawnType
<1>5. u = [t EXCEPT ![q] = Q, ![p] = P]
  BY <1>2 DEF Modified, Windows
<1> HIDE DEF W
<1>6. /\ Q \in TradeData /\ Q.open /\ Q.with = p /\ ~Q.accepted /\ Q.fresh
      /\ Q.items = t[q].items /\ Q.money = t[q].money /\ Q.spell = t[q].spell
  BY <1>4 DEF TradeData
<1> HIDE DEF P, Q, u
<1>7. u \in Windows
  BY <1>2, <1>3, <1>5, <1>6 DEF Windows
<1>8. u[p] = P /\ u[q] = Q
  BY <1>2, <1>5 DEF Windows
<1>9. \A r \in Players \ {p, q} : u[r] = t[r]
  BY <1>2, <1>5 DEF Windows
<1>10. Cleared(u, v, p, q)
  BY DEF u
<1>11. LeavesOthers(t, v, p, q)
  BY <1>9, <1>10 DEF Cleared, LeavesOthers
<1>12. Sees(u, p) /\ Sees(u, q)
  BY <1>1, <1>2, <1>3, <1>6, <1>8 DEF Sees, OfferOf
<1>13. Sees(v, p) /\ Sees(v, q)
  BY <1>10, <1>12 DEF Cleared, Sees
<1>14. v[p].fresh /\ v[q].fresh
  BY <1>3, <1>6, <1>8, <1>10 DEF Cleared
<1> QED
  BY <1>2, <1>11, <1>13, <1>14, TwoWindows

\* The windows Modified makes still face each other.
LEMMA ModifiedFaces ==
    ASSUME NEW t, NEW p, NEW q, Facing(t, p, q)
    PROVE  Facing(Modified(t, p), p, q)
<1> DEFINE P == [t[p] EXCEPT !.fresh = TRUE]
           W == Withdrawn(t[q])
           Q == [W EXCEPT !.fresh = TRUE]
           u == Modified(t, p)
<1>1. /\ p \in Players /\ q \in Players /\ q # p /\ t \in Windows
      /\ t[p].open /\ t[p].with = q /\ t[q].open /\ t[q].with = p
  BY DEF Facing, LeavesOthers
<1>2. t[p] \in TradeData /\ t[q] \in TradeData
  BY <1>1 DEF Windows
<1>3. P \in TradeData /\ P.open /\ P.with = q
  BY <1>1, <1>2 DEF TradeData
<1>4. W \in TradeData /\ W.open /\ W.with = p
  BY <1>1, <1>2, WithdrawnType
<1>5. u = [t EXCEPT ![q] = Q, ![p] = P]
  BY <1>1 DEF Modified, Windows
<1> HIDE DEF W
<1>6. Q \in TradeData /\ Q.open /\ Q.with = p
  BY <1>4 DEF TradeData
<1> HIDE DEF P, Q, u
<1>7. u \in Windows
  BY <1>1, <1>3, <1>5, <1>6 DEF Windows
<1>8. u[p] = P /\ u[q] = Q
  BY <1>1, <1>5 DEF Windows
<1>9. Facing(u, p, q)
  BY <1>1, <1>3, <1>6, <1>7, <1>8 DEF Facing, LeavesOthers
<1> QED
  BY <1>9 DEF u

LEMMA ClosedOK ==
    ASSUME NEW t, NEW st, WindowsOK(t, st), NEW p \in Players, t[p].open
    PROVE  WindowsOK(Closed(t, p), st \ {p, t[p].with})
<1> DEFINE q == t[p].with
           u == Closed(t, p)
<1>1. t \in Windows /\ q \in Players /\ q # p /\ t[q].open /\ t[q].with = p
  BY DEF WindowsOK, Paired
<1>2. NoTrade \in TradeData /\ ~NoTrade.open
  BY NewTradeType DEF NoTrade, NewTrade
<1>3. u = [t EXCEPT ![p] = NoTrade, ![q] = NoTrade]
  BY DEF Closed
<1> HIDE DEF u, q
<1>4. u \in Windows
  BY <1>1, <1>2, <1>3 DEF Windows
<1>5. ~u[p].open /\ ~u[q].open /\ \A r \in Players \ {p, q} : u[r] = t[r]
  BY <1>1, <1>2, <1>3 DEF Windows
<1>6. ASSUME NEW r \in Players, t[r].open, r \notin {p, q}
      PROVE  /\ u[r] = t[r] /\ t[r].with \in Players \ {p, q}
             /\ u[t[r].with] = t[t[r].with]
  BY <1>1, <1>5, <1>6 DEF WindowsOK, Paired, q
<1>7. Paired(u)
  BY <1>5, <1>6 DEF WindowsOK, Paired
<1>8. AllSee(u)
  BY <1>5, <1>6 DEF WindowsOK, AllSee, Sees, OfferOf
<1>9. Marks(u, st \ {p, q})
  BY <1>6 DEF WindowsOK, Marks
<1> QED
  BY <1>4, <1>7, <1>8, <1>9 DEF WindowsOK, u, q

\* Two closed windows become two fresh ones that face each other.
LEMMA OpenedOK ==
    ASSUME NEW t, NEW st, WindowsOK(t, st), NEW p \in Players, NEW q \in Players,
           p # q, ~t[p].open, ~t[q].open,
           NEW u, LeavesOthers(t, u, p, q), ~u[p].accepted, ~u[q].accepted
    PROVE  WindowsOK(u, st)
<1>1. ASSUME NEW r \in Players, t[r].open
      PROVE  /\ r \notin {p, q} /\ u[r] = t[r] /\ t[r].with \in Players \ {p, q}
             /\ u[t[r].with] = t[t[r].with]
  BY <1>1 DEF WindowsOK, Paired, LeavesOthers
<1>2. \A r \in Players : u[r].open => r \in {p, q} \/ t[r].open
  BY DEF LeavesOthers
<1>3. Paired(u)
  <2> SUFFICES ASSUME NEW r \in Players, u[r].open
               PROVE  /\ u[r].with \in Players /\ u[r].with # r
                      /\ u[u[r].with].open /\ u[u[r].with].with = r
    BY DEF Paired
  <2>1. CASE r \in {p, q}
    BY <2>1 DEF LeavesOthers
  <2>2. CASE t[r].open
    BY <2>2, <1>1 DEF WindowsOK, Paired
  <2> QED
    BY <1>2, <2>1, <2>2
<1>4. AllSee(u)
  <2> SUFFICES ASSUME NEW r \in Players, u[r].open
               PROVE  Sees(u, r)
    BY DEF AllSee
  <2>1. CASE r \in {p, q}
    BY <2>1 DEF Sees
  <2>2. CASE t[r].open
    BY <2>2, <1>1 DEF WindowsOK, AllSee, Sees, OfferOf
  <2> QED
    BY <1>2, <2>1, <2>2
<1>5. Marks(u, st)
  BY <1>1 DEF WindowsOK, Marks
<1> QED
  BY <1>3, <1>4, <1>5 DEF WindowsOK, LeavesOthers

\* Two players who do not trade begin to.
LEMMA BeginOK ==
    ASSUME NEW t, NEW st, WindowsOK(t, st), NEW p \in Players, NEW q \in Players,
           p # q, ~t[p].open, ~t[q].open
    PROVE  WindowsOK([t EXCEPT ![p] = NewTrade(q), ![q] = NewTrade(p)], st)
<1> DEFINE P == NewTrade(q)
           Q == NewTrade(p)
           u == [t EXCEPT ![p] = P, ![q] = Q]
<1>1. t \in Windows
  BY DEF WindowsOK
<1>2. /\ P \in TradeData /\ P.open /\ P.with = q /\ ~P.accepted
      /\ Q \in TradeData /\ Q.open /\ Q.with = p /\ ~Q.accepted
  BY NewTradeType DEF NewTrade
<1> HIDE DEF P, Q
<1>3. u \in Windows
  BY <1>1, <1>2 DEF Windows
<1>4. u[p] = P /\ u[q] = Q /\ \A r \in Players \ {p, q} : u[r] = t[r]
  BY <1>1 DEF Windows
<1> HIDE DEF u
<1>5. LeavesOthers(t, u, p, q)
  BY <1>2, <1>3, <1>4 DEF LeavesOthers
<1>6. WindowsOK(u, st)
  BY <1>2, <1>4, <1>5, OpenedOK
<1> QED
  BY <1>6 DEF u, P, Q

\* A new second: no window was modified in it yet.
LEMMA TickOK ==
    ASSUME NEW t, NEW st, WindowsOK(t, st), NEW u,
           u = [p \in Players |-> IF t[p].open THEN [t[p] EXCEPT !.fresh = FALSE]
                                  ELSE t[p]]
    PROVE  WindowsOK(u, {})
<1>1. t \in Windows
  BY DEF WindowsOK
<1>2. ASSUME NEW p \in Players
      PROVE  /\ u[p] \in TradeData
             /\ u[p].open = t[p].open /\ u[p].with = t[p].with
             /\ u[p].items = t[p].items /\ u[p].money = t[p].money
             /\ u[p].spell = t[p].spell /\ u[p].accepted = t[p].accepted
             /\ u[p].seen = t[p].seen
  <2>1. t[p] \in TradeData /\ u[p] = IF t[p].open THEN [t[p] EXCEPT !.fresh = FALSE] ELSE t[p]
    BY <1>1 DEF Windows
  <2> QED
    BY <2>1 DEF TradeData
<1>3. u \in Windows
  BY <1>2 DEF Windows
<1>4. Paired(u)
  BY <1>2 DEF WindowsOK, Paired
<1>5. AllSee(u)
  <2> SUFFICES ASSUME NEW p \in Players, t[p].open
               PROVE  Sees(u, p)
    BY <1>2 DEF AllSee
  <2>1. Sees(t, p) /\ t[p].with \in Players
    BY DEF WindowsOK, AllSee, Paired
  <2> QED
    BY <1>2, <2>1 DEF Sees, OfferOf
<1> QED
  BY <1>3, <1>4, <1>5 DEF WindowsOK, Marks

\* p accepts what the two windows show.
LEMMA AcceptedOK ==
    ASSUME WindowsOK(trade, stirred), NEW p \in Players, trade[p].open,
           NEW t, t = [trade EXCEPT ![p] = Accepted(p)]
    PROVE  WindowsOK(t, stirred) /\ t[p].open /\ t[p].with = trade[p].with
<1> DEFINE q == trade[p].with
           A == Accepted(p)
<1>1. /\ Facing(trade, p, q) /\ Sees(trade, q)
      /\ trade[p] \in TradeData /\ trade[q] \in TradeData
      /\ p \in stirred \/ q \in stirred => trade[p].fresh /\ trade[q].fresh
  BY OpenFaces
<1>2. /\ q \in Players /\ q # p /\ trade \in Windows
      /\ trade[q].open /\ trade[q].with = p
  BY <1>1 DEF Facing, LeavesOthers
<1>3. OfferOf(trade, p) \in Offer /\ OfferOf(trade, q) \in Offer
  BY <1>1 DEF OfferOf, Offer, TradeData
<1>4. A = [trade[p] EXCEPT !.accepted = TRUE, !.fresh = TRUE,
                           !.seen = [mine |-> OfferOf(trade, p), his |-> OfferOf(trade, q)]]
  BY DEF Accepted, Trader
<1> HIDE DEF A
<1>5. /\ A \in TradeData /\ A.open /\ A.with = q /\ A.fresh
      /\ A.items = trade[p].items /\ A.money = trade[p].money
      /\ A.spell = trade[p].spell
      /\ A.seen = [mine |-> OfferOf(trade, p), his |-> OfferOf(trade, q)]
  <2> DEFINE X == OfferOf(trade, p)
             Y == OfferOf(trade, q)
  <2>1. X \in Offer /\ Y \in Offer
    BY <1>3
  <2>2. A = [trade[p] EXCEPT !.accepted = TRUE, !.fresh = TRUE, !.seen = [mine |-> X, his |-> Y]]
    BY <1>4
  <2>3. trade[p] \in TradeData /\ trade[p].open /\ trade[p].with = q
    BY <1>1
  <2> HIDE DEF X, Y, q
  <2>4. A \in TradeData
    BY <2>1, <2>2, <2>3 DEF TradeData
  <2>5. /\ A.open /\ A.with = q /\ A.fresh
        /\ A.items = trade[p].items /\ A.money = trade[p].money
        /\ A.spell = trade[p].spell /\ A.seen = [mine |-> X, his |-> Y]
    BY <2>2, <2>3 DEF TradeData
  <2> QED
    BY <2>4, <2>5 DEF X, Y
<1> HIDE DEF q
<1>6. t = [trade EXCEPT ![p] = A]
  BY DEF A
<1>7. t \in Windows /\ t[p] = A /\ \A r \in Players \ {p} : t[r] = trade[r]
  BY <1>2, <1>5, <1>6 DEF Windows
<1>8. LeavesOthers(trade, t, p, q)
  BY <1>2, <1>5, <1>7 DEF LeavesOthers
<1>9. OfferOf(t, p) = OfferOf(trade, p) /\ OfferOf(t, q) = OfferOf(trade, q)
  BY <1>2, <1>5, <1>7 DEF OfferOf
<1>10. Sees(t, p)
  BY <1>5, <1>7, <1>9 DEF Sees
<1>11. Sees(t, q)
  BY <1>1, <1>2, <1>7, <1>9 DEF Sees
<1>12. p \in stirred \/ q \in stirred => t[p].fresh /\ t[q].fresh
  BY <1>1, <1>2, <1>5, <1>7
<1>13. WindowsOK(t, stirred)
  BY <1>2, <1>8, <1>10, <1>11, <1>12, TwoWindows DEF q
<1> QED
  BY <1>5, <1>7, <1>13 DEF q

\* No room: both acceptances are withdrawn and the partner's window is marked.
LEMMA NoRoomOK ==
    ASSUME NEW t, NEW st, WindowsOK(t, st), NEW p \in Players, t[p].open,
           NEW q, q = t[p].with,
           NEW v, v = [Unaccepted(t, p) EXCEPT ![q].fresh = TRUE]
    PROVE  WindowsOK(v, st)
<1> DEFINE u == Unaccepted([t EXCEPT ![p] = t[p]], p)
           Q == [u[q] EXCEPT !.fresh = TRUE]
<1>1. /\ Facing(t, p, q) /\ t[p] \in TradeData
      /\ p \in st \/ q \in st => t[p].fresh /\ t[q].fresh
  BY OpenFaces
<1>2. q \in Players /\ q # p /\ t \in Windows
  BY <1>1 DEF Facing, LeavesOthers
<1>3. [t EXCEPT ![p] = t[p]] = t
  BY <1>2 DEF Windows
<1>4. v = [u EXCEPT ![q] = Q]
  BY <1>3
<1>5. Cleared(t, u, p, q) /\ u[p] = Withdrawn(t[p]) /\ u[q] = Withdrawn(t[q])
  <2> DEFINE d == t[p]
  <2>1. /\ u = Unaccepted([t EXCEPT ![p] = d], p)
        /\ d \in TradeData /\ d.open /\ d.with = q /\ d.fresh = t[p].fresh
    BY <1>1
  <2> HIDE DEF u, d
  <2>2. Cleared(t, u, p, q) /\ u[p] = Withdrawn(d) /\ u[q] = Withdrawn(t[q])
    BY <1>1, <2>1, UnacceptedClears
  <2> QED
    BY <2>2 DEF d
<1> HIDE DEF u
<1>6. /\ u \in Windows /\ u[p].open /\ u[q].open /\ u[p].with = q /\ u[q].with = p
      /\ u[p].fresh = t[p].fresh
      /\ \A r \in Players \ {p, q} : u[r] = t[r]
  BY <1>5 DEF Cleared, LeavesOthers
<1>7. u[q] \in TradeData /\ ~u[p].accepted /\ ~u[q].accepted
  BY <1>1, <1>2, <1>5, <1>6, WithdrawnType DEF Windows
<1>8. Q \in TradeData /\ Q.open /\ Q.with = p /\ ~Q.accepted /\ Q.fresh
  BY <1>6, <1>7 DEF TradeData
<1> HIDE DEF Q
<1>9. v \in Windows /\ v[q] = Q /\ v[p] = u[p] /\ \A r \in Players \ {p, q} : v[r] = t[r]
  <2>1. u \in Windows /\ Q \in TradeData
    BY <1>6, <1>8
  <2>2. v \in Windows
    BY <1>4, <2>1 DEF Windows
  <2>3. v[q] = Q /\ \A r \in Players \ {q} : v[r] = u[r]
    BY <1>2, <1>4, <2>1 DEF Windows
  <2> QED
    BY <1>2, <1>6, <2>2, <2>3
<1>10. LeavesOthers(t, v, p, q)
  BY <1>6, <1>8, <1>9 DEF LeavesOthers
<1>11. Sees(v, p) /\ Sees(v, q)
  BY <1>7, <1>8, <1>9 DEF Sees
<1>12. p \in st \/ q \in st => v[p].fresh /\ v[q].fresh
  BY <1>1, <1>6, <1>8, <1>9
<1> QED
  BY <1>2, <1>10, <1>11, <1>12, TwoWindows

-----------------------------------------------------------------------------
(* The inductive invariant                                                  *)

IInv == WindowsOK(trade, stirred)

LEMMA InitOK == Init => IInv
<1> SUFFICES ASSUME Init PROVE IInv
  OBVIOUS
<1>1. trade = [p \in Players |-> NoTrade] /\ stirred = {}
  BY DEF Init
<1>2. NoTrade \in TradeData /\ ~NoTrade.open
  BY NewTradeType DEF NoTrade, NewTrade
<1> QED
  BY <1>1, <1>2 DEF IInv, WindowsOK, Windows, Paired, AllSee, Marks

\* A handler of the window that marks both sides and then changes p's offer.
LEMMA WindowOK ==
    ASSUME IInv, NEW p \in Players, trade[p].open, NEW t, Window(p, t),
           Cleared(Modified(trade, p), t, p, trade[p].with)
    PROVE  IInv'
<1>1. trade' = t /\ stirred' \subseteq stirred \cup {p}
  BY DEF Window
<1>2. WindowsOK(t, stirred')
  BY <1>1, ModifiedOK DEF IInv
<1> QED
  BY <1>1, <1>2 DEF IInv

\* HandleAcceptTradeOpcode leaves the windows in order, and when it makes a
\* deal, the partner has accepted what lies in the windows.
LEMMA AcceptOK ==
    ASSUME IInv, NEW p \in Players, HandleAcceptTrade(p)
    PROVE  IInv'
<1> DEFINE q == trade[p].with
           t == [trade EXCEPT ![p] = Accepted(p)]
<1>1. trade[p].open /\ q = Trader(p)
  BY DEF HandleAcceptTrade, IsOpen, Trader
<1>2. WindowsOK(trade, stirred)
  BY DEF IInv
<1>3. WindowsOK(t, stirred) /\ t[p].open /\ t[p].with = q
  BY <1>1, <1>2, AcceptedOK
<1>4. Facing(t, p, q) /\ Facing(t, q, p)
  <2> HIDE DEF t
  <2> QED
    BY <1>3, OpenFaces
<1>5. \/ Refuse(t)
      \/ Refuse([t EXCEPT ![p] = Withdrawn(@)])
      \/ Refuse([t EXCEPT ![q] = Withdrawn(@)])
      \/ Refuse(SetSpell(t, p, Nobody))
      \/ Refuse(SetSpell(t, q, Nobody))
      \/ Refuse([Unaccepted(t, p) EXCEPT ![q].fresh = TRUE])
      \/ Exchange(p, q)
  BY <1>1 DEF HandleAcceptTrade
<1> HIDE DEF t, q
<1>6. ASSUME NEW u, Refuse(u), WindowsOK(u, stirred)
      PROVE  IInv'
  BY <1>6 DEF Refuse, IInv
<1>7. CASE Refuse(t)
  BY <1>3, <1>6, <1>7
<1>8. CASE Refuse([t EXCEPT ![p] = Withdrawn(@)])
  BY <1>3, <1>6, <1>8, WithdrawnOK
<1>9. CASE Refuse([t EXCEPT ![q] = Withdrawn(@)])
  <2>1. q \in Players /\ t[q].open
    BY <1>4 DEF Facing, LeavesOthers
  <2> QED
    BY <1>3, <1>6, <1>9, <2>1, WithdrawnOK
<1>10. CASE Refuse(SetSpell(t, p, Nobody))
  <2>1. Cleared(t, SetSpell(t, p, Nobody), p, q)
    BY <1>4, SetSpellClears
  <2>2. WindowsOK(SetSpell(t, p, Nobody), stirred)
    BY <1>3, <2>1, ClearedOK
  <2> QED
    BY <1>6, <1>10, <2>2
<1>11. CASE Refuse(SetSpell(t, q, Nobody))
  <2>1. Cleared(t, SetSpell(t, q, Nobody), p, q)
    BY <1>4, SetSpellClears, ClearedSymmetric
  <2>2. WindowsOK(SetSpell(t, q, Nobody), stirred)
    BY <1>3, <2>1, ClearedOK
  <2> QED
    BY <1>6, <1>11, <2>2
<1>12. CASE Refuse([Unaccepted(t, p) EXCEPT ![q].fresh = TRUE])
  <2> DEFINE v == [Unaccepted(t, p) EXCEPT ![q].fresh = TRUE]
  <2>1. v = [Unaccepted(t, p) EXCEPT ![q].fresh = TRUE]
    OBVIOUS
  <2> HIDE DEF v
  <2>2. WindowsOK(v, stirred)
    BY <1>3, <2>1, NoRoomOK
  <2> QED
    BY <1>6, <1>12, <2>1, <2>2
<1>13. CASE Exchange(p, q)
  <2>1. trade' = Closed(trade, p) /\ stirred' = stirred \ {p, q}
    BY <1>13 DEF Exchange
  <2>2. WindowsOK(Closed(trade, p), stirred \ {p, q})
    BY <1>1, <1>2, ClosedOK DEF q
  <2> QED
    BY <2>1, <2>2 DEF IInv
<1> QED
  BY <1>5, <1>7, <1>8, <1>9, <1>10, <1>11, <1>12, <1>13

LEMMA NextOK == IInv /\ [Next]_vars => IInv'
<1> SUFFICES ASSUME IInv, [Next]_vars PROVE IInv'
  OBVIOUS
<1> USE NumberAssumption
<1>1. WindowsOK(trade, stirred)
  BY DEF IInv
<1>2. ASSUME NEW p \in Players, trade[p].open
      PROVE  /\ Facing(trade, p, trade[p].with)
             /\ Facing(Modified(trade, p), p, trade[p].with)
  BY <1>1, <1>2, OpenFaces, ModifiedFaces
<1>3. ASSUME NEW p \in Players, NEW q \in Players, BeginTrade(p, q)
      PROVE  IInv'
  <2>1. WindowsOK([trade EXCEPT ![p] = NewTrade(q), ![q] = NewTrade(p)], stirred)
    BY <1>1, <1>3, BeginOK DEF BeginTrade, IsOpen
  <2> QED
    BY <1>3, <2>1 DEF BeginTrade, IInv
<1>4. ASSUME NEW p \in Players, HandleSetTradeGold(p)
      PROVE  IInv'
  <2>1. PICK amount \in 0 .. MaxMoney :
               Window(p, SetMoney(Modified(trade, p), p, amount))
    BY <1>4 DEF HandleSetTradeGold
  <2>2. trade[p].open /\ amount \in Nat
    BY <1>4 DEF HandleSetTradeGold, IsOpen
  <2>3. Cleared(Modified(trade, p), SetMoney(Modified(trade, p), p, amount),
                p, trade[p].with)
    BY <1>2, <2>2, SetMoneyClears
  <2> QED
    BY <2>1, <2>2, <2>3, WindowOK
<1>5. ASSUME NEW p \in Players, HandleSetTradeItem(p) \/ HandleClearTradeItem(p)
      PROVE  IInv'
  <2>1. PICK slot \in Slots, i \in Items \cup {Nobody} :
               Window(p, SetItem(Modified(trade, p), p, slot, i))
    BY <1>5 DEF HandleSetTradeItem, HandleClearTradeItem
  <2>2. trade[p].open
    BY <1>5 DEF HandleSetTradeItem, HandleClearTradeItem, IsOpen
  <2>3. Cleared(Modified(trade, p), SetItem(Modified(trade, p), p, slot, i),
                p, trade[p].with)
    BY <1>2, <2>2, SetItemClears
  <2> QED
    BY <2>1, <2>2, <2>3, WindowOK
<1>6. ASSUME NEW p \in Players, CastOnTradeSlot(p)
      PROVE  IInv'
  <2>1. PICK spell \in Spells : Window(p, SetSpell(trade, p, spell))
    BY <1>6 DEF CastOnTradeSlot
  <2> DEFINE u == SetSpell(trade, p, spell)
  <2>2. trade[p].open
    BY <1>6 DEF CastOnTradeSlot, IsOpen
  <2>3. /\ Cleared(trade, u, p, trade[p].with)
        /\ u[p].items = trade[p].items /\ u[p].money = trade[p].money
    BY <1>2, <2>2, SetSpellClears
  <2>4. Window(p, u)
    BY <2>1
  <2> HIDE DEF u
  <2>5. WindowsOK(u, stirred)
    BY <1>1, <2>2, <2>3, ClearedOK
  <2> QED
    BY <2>3, <2>4, <2>5 DEF Window, IInv
<1>7. ASSUME NEW p \in Players, HandleUnacceptTrade(p)
      PROVE  IInv'
  <2> DEFINE u == [trade EXCEPT ![p] = Withdrawn(@)]
  <2>1. trade[p].open /\ Window(p, u)
    BY <1>7 DEF HandleUnacceptTrade, IsOpen
  <2>2. WindowsOK(u, stirred)
    BY <1>1, <2>1, WithdrawnOK
  <2>3. u[p].items = trade[p].items /\ u[p].money = trade[p].money
    BY <1>1, WithdrawnType DEF WindowsOK, Windows
  <2> HIDE DEF u
  <2> QED
    BY <2>1, <2>2, <2>3 DEF Window, IInv
<1>8. ASSUME NEW p \in Players, TradeCancel(p)
      PROVE  IInv'
  <2>1. WindowsOK(Closed(trade, p), stirred \ {p, trade[p].with})
    BY <1>1, <1>8, ClosedOK DEF TradeCancel, IsOpen
  <2> QED
    BY <1>8, <2>1 DEF TradeCancel, Trader, IInv
<1>9. CASE Tick
  <2>1. WindowsOK([p \in Players |->
                     IF trade[p].open THEN [trade[p] EXCEPT !.fresh = FALSE]
                     ELSE trade[p]], {})
    BY <1>1, TickOK
  <2> QED
    BY <1>9, <2>1 DEF Tick, IsOpen, IInv
<1>10. CASE Crash
  <2>1. trade' = [p \in Players |-> NoTrade] /\ stirred' = {}
    BY <1>10 DEF Crash
  <2>2. NoTrade \in TradeData /\ ~NoTrade.open
    BY NewTradeType DEF NoTrade, NewTrade
  <2> QED
    BY <2>1, <2>2 DEF IInv, WindowsOK, Windows, Paired, AllSee, Marks
<1>11. ASSUME UNCHANGED <<trade, stirred>>
       PROVE  IInv'
  BY <1>1, <1>11 DEF IInv
<1>12. ASSUME NEW p \in Players, Elsewhere(p)
       PROVE  IInv'
  BY <1>11, <1>12 DEF Elsewhere
<1>13. ASSUME NEW w \in Workers, Execute(w)
       PROVE  IInv'
  BY <1>11, <1>13 DEF Execute
<1>14. CASE UNCHANGED vars
  BY <1>11, <1>14 DEF vars
<1> QED
  BY <1>3, <1>4, <1>5, <1>6, <1>7, <1>8, <1>9, <1>10, <1>12, <1>13, <1>14,
     AcceptOK DEF Next

-----------------------------------------------------------------------------
(* Least counterexamples, and the recursion of moveItems                    *)

\* A nonempty set of natural numbers has a least element.
LEMMA LeastElement ==
    ASSUME NEW T, T \subseteq Nat, T # {}
    PROVE  \E m \in T : \A k \in T : m <= k
<1>1. PICK m \in T : \A k \in T : <<k, m>> \notin OpToRel(<, Nat)
  BY WFMin, NatLessThanWellFounded, Zenon
<1>2. \A k \in T : ~(k < m)
  BY <1>1 DEF OpToRel
<1> QED
  BY <1>2

\* f[n] is what the inventories b of p and q become when the first n slots are
\* moved.
Moves(f, k, p, q, b, mine, his) ==
    f = [n \in 0 .. k |-> IF n = 0 THEN b ELSE MoveSlot(p, q, f[n - 1], mine[n], his[n])]

\* The recursion over the slots has a solution.
LEMMA MoveDefined ==
    ASSUME NEW N \in Nat, NEW p, NEW q, NEW B, NEW mine, NEW his
    PROVE  \E f : Moves(f, N, p, q, B, mine, his)
<1> USE DEF Moves
<1> DEFINE Solves(f, k) == Moves(f, k, p, q, B, mine, his)
           T == {k \in Nat : ~\E f : Solves(f, k)}
<1>1. SUFFICES ASSUME N \in T PROVE FALSE
  OBVIOUS
<1>2. PICK m \in T : \A k \in T : m <= k
  BY <1>1, LeastElement
<1>3. m # 0
  <2>1. Solves([n \in 0 .. 0 |-> B], 0)
    OBVIOUS
  <2> QED
    BY <2>1
<1>4. PICK g : Solves(g, m - 1)
  <2>1. m \in Nat
    OBVIOUS
  <2>2. m - 1 \in Nat /\ ~(m <= m - 1)
    BY <1>3, <2>1
  <2>3. m - 1 \notin T
    <3> HIDE DEF T
    <3> QED BY <1>2, <2>2
  <2> QED
    BY <2>2, <2>3
<1> DEFINE Step(b, n) == MoveSlot(p, q, b, mine[n], his[n])
           h == [n \in 0 .. m |-> IF n = m THEN Step(g[m - 1], m) ELSE g[n]]
<1>5. \A n \in 0 .. m - 1 : h[n] = g[n]
  BY <1>3
<1>6. Solves(h, m)
  <2>1. \A n \in 0 .. m : h[n] = IF n = 0 THEN B ELSE Step(h[n - 1], n)
    <3> SUFFICES ASSUME NEW n \in 0 .. m
                 PROVE h[n] = IF n = 0 THEN B ELSE Step(h[n - 1], n)
      OBVIOUS
    <3>1. CASE n = m
      <4>1. h[m - 1] = g[m - 1] /\ h[m] = Step(g[m - 1], m)
        BY <1>3, <1>5
      <4> QED
        BY <1>3, <3>1, <4>1
    <3>2. CASE n # m
      <4>1. n \in 0 .. m - 1 /\ (n # 0 => n - 1 \in 0 .. m - 1)
        BY <3>2
      <4>2. g[n] = IF n = 0 THEN B ELSE Step(g[n - 1], n)
        BY <1>4, <4>1
      <4> QED
        BY <1>5, <4>1, <4>2
    <3> QED
      BY <3>1, <3>2
  <2> QED
    BY <2>1
<1> QED
  BY <1>2, <1>6

\* moveItems is the last value of such a function.
LEMMA MoveUnfolds ==
    ASSUME NumSlots \in Nat, NEW p, NEW q
    PROVE  \E f : /\ moveItems(p, q) = f[NumSlots]
                  /\ f[0] = [me |-> bag[p] \ Given(p), him |-> bag[q] \ Given(q),
                             made |-> {}]
                  /\ \A n \in 1 .. NumSlots :
                       f[n] = MoveSlot(p, q, f[n - 1], ItemIn(p, n), ItemIn(q, n))
<1> DEFINE B == [me |-> bag[p] \ Given(p), him |-> bag[q] \ Given(q), made |-> {}]
           F(f) == [n \in 0 .. NumSlots |->
                       IF n = 0 THEN B
                       ELSE MoveSlot(p, q, f[n - 1], ItemIn(p, n), ItemIn(q, n))]
           A == CHOOSE f : f = F(f)
<1>1. \E f : f = F(f)
  <2> DEFINE mine == [n \in 0 .. NumSlots |-> ItemIn(p, n)]
             his == [n \in 0 .. NumSlots |-> ItemIn(q, n)]
  <2> HIDE DEF B
  <2>1. PICK f : Moves(f, NumSlots, p, q, B, mine, his)
    <3> HIDE DEF mine, his
    <3> QED BY MoveDefined
  <2>2. f = F(f)
    BY <2>1 DEF Moves
  <2> QED
    BY <2>2
<1>2. A = F(A)
  <2> HIDE DEF F
  <2> QED BY <1>1
<1>3. moveItems(p, q) = A[NumSlots]
  BY DEF moveItems
<1>4. /\ A[0] = B
      /\ \A n \in 1 .. NumSlots :
           A[n] = MoveSlot(p, q, A[n - 1], ItemIn(p, n), ItemIn(q, n))
  <2> DEFINE C == A
  <2>1. C = F(C)
    BY <1>2
  <2> HIDE DEF C, B
  <2>2. /\ C[0] = B
        /\ \A n \in 1 .. NumSlots :
             C[n] = MoveSlot(p, q, C[n - 1], ItemIn(p, n), ItemIn(q, n))
    BY <2>1
  <2> QED
    BY <2>2 DEF C
<1> QED
  BY <1>3, <1>4

-----------------------------------------------------------------------------
(* The items of the windows                                                 *)

\* No item lies in two slots of a window.
Spread(t) ==
    \A p \in Players : \A s, u \in Slots :
        s # u /\ t[p].items[s] = t[p].items[u] => t[p].items[s] = Nobody

Kept(t, u) == \A r \in Players : u[r].items = t[r].items

\* The windows keep their items when acceptances are withdrawn.
LEMMA UnacceptedItems ==
    ASSUME NEW t \in Windows, NEW p \in Players, t[p].with # p
    PROVE  Unaccepted(t, p) \in Windows /\ Kept(t, Unaccepted(t, p))
<1> DEFINE q == t[p].with
           A == Withdrawn(t[p])
           v == [t EXCEPT ![p] = A]
           B == Withdrawn(v[q])
<1>1. A \in TradeData /\ A.items = t[p].items
  BY WithdrawnType DEF Windows
<1>2. Unaccepted(t, p) = [v EXCEPT ![q] = B]
  <2>1. v[q] = t[q]
    BY DEF Windows
  <2>2. Unaccepted(t, p) = [t EXCEPT ![p] = A, ![q] = B]
    BY <2>1 DEF Unaccepted
  <2> QED
    BY <2>2
<1> HIDE DEF A
<1>3. v \in Windows /\ Kept(t, v)
  BY <1>1 DEF Windows, Kept
<1> HIDE DEF v, q
<1>4. CASE q \in Players
  <2>1. B \in TradeData /\ B.items = v[q].items
    BY <1>3, <1>4, WithdrawnType DEF Windows
  <2> HIDE DEF B
  <2> QED
    BY <1>2, <1>3, <1>4, <2>1 DEF Windows, Kept
<1>5. CASE q \notin Players
  <2>1. [v EXCEPT ![q] = B] = v
    BY <1>3, <1>5 DEF Windows
  <2> QED
    BY <1>2, <1>3, <2>1
<1> QED
  BY <1>4, <1>5

\* So they do when the money or the spell of a side changes.
LEMMA SetItems ==
    ASSUME NEW t \in Windows, NEW p \in Players, t[p].with # p
    PROVE  /\ \A amount \in Nat : SetMoney(t, p, amount) \in Windows
                                  /\ Kept(t, SetMoney(t, p, amount))
           /\ \A spell \in Spells \cup {Nobody} : SetSpell(t, p, spell) \in Windows
                                                /\ Kept(t, SetSpell(t, p, spell))
<1>1. ASSUME NEW d \in TradeData, d.items = t[p].items, d.with = t[p].with
      PROVE  /\ Unaccepted([t EXCEPT ![p] = d], p) \in Windows
             /\ Kept(t, Unaccepted([t EXCEPT ![p] = d], p))
  <2> DEFINE v == [t EXCEPT ![p] = d]
  <2>1. v \in Windows /\ Kept(t, v) /\ v[p].with # p
    BY <1>1 DEF Windows, Kept
  <2> HIDE DEF v
  <2>2. Unaccepted(v, p) \in Windows /\ Kept(v, Unaccepted(v, p))
    BY <2>1, UnacceptedItems
  <2>3. Kept(t, Unaccepted(v, p))
    BY <2>1, <2>2 DEF Kept
  <2> QED
    BY <2>2, <2>3 DEF v
<1>2. Kept(t, t) /\ t[p] \in TradeData
  BY DEF Kept, Windows
<1>3. ASSUME NEW amount \in Nat
      PROVE  SetMoney(t, p, amount) \in Windows /\ Kept(t, SetMoney(t, p, amount))
  <2> DEFINE d == [t[p] EXCEPT !.money = amount]
  <2>1. d \in TradeData /\ d.items = t[p].items /\ d.with = t[p].with
    BY <1>2 DEF TradeData
  <2>2. [t EXCEPT ![p].money = amount] = [t EXCEPT ![p] = d]
    OBVIOUS
  <2>3. SetMoney(t, p, amount) = t \/ SetMoney(t, p, amount) = Unaccepted([t EXCEPT ![p] = d], p)
    BY <2>2 DEF SetMoney
  <2> HIDE DEF d
  <2> QED
    BY <1>1, <1>2, <2>1, <2>3
<1>4. ASSUME NEW spell \in Spells \cup {Nobody}
      PROVE  SetSpell(t, p, spell) \in Windows /\ Kept(t, SetSpell(t, p, spell))
  <2> DEFINE d == [t[p] EXCEPT !.spell = spell]
  <2>1. d \in TradeData /\ d.items = t[p].items /\ d.with = t[p].with
    BY <1>2 DEF TradeData
  <2>2. [t EXCEPT ![p].spell = spell] = [t EXCEPT ![p] = d]
    OBVIOUS
  <2>3. SetSpell(t, p, spell) = t \/ SetSpell(t, p, spell) = Unaccepted([t EXCEPT ![p] = d], p)
    BY <2>2 DEF SetSpell
  <2> HIDE DEF d
  <2> QED
    BY <1>1, <1>2, <2>1, <2>3
<1> QED
  BY <1>3, <1>4

\* Windows with the same items are spread as well.
LEMMA SpreadKept ==
    ASSUME NEW t, NEW u, Spread(t), Kept(t, u)
    PROVE  Spread(u)
  BY DEF Spread, Kept

\* A free slot takes an item that lies in no other slot.
LEMMA SetItemSpreads ==
    ASSUME NEW t, NEW p, NEW q, Facing(t, p, q), Spread(t),
           NEW slot \in Slots, NEW i \in Items \cup {Nobody},
           i = Nobody \/ \A s \in Slots : t[p].items[s] # i
    PROVE  Spread(SetItem(t, p, slot, i))
<1> DEFINE d == [t[p] EXCEPT !.items[slot] = i]
           v == [t EXCEPT ![p] = d]
           placed == Unaccepted(v, p)
           other == IF slot = NonTraded THEN SetSpell(placed, q, Nobody) ELSE placed
           last == SetSpell(other, p, Nobody)
<1>1. /\ t \in Windows /\ p \in Players /\ q \in Players /\ p # q
      /\ t[p].with = q /\ t[p].open
  BY DEF Facing, LeavesOthers
<1>2. t[p] \in TradeData
  BY <1>1 DEF Windows
<1>3. /\ d \in TradeData /\ d.items = [t[p].items EXCEPT ![slot] = i]
      /\ d.open /\ d.with = q /\ d.fresh = t[p].fresh
  BY <1>1, <1>2 DEF TradeData
<1>4. [t EXCEPT ![p].items[slot] = i] = v
  OBVIOUS
<1>5. SetItem(t, p, slot, i) = IF t[p].items[slot] = i THEN t ELSE last
  BY <1>1, <1>4 DEF SetItem
<1>6. v \in Windows /\ v[p] = d /\ \A r \in Players \ {p} : v[r] = t[r]
  <2> HIDE DEF d
  <2> QED
    BY <1>1, <1>3 DEF Windows
<1>7. t[p].items \in [Slots -> Items \cup {Nobody}]
  BY <1>2 DEF TradeData
<1> HIDE DEF d, v
<1>8. Spread(v)
  <2> SUFFICES ASSUME NEW r \in Players, NEW s \in Slots, NEW u \in Slots,
                      s # u, v[r].items[s] = v[r].items[u]
               PROVE  v[r].items[s] = Nobody
    BY DEF Spread
  <2>1. CASE r # p
    BY <1>6, <2>1 DEF Spread
  <2>2. CASE r = p
    <3>1. \A x \in Slots : v[p].items[x] = IF x = slot THEN i ELSE t[p].items[x]
      BY <1>3, <1>6, <1>7
    <3> QED
      BY <1>1, <2>2, <3>1 DEF Spread
  <2> QED
    BY <2>1, <2>2
<1>9. placed \in Windows /\ Spread(placed)
  <2>1. v[p].with # p
    BY <1>1, <1>3, <1>6
  <2> QED
    BY <1>1, <1>6, <1>8, <2>1, UnacceptedItems, SpreadKept
<1>10. Facing(placed, p, q) /\ Facing(placed, q, p)
  <2>1. placed = Unaccepted([t EXCEPT ![p] = d], p)
    BY DEF v
  <2> HIDE DEF placed
  <2>2. Cleared(t, placed, p, q)
    BY <1>3, <2>1, UnacceptedClears
  <2> QED
    BY <2>2, ClearedFaces
<1> HIDE DEF placed
<1>11. other \in Windows /\ Spread(other) /\ Facing(other, p, q)
  <2> DEFINE z == SetSpell(placed, q, Nobody)
  <2>1. placed[q].with # q
    BY <1>10 DEF Facing, LeavesOthers
  <2>2. z \in Windows /\ Kept(placed, z)
    BY <1>1, <1>9, <2>1, SetItems
  <2>3. Cleared(placed, z, q, p)
    BY <1>10, SetSpellClears
  <2> HIDE DEF z
  <2>4. Spread(z) /\ Facing(z, p, q)
    BY <1>9, <1>10, <2>2, <2>3, SpreadKept, ClearedFaces
  <2> QED
    BY <1>9, <1>10, <2>2, <2>4 DEF z
<1> HIDE DEF other
<1>12. Spread(last)
  <2>1. other[p].with # p
    BY <1>11 DEF Facing, LeavesOthers
  <2>2. Kept(other, last)
    BY <1>1, <1>11, <2>1, SetItems
  <2> QED
    BY <1>11, <2>2, SpreadKept
<1> HIDE DEF last
<1> QED
  BY <1>5, <1>12

\* What every handler does first keeps the items.
LEMMA ModifiedItems ==
    ASSUME NEW t, NEW p, NEW q, Facing(t, p, q)
    PROVE  Modified(t, p) \in Windows /\ Kept(t, Modified(t, p))
<1> DEFINE P == [t[p] EXCEPT !.fresh = TRUE]
           W == Withdrawn(t[q])
           Q == [W EXCEPT !.fresh = TRUE]
<1>1. /\ p \in Players /\ q \in Players /\ q # p /\ t \in Windows /\ t[p].with = q
  BY DEF Facing, LeavesOthers
<1>2. t[p] \in TradeData /\ t[q] \in TradeData
  BY <1>1 DEF Windows
<1>3. P \in TradeData /\ P.items = t[p].items
  BY <1>2 DEF TradeData
<1>4. W \in TradeData /\ W.items = t[q].items
  BY <1>2, WithdrawnType
<1>5. Modified(t, p) = [t EXCEPT ![q] = Q, ![p] = P]
  BY <1>1 DEF Modified, Windows
<1> HIDE DEF W
<1>6. Q \in TradeData /\ Q.items = t[q].items
  BY <1>4 DEF TradeData
<1> HIDE DEF P, Q
<1> QED
  BY <1>1, <1>3, <1>5, <1>6 DEF Windows, Kept

-----------------------------------------------------------------------------
(* The saves                                                                *)

Save ==
    [key : Players, gold : Nat, new : SUBSET Items, moved : SUBSET Items,
     lost : SUBSET Items]

Purses == [Players -> Nat]
Bags == [Players -> SUBSET Items]
Ledgers == [gold : Purses, bag : Bags]

\* Nobody owns what another owns.
Apart(b) == \A p, q \in Players : p # q => b[p] \cap b[q] = {}

\* The items somebody owns.
Present(b) == UNION {b[p] : p \in Players}

\* The rows of p after a save that does not fail, when they were c.
After(c, s, p) ==
    IF p = s.key THEN (c[p] \ s.lost) \cup s.new \cup (s.moved \cap Present(c))
    ELSE c[p] \ (s.moved \cup s.lost)

LEMMA AppliedParts ==
    ASSUME NEW r \in Ledgers, NEW s \in Save
    PROVE  /\ s.new \cap Present(r.bag) # {} => Applied(r, s) = r
           /\ s.new \cap Present(r.bag) = {} =>
                /\ Applied(r, s).gold = [r.gold EXCEPT ![s.key] = s.gold]
                /\ Applied(r, s) \in Ledgers
                /\ \A p \in Players : Applied(r, s).bag[p] = After(r.bag, s, p)
<1>1. /\ s.key \in Players /\ s.gold \in Nat /\ s.new \subseteq Items
      /\ s.moved \subseteq Items /\ s.lost \subseteq Items
  BY DEF Save
<1>2. r.gold \in Purses /\ r.bag \in Bags
  BY DEF Ledgers
<1> DEFINE P == Present(r.bag)
           g == [r.gold EXCEPT ![s.key] = s.gold]
           b == [p \in Players |->
                   IF p = s.key THEN (r.bag[p] \ s.lost) \cup s.new \cup (s.moved \cap P)
                   ELSE r.bag[p] \ (s.moved \cup s.lost)]
<1>3. Applied(r, s) = IF s.new \cap P # {} THEN r ELSE [gold |-> g, bag |-> b]
  BY DEF Applied, Present
<1>4. g \in Purses
  BY <1>1, <1>2 DEF Purses
<1>5. b \in Bags
  BY <1>1, <1>2 DEF Bags
<1>6. \A p \in Players : b[p] = After(r.bag, s, p)
  BY DEF After
<1> HIDE DEF g, b, P
<1>7. CASE s.new \cap P # {}
  BY <1>3, <1>7 DEF P
<1>8. CASE s.new \cap P = {}
  <2>1. Applied(r, s) = [gold |-> g, bag |-> b]
    BY <1>3, <1>8
  <2>2. Applied(r, s).gold = g /\ Applied(r, s).bag = b /\ Applied(r, s) \in Ledgers
    BY <1>4, <1>5, <2>1 DEF Ledgers
  <2> QED
    BY <1>6, <1>8, <2>2 DEF P, g
<1> QED
  BY <1>7, <1>8

\* A save never gives a row twice.
LEMMA AppliedType ==
    ASSUME NEW r \in Ledgers, Apart(r.bag), NEW s \in Save
    PROVE  Applied(r, s) \in Ledgers /\ Apart(Applied(r, s).bag)
<1>1. CASE s.new \cap Present(r.bag) # {}
  BY <1>1, AppliedParts
<1>2. CASE s.new \cap Present(r.bag) = {}
  <2>1. PICK b : b = Applied(r, s).bag
    OBVIOUS
  <2>2. PICK c : c = r.bag
    OBVIOUS
  <2>3. Applied(r, s) \in Ledgers /\ \A p \in Players : b[p] = After(c, s, p)
    BY <1>2, <2>1, <2>2, AppliedParts
  <2>4. ASSUME NEW p \in Players, NEW q \in Players, p # q, NEW i, i \in b[p], i \in b[q]
        PROVE  FALSE
    <3>1. \A z \in Players : i \in c[z] => i \in Present(c)
      BY DEF Present
    <3>2. i \notin c[p] \/ i \notin c[q]
      BY <2>2, <2>4 DEF Apart
    <3>3. CASE p = s.key
      <4>1. /\ i \in c[p] \/ i \in s.new \/ i \in s.moved
            /\ i \in c[q] /\ i \notin s.moved
        BY <2>3, <2>4, <3>3 DEF After
      <4>2. i \notin s.new
        BY <1>2, <2>2, <3>1, <4>1
      <4> QED
        BY <3>2, <4>1, <4>2
    <3>4. CASE q = s.key
      <4>1. /\ i \in c[q] \/ i \in s.new \/ i \in s.moved
            /\ i \in c[p] /\ i \notin s.moved
        BY <2>3, <2>4, <3>4 DEF After
      <4>2. i \notin s.new
        BY <1>2, <2>2, <3>1, <4>1
      <4> QED
        BY <3>2, <4>1, <4>2
    <3>5. CASE p # s.key /\ q # s.key
      BY <2>3, <2>4, <3>2, <3>5 DEF After
    <3> QED
      BY <3>3, <3>4, <3>5
  <2>5. Apart(b)
    BY <2>4 DEF Apart
  <2> QED
    BY <2>1, <2>3, <2>5
<1> QED
  BY <1>1, <1>2

\* Applied one after the other, the saves Q turn the rows r into m; f has the rows
\* on the way.
Trace(f, Q, r, m) ==
    /\ f[0] = r /\ f[Len(Q)] = m
    /\ \A k \in 1 .. Len(Q) : f[k] = Applied(f[k - 1], Q[k])

Leads(Q, r, m) == \E f : Trace(f, Q, r, m)

LEMMA NothingLeads ==
    ASSUME NEW r
    PROVE  Leads(<< >>, r, r)
<1>1. Trace([k \in {0} |-> r], << >>, r, r)
  BY DEF Trace
<1> QED
  BY <1>1 DEF Leads

LEMMA NothingWaits ==
    ASSUME NEW r, NEW m, Leads(<< >>, r, m)
    PROVE  r = m
  BY DEF Leads, Trace

\* A handler changes memory by what it saves.
LEMMA SaveQueued ==
    ASSUME NEW Q \in Seq(Save), NEW r, NEW m, Leads(Q, r, m), NEW s \in Save
    PROVE  Leads(Append(Q, s), r, Applied(m, s))
<1>1. PICK f : Trace(f, Q, r, m)
  BY DEF Leads
<1>2. PICK R : R = Append(Q, s)
  OBVIOUS
<1>3. PICK n : n = Len(Q)
  OBVIOUS
<1>4. n \in Nat /\ Len(R) = n + 1 /\ R[n + 1] = s /\ \A k \in 1 .. n : R[k] = Q[k]
  BY <1>2, <1>3
<1>5. PICK a : a = Applied(m, s)
  OBVIOUS
<1>6. PICK g : g = [k \in 0 .. n + 1 |-> IF k = n + 1 THEN a ELSE f[k]]
  OBVIOUS
<1>7. g[n + 1] = a /\ \A k \in 0 .. n : g[k] = f[k]
  BY <1>4, <1>6
<1>8. f[0] = r /\ f[n] = m /\ \A k \in 1 .. n : f[k] = Applied(f[k - 1], Q[k])
  BY <1>1, <1>3 DEF Trace
<1>9. ASSUME NEW k \in 1 .. n + 1
      PROVE  g[k] = Applied(g[k - 1], R[k])
  <2>1. CASE k = n + 1
    <3>1. k - 1 = n /\ n \in 0 .. n
      BY <1>4, <2>1
    <3> QED
      BY <1>4, <1>5, <1>7, <1>8, <2>1, <3>1
  <2>2. CASE k # n + 1
    <3>1. k \in 1 .. n /\ k \in 0 .. n /\ k - 1 \in 0 .. n
      BY <1>4, <2>2
    <3> QED
      BY <1>4, <1>7, <1>8, <3>1
  <2> QED
    BY <2>1, <2>2
<1>10. 0 \in 0 .. n
  BY <1>4
<1>11. Trace(g, R, r, a)
  BY <1>4, <1>7, <1>8, <1>9, <1>10 DEF Trace
<1> QED
  BY <1>2, <1>5, <1>11 DEF Leads

\* The queue Q without the save n.
LEMMA QueueWithout ==
    ASSUME NEW Q \in Seq(Save), NEW n \in DOMAIN Q
    PROVE  /\ RemoveAt(Q, n) \in Seq(Save) /\ Q[n] \in Save
           /\ n = 1 => /\ Len(Q) \in Nat /\ Len(RemoveAt(Q, 1)) = Len(Q) - 1
                       /\ \A k \in 1 .. Len(Q) - 1 : RemoveAt(Q, 1)[k] = Q[k + 1]
<1>1. Len(Q) \in Nat /\ n \in 1 .. Len(Q)
  OBVIOUS
<1> DEFINE a == SubSeq(Q, 1, n - 1)
           b == SubSeq(Q, n + 1, Len(Q))
<1>2. RemoveAt(Q, n) = a \o b
  BY DEF RemoveAt
<1>3. a \in Seq(Save)
  <2>1. \A k \in 1 .. n - 1 : Q[k] \in Save
    BY <1>1
  <2> QED
    BY <1>1, <2>1, SubSeqProperties
<1>4. \A k \in n + 1 .. Len(Q) : Q[k] \in Save
  BY <1>1
<1>5. /\ b \in Seq(Save)
      /\ Len(b) = (IF n + 1 <= Len(Q) THEN Len(Q) - (n + 1) + 1 ELSE 0)
      /\ (\A k \in 1 .. Len(Q) - (n + 1) + 1 : b[k] = Q[n + 1 + k - 1])
  BY <1>1, <1>4, SubSeqProperties
<1>6. n = 1 => a = << >>
  OBVIOUS
<1>7. Q[n] \in Save
  OBVIOUS
<1> HIDE DEF a, b
<1>8. RemoveAt(Q, n) \in Seq(Save)
  BY <1>2, <1>3, <1>5
<1>9. ASSUME n = 1
      PROVE  /\ Len(RemoveAt(Q, 1)) = Len(Q) - 1
             /\ \A k \in 1 .. Len(Q) - 1 : RemoveAt(Q, 1)[k] = Q[k + 1]
  <2>1. RemoveAt(Q, 1) = b
    BY <1>2, <1>5, <1>6, <1>9, ConcatEmptySeq
  <2>2. Len(b) = Len(Q) - 1 /\ (\A k \in 1 .. Len(Q) - 1 : b[k] = Q[k + 1])
    <3>1. /\ Len(b) = (IF 1 + 1 <= Len(Q) THEN Len(Q) - (1 + 1) + 1 ELSE 0)
          /\ (\A k \in 1 .. Len(Q) - (1 + 1) + 1 : b[k] = Q[1 + 1 + k - 1])
          /\ Len(Q) \in Nat /\ 1 <= Len(Q)
      BY <1>1, <1>5, <1>9
    <3>2. Len(b) = Len(Q) - 1 /\ Len(Q) - (1 + 1) + 1 = Len(Q) - 1
      <4>1. \A x \in Nat : 1 <= x => /\ x - (1 + 1) + 1 = x - 1
                                    /\ (IF 1 + 1 <= x THEN x - (1 + 1) + 1 ELSE 0) = x - 1
        OBVIOUS
      <4>2. PICK x : x = Len(Q)
        OBVIOUS
      <4>3. x \in Nat /\ 1 <= x /\ Len(b) = (IF 1 + 1 <= x THEN x - (1 + 1) + 1 ELSE 0)
        BY <3>1, <4>2
      <4> QED
        BY <4>1, <4>2, <4>3
    <3>3. \A k \in 1 .. Len(Q) - 1 : 1 + 1 + k - 1 = k + 1
      OBVIOUS
    <3> QED
      BY <3>1, <3>2, <3>3
  <2> QED
    BY <2>1, <2>2
<1> QED
  BY <1>1, <1>7, <1>8, <1>9

\* The database applies the first save that waits.
LEMMA SaveApplied ==
    ASSUME NEW Q \in Seq(Save), NEW r, NEW m, Leads(Q, r, m), 1 \in DOMAIN Q
    PROVE  Leads(RemoveAt(Q, 1), Applied(r, Q[1]), m)
<1>1. PICK f : Trace(f, Q, r, m)
  BY DEF Leads
<1>2. PICK R : R = RemoveAt(Q, 1)
  OBVIOUS
<1>3. PICK n : n = Len(Q) - 1
  OBVIOUS
<1>4. n \in Nat /\ Len(Q) = n + 1 /\ Len(R) = n /\ \A k \in 1 .. n : R[k] = Q[k + 1]
  <2>1. Len(Q) \in Nat /\ 1 <= Len(Q)
    OBVIOUS
  <2>2. Len(R) = n /\ \A k \in 1 .. n : R[k] = Q[k + 1]
    BY <1>2, <1>3, QueueWithout
  <2> QED
    BY <1>3, <2>1, <2>2
<1>5. /\ f[0] = r /\ f[n + 1] = m
      /\ \A k \in 1 .. n + 1 : f[k] = Applied(f[k - 1], Q[k])
  BY <1>1, <1>4 DEF Trace
<1>6. PICK g : g = [k \in 0 .. n |-> f[k + 1]]
  OBVIOUS
<1>7. \A k \in 0 .. n : g[k] = f[k + 1]
  BY <1>6
<1>8. g[0] = Applied(r, Q[1]) /\ g[n] = m
  <2>1. 1 \in 1 .. n + 1 /\ 1 - 1 = 0 /\ 0 \in 0 .. n /\ n \in 0 .. n /\ 0 + 1 = 1
    BY <1>4
  <2> QED
    BY <1>5, <1>7, <2>1
<1>9. ASSUME NEW k \in 1 .. n
      PROVE  g[k] = Applied(g[k - 1], R[k])
  <2>1. /\ k \in 0 .. n /\ k - 1 \in 0 .. n /\ k + 1 \in 1 .. n + 1
        /\ (k - 1) + 1 = (k + 1) - 1
    BY <1>4
  <2>2. g[k] = f[k + 1] /\ g[k - 1] = f[(k + 1) - 1] /\ R[k] = Q[k + 1]
    BY <1>4, <1>7, <2>1
  <2> QED
    BY <1>5, <2>1, <2>2
<1>10. Trace(g, R, Applied(r, Q[1]), m)
  BY <1>4, <1>8, <1>9 DEF Trace
<1> QED
  BY <1>2, <1>10 DEF Leads

-----------------------------------------------------------------------------
(* moveItems                                                                *)

\* What p gives with his first n slots.
First(p, n) == {ItemIn(p, s) : s \in 1 .. n} \ {Nobody}

LEMMA GivenOwned ==
    ASSUME trade \in Windows, bag \in Bags, NEW p \in Players
    PROVE  Given(p) \subseteq bag[p] /\ Given(p) \subseteq Items
  BY DEF Given, ItemIn, Bags

\* Each slot gives an item that no earlier slot gave, or nothing.
LEMMA FirstStep ==
    ASSUME trade \in Windows, Spread(trade), NumSlots \in Nat,
           NEW p \in Players, NEW n \in 1 .. NumSlots
    PROVE  /\ First(p, n) = First(p, n - 1) \cup ({ItemIn(p, n)} \ {Nobody})
           /\ First(p, n - 1) \subseteq Given(p)
           /\ ItemIn(p, n) # Nobody =>
                ItemIn(p, n) \in Given(p) /\ ItemIn(p, n) \notin First(p, n - 1)
<1>1. 1 .. n = 1 .. (n - 1) \cup {n}
  OBVIOUS
<1>2. First(p, n) = First(p, n - 1) \cup ({ItemIn(p, n)} \ {Nobody})
  BY <1>1 DEF First
<1>3. \A s \in 1 .. (n - 1) : s \in 1 .. NumSlots /\ s # n
  OBVIOUS
<1>4. First(p, n - 1) \subseteq Given(p)
  BY <1>3 DEF First, Given, TradedSlots
<1>5. ASSUME ItemIn(p, n) # Nobody
      PROVE  ItemIn(p, n) \in Given(p) /\ ItemIn(p, n) \notin First(p, n - 1)
  <2>1. ItemIn(p, n) \in Given(p)
    BY <1>5 DEF Given, TradedSlots
  <2>2. ASSUME NEW s \in 1 .. (n - 1), ItemIn(p, s) = ItemIn(p, n)
        PROVE  FALSE
    <3>1. s \in Slots /\ n \in Slots /\ s # n
      BY <1>3 DEF Slots, TradedSlots
    <3>2. trade[p].items[s] = trade[p].items[n] /\ trade[p].items[n] # Nobody
      BY <1>5, <2>2 DEF ItemIn
    <3> QED
      BY <3>1, <3>2 DEF Spread
  <2>3. ItemIn(p, n) \notin First(p, n - 1)
    BY <2>2 DEF First
  <2> QED
    BY <2>1, <2>3
<1> QED
  BY <1>2, <1>4, <1>5

\* What fits as a whole fits item by item.
LEMMA Fits ==
    ASSUME IsFiniteSet(Items), NEW C \in Nat, NEW A \in SUBSET Items,
           NEW G \in SUBSET Items, Cardinality(A) + Cardinality(G) <= C
    PROVE  \A H \in SUBSET G : H # G => Cardinality(A \cup H) < C
<1>1. ASSUME NEW H \in SUBSET G, H # G
      PROVE  Cardinality(A \cup H) < C
  <2>1. IsFiniteSet(A) /\ IsFiniteSet(G)
    BY FS_Subset
  <2>2. IsFiniteSet(H) /\ Cardinality(H) <= Cardinality(G)
        /\ (Cardinality(G) = Cardinality(H) => G = H)
    BY <2>1, FS_Subset
  <2>3. IsFiniteSet(A \cap H)
    BY <2>1, FS_Intersection
  <2>4. /\ Cardinality(A \cup H) = Cardinality(A) + Cardinality(H) - Cardinality(A \cap H)
        /\ IsFiniteSet(A \cup H)
    BY <2>1, <2>2, FS_Union
  <2>5. /\ Cardinality(A) \in Nat /\ Cardinality(G) \in Nat /\ Cardinality(H) \in Nat
        /\ Cardinality(A \cap H) \in Nat /\ Cardinality(A \cup H) \in Nat
    BY <2>1, <2>2, <2>3, <2>4, FS_CardinalityType
  <2>6. ASSUME NEW a \in Nat, NEW h \in Nat, NEW g \in Nat, NEW u \in Nat, NEW i \in Nat,
               NEW c \in Nat, h <= g, h # g, u = a + h - i, a + g <= c
        PROVE  u < c
    BY <2>6
  <2> QED
    BY <1>1, <2>2, <2>4, <2>5, <2>6
<1> QED
  BY <1>1

\* An inventory that holds less may take what the larger one may.
LEMMA LimitsShrink ==
    ASSUME NEW b \in SUBSET Items, NEW c \in SUBSET b, NEW i \in Items, CanTakeMore(b, i)
    PROVE  CanTakeMore(c, i)
<1> DEFINE S == {j \in b \ {i} : Entry[j] = Entry[i]}
           T == {j \in c \ {i} : Entry[j] = Entry[i]}
<1>1. T \subseteq S /\ S \subseteq Items
  OBVIOUS
<1>2. IsFiniteSet(S)
  BY <1>1, BagAssumption, FS_Subset
<1>3. /\ Cardinality(S) \in Nat /\ Cardinality(T) \in Nat
      /\ Cardinality(T) <= Cardinality(S)
  BY <1>1, <1>2, FS_Subset, FS_CardinalityType
<1>4. MaxCount[Entry[i]] \in Nat
  BY TemplateAssumption
<1>5. MaxCount[Entry[i]] = 0 \/ Cardinality(S) < MaxCount[Entry[i]]
  BY DEF CanTakeMore
<1> HIDE DEF S, T
<1>6. MaxCount[Entry[i]] = 0 \/ Cardinality(T) < MaxCount[Entry[i]]
  BY <1>3, <1>4, <1>5
<1> QED
  BY <1>6 DEF CanTakeMore, T

\* When the limits admit everything together, moveItems gives each exactly what
\* the other gives and copies nothing.
LEMMA Moved ==
    ASSUME trade \in Windows, bag \in Bags, Spread(trade),
           NEW p \in Players, NEW q \in Players,
           CanStoreItems(p, Given(q), Given(p)), CanStoreItems(q, Given(p), Given(q)),
           LimitsAdmit(p, Given(q), Given(p)), LimitsAdmit(q, Given(p), Given(q))
    PROVE  moveItems(p, q) = [me |-> (bag[p] \ Given(p)) \cup Given(q),
                              him |-> (bag[q] \ Given(q)) \cup Given(p), made |-> {}]
<1> DEFINE A == bag[p] \ Given(p)
           B == bag[q] \ Given(q)
           Is(f, n) == f[n] = [me |-> A \cup First(q, n), him |-> B \cup First(p, n),
                               made |-> {}]
<1>1. /\ NumSlots \in Nat /\ Capacity[p] \in Nat /\ Capacity[q] \in Nat
      /\ IsFiniteSet(Items)
  BY NumberAssumption, BagAssumption
<1>2. PICK f : /\ moveItems(p, q) = f[NumSlots]
               /\ f[0] = [me |-> A, him |-> B, made |-> {}]
               /\ \A n \in 1 .. NumSlots :
                    f[n] = MoveSlot(p, q, f[n - 1], ItemIn(p, n), ItemIn(q, n))
  BY <1>1, MoveUnfolds
<1>3. f[0] = [me |-> A, him |-> B, made |-> {}]
  BY <1>2
<1>4. \A n \in 1 .. NumSlots : f[n] = MoveSlot(p, q, f[n - 1], ItemIn(p, n), ItemIn(q, n))
  BY <1>2
<1>5. First(p, 0) = {} /\ First(q, 0) = {}
  BY DEF First
<1>6. /\ First(p, NumSlots) = Given(p) /\ First(q, NumSlots) = Given(q)
  BY DEF First, Given, TradedSlots
<1>7. /\ A \in SUBSET Items /\ B \in SUBSET Items
      /\ Given(p) \in SUBSET Items /\ Given(q) \in SUBSET Items
  BY GivenOwned DEF Bags
<1>8. /\ Cardinality(A) + Cardinality(Given(q)) <= Capacity[p]
      /\ Cardinality(B) + Cardinality(Given(p)) <= Capacity[q]
  BY DEF CanStoreItems
<1>9. /\ \A i \in Given(q) : CanTakeMore(A \cup Given(q), i)
      /\ \A i \in Given(p) : CanTakeMore(B \cup Given(p), i)
  BY DEF LimitsAdmit
<1> HIDE DEF A, B
<1>10. /\ \A H \in SUBSET Given(q) : H # Given(q) => Cardinality(A \cup H) < Capacity[p]
       /\ \A H \in SUBSET Given(p) : H # Given(p) => Cardinality(B \cup H) < Capacity[q]
  BY <1>1, <1>7, <1>8, Fits
<1>11. ASSUME NEW n \in 1 .. NumSlots, Is(f, n - 1)
       PROVE  Is(f, n)
  <2> DEFINE mine == ItemIn(p, n)
             his == ItemIn(q, n)
             P == First(p, n - 1)
             Q == First(q, n - 1)
             b == f[n - 1]
  <2>1. /\ First(p, n) = P \cup ({mine} \ {Nobody}) /\ P \subseteq Given(p)
        /\ mine # Nobody => mine \in Given(p) /\ mine \notin P
    BY <1>1, FirstStep
  <2>2. /\ First(q, n) = Q \cup ({his} \ {Nobody}) /\ Q \subseteq Given(q)
        /\ his # Nobody => his \in Given(q) /\ his \notin Q
    BY <1>1, FirstStep
  <2>3. b.me = A \cup Q /\ b.him = B \cup P /\ b.made = {}
    BY <1>11
  <2>4. f[n] = MoveSlot(p, q, b, mine, his)
    BY <1>4
  <2> HIDE DEF mine, his, P, Q, b
  <2>5. ASSUME mine # Nobody
        PROVE  CanTakeMore(b.him, mine) /\ Cardinality(b.him) < Capacity[q]
    <3>1. mine \in Given(p) /\ P # Given(p) /\ mine \in Items
      BY <1>7, <2>1, <2>5
    <3>2. /\ B \cup Given(p) \in SUBSET Items /\ b.him \in SUBSET (B \cup Given(p))
      BY <1>7, <2>1, <2>3
    <3> QED
      BY <1>9, <1>10, <2>1, <2>3, <3>1, <3>2, LimitsShrink
  <2>6. ASSUME his # Nobody
        PROVE  CanTakeMore(b.me, his) /\ Cardinality(b.me) < Capacity[p]
    <3>1. his \in Given(q) /\ Q # Given(q) /\ his \in Items
      BY <1>7, <2>2, <2>6
    <3>2. /\ A \cup Given(q) \in SUBSET Items /\ b.me \in SUBSET (A \cup Given(q))
      BY <1>7, <2>2, <2>3
    <3> QED
      BY <1>9, <1>10, <2>2, <2>3, <3>1, <3>2, LimitsShrink
  <2>7. CanStoreItem(q, b.him, 0, mine) /\ CanStoreItem(p, b.me, 0, his)
    <3>1. IsFiniteSet(b.me) /\ IsFiniteSet(b.him)
      <4>1. b.me \subseteq Items /\ b.him \subseteq Items
        BY <1>7, <2>1, <2>2, <2>3
      <4> QED
        BY <1>1, <4>1, FS_Subset
    <3>2. Cardinality(b.me) \in Nat /\ Cardinality(b.him) \in Nat
      BY <3>1, FS_CardinalityType
    <3>3. \A k \in Nat : k + 0 = k
      OBVIOUS
    <3>4. Cardinality(b.me) + 0 = Cardinality(b.me) /\ Cardinality(b.him) + 0 = Cardinality(b.him)
      BY <3>2, <3>3
    <3> QED
      BY <2>5, <2>6, <3>4 DEF CanStoreItem
  <2>8. f[n] = [me |-> b.me \cup ({his} \ {Nobody}), him |-> b.him \cup ({mine} \ {Nobody}),
                made |-> b.made]
    BY <2>4, <2>7 DEF MoveSlot
  <2>9. /\ b.me \cup ({his} \ {Nobody}) = A \cup First(q, n)
        /\ b.him \cup ({mine} \ {Nobody}) = B \cup First(p, n)
    BY <2>1, <2>2, <2>3
  <2> QED
    BY <2>3, <2>8, <2>9
<1>12. Is(f, NumSlots)
  <2> DEFINE T == {n \in 0 .. NumSlots : ~Is(f, n)}
  <2>1. SUFFICES ASSUME T # {} PROVE FALSE
    <3>1. NumSlots \in 0 .. NumSlots
      BY <1>1
    <3> HIDE DEF Is
    <3> QED
      BY <3>1
  <2>2. PICK m \in T : \A k \in T : m <= k
    <3>1. T \subseteq Nat
      OBVIOUS
    <3> HIDE DEF T
    <3> QED
      BY <2>1, <3>1, LeastElement
  <2>3. m # 0
    <3>1. Is(f, 0)
      BY <1>3, <1>5
    <3> QED
      BY <2>2, <3>1
  <2>4. m \in 1 .. NumSlots /\ m - 1 \in 0 .. NumSlots /\ ~(m <= m - 1)
    BY <1>1, <2>3
  <2>5. Is(f, m - 1)
    BY <2>2, <2>4
  <2> QED
    BY <1>11, <2>4, <2>5
<1> QED
  BY <1>2, <1>6, <1>12 DEF A, B

\* X is what the inventory b, with C slots, takes back of i.
Adds(C, b, X, i) ==
    \/ X = {}
    \/ i # Nobody /\ X = {i} /\ Cardinality(b) < C
    \/ i # Nobody /\ X = {i, Copy[i]} /\ Cardinality(b) + 1 < C

LEMMA BackAdds ==
    ASSUME NEW p, NEW b, NEW i, NEW taken \in {0, 1}, Cardinality(b) \in Nat
    PROVE  Adds(Capacity[p], b, TakenBack(p, b, taken, i), i)
<1>1. CASE i = Nobody \/ ~CanStoreItem(p, b, taken, i)
  BY <1>1 DEF TakenBack, Adds
<1>2. CASE i # Nobody /\ CanStoreItem(p, b, taken, i)
  <2>1. Cardinality(b) + taken < Capacity[p]
    BY <1>2 DEF CanStoreItem
  <2>2. CASE taken = 1
    BY <1>2, <2>1, <2>2 DEF TakenBack, Adds
  <2>3. CASE taken = 0
    <3>1. TakenBack(p, b, taken, i) = {i}
      BY <1>2, <2>3 DEF TakenBack
    <3>2. Cardinality(b) < Capacity[p]
      BY <2>1, <2>3
    <3> QED
      BY <1>2, <3>1, <3>2 DEF Adds
  <2> QED
    BY <2>2, <2>3
<1> QED
  BY <1>1, <1>2

\* The slot is exchanged.
Swapped(b, c, mine, his) ==
    /\ c.me = b.me \cup ({his} \ {Nobody})
    /\ c.him = b.him \cup ({mine} \ {Nobody})
    /\ c.made = b.made

\* Both take back X and Y.
Returned(b, c, X, Y, mine, his) ==
    /\ c.me = b.me \cup X /\ c.him = b.him \cup Y
    /\ c.made = b.made \cup (X \ {mine}) \cup (Y \ {his})

\* A slot is exchanged when there is room for both items, or both go back.
LEMMA SlotMoves ==
    ASSUME NEW p \in Players, NEW q \in Players, NEW b, NEW mine, NEW his, NEW c,
           Cardinality(b.me) \in Nat, Cardinality(b.him) \in Nat,
           c = MoveSlot(p, q, b, mine, his)
    PROVE  \/ /\ Swapped(b, c, mine, his)
              /\ his # Nobody => Cardinality(b.me) < Capacity[p]
              /\ mine # Nobody => Cardinality(b.him) < Capacity[q]
           \/ \E X, Y : /\ Returned(b, c, X, Y, mine, his)
                        /\ Adds(Capacity[p], b.me, X, mine)
                        /\ Adds(Capacity[q], b.him, Y, his)
<1> DEFINE gives == CanStoreItem(q, b.him, 0, mine)
           takes == CanStoreItem(p, b.me, 0, his)
           u == IF takes /\ his # Nobody THEN 1 ELSE 0
           v == IF gives /\ mine # Nobody THEN 1 ELSE 0
           X == TakenBack(p, b.me, u, mine)
           Y == TakenBack(q, b.him, v, his)
<1>1. c = IF gives /\ takes
          THEN [me |-> b.me \cup ({his} \ {Nobody}), him |-> b.him \cup ({mine} \ {Nobody}),
                made |-> b.made]
          ELSE [me |-> b.me \cup X, him |-> b.him \cup Y,
                made |-> b.made \cup (X \ {mine}) \cup (Y \ {his})]
  BY DEF MoveSlot
<1>2. u \in {0, 1} /\ v \in {0, 1}
  OBVIOUS
<1> HIDE DEF u, v
<1>3. Adds(Capacity[p], b.me, X, mine) /\ Adds(Capacity[q], b.him, Y, his)
  BY <1>2, BackAdds
<1> HIDE DEF X, Y
<1>4. CASE gives /\ takes
  <2>1. Swapped(b, c, mine, his)
    <3> HIDE DEF gives, takes
    <3> QED
      BY <1>1, <1>4 DEF Swapped
  <2>2. \A k \in Nat : k + 0 = k
    OBVIOUS
  <2>3. /\ his # Nobody => Cardinality(b.me) < Capacity[p]
        /\ mine # Nobody => Cardinality(b.him) < Capacity[q]
    BY <1>4, <2>2 DEF CanStoreItem
  <2> QED
    BY <2>1, <2>3
<1>5. CASE ~(gives /\ takes)
  <2> HIDE DEF gives, takes
  <2>1. Returned(b, c, X, Y, mine, his)
    BY <1>1, <1>5 DEF Returned
  <2> QED
    BY <1>3, <2>1
<1> QED
  BY <1>4, <1>5

\* An inventory of C slots stays within them.
LEMMA RoomKept ==
    ASSUME NEW C \in Nat, NEW b \in SUBSET Items, Cardinality(b) <= C,
           NEW X, NEW i \in Items \cup {Nobody},
           \/ X = {i} \ {Nobody} /\ (i # Nobody => Cardinality(b) < C)
           \/ Adds(C, b, X, i)
    PROVE  Cardinality(b \cup X) <= C
<1>1. IsFiniteSet(b) /\ Cardinality(b) \in Nat
  BY BagAssumption, FS_Subset, FS_CardinalityType
<1>2. \A j : /\ IsFiniteSet(b \cup {j}) /\ Cardinality(b \cup {j}) \in Nat
             /\ Cardinality(b \cup {j}) <= Cardinality(b) + 1
  <2> TAKE j
  <2>1. /\ IsFiniteSet(b \cup {j})
        /\ Cardinality(b \cup {j}) = IF j \in b THEN Cardinality(b) ELSE Cardinality(b) + 1
    BY <1>1, FS_AddElement
  <2> QED
    BY <1>1, <2>1
<1>3. CASE X = {}
  <2>1. b \cup X = b
    BY <1>3
  <2> QED
    BY <2>1
<1>4. CASE X = {i} /\ Cardinality(b) < C
  <2>1. Cardinality(b \cup {i}) \in Nat /\ Cardinality(b \cup {i}) <= Cardinality(b) + 1
    BY <1>2
  <2> QED
    BY <1>1, <1>4, <2>1
<1>5. CASE X = {i, Copy[i]} /\ Cardinality(b) + 1 < C
  <2>1. PICK d : d = b \cup {i}
    OBVIOUS
  <2>2. /\ IsFiniteSet(d) /\ Cardinality(d) \in Nat /\ Cardinality(d) <= Cardinality(b) + 1
    BY <1>2, <2>1
  <2>3. PICK j : j = Copy[i]
    OBVIOUS
  <2>4. Cardinality(d \cup {j}) = IF j \in d THEN Cardinality(d) ELSE Cardinality(d) + 1
    BY <2>2, FS_AddElement
  <2>5. b \cup X = d \cup {j}
    BY <1>5, <2>1, <2>3
  <2>6. Cardinality(d \cup {j}) <= C
    BY <1>1, <1>5, <2>2, <2>4
  <2> QED
    BY <2>5, <2>6
<1> QED
  BY <1>3, <1>4, <1>5 DEF Adds

\* On the way: P and Q are given so far, A and B stay; both have what stays, and
\* beyond it only what was given, or a copy of what was his.
Copies(P) == {Copy[i] : i \in P}

Way(b, A, B, P, Q) ==
    /\ A \subseteq b.me /\ b.me \subseteq A \cup P \cup Q \cup (b.made \cap Copies(P))
    /\ B \subseteq b.him /\ b.him \subseteq B \cup P \cup Q \cup (b.made \cap Copies(Q))
    /\ b.me \cap b.him = {}

\* The item i is none of the others.
Fresh(i, A, B, P, Q, W) == i \notin A /\ i \notin B /\ i \notin P /\ i \notin Q /\ i \notin W

\* The slot has two new items.
Distinct(A, B, P, Q, W, mine, his) ==
    /\ mine # Nobody => Fresh(mine, A, B, P, Q, W)
    /\ his # Nobody => Fresh(his, A, B, P, Q, W)
    /\ mine # Nobody => mine # his

\* c is one slot further than b, and this slot was moved as a whole.
Onward(b, c, A, B, P, Q, mine, his) ==
    /\ Way(c, A, B, P \cup ({mine} \ {Nobody}), Q \cup ({his} \ {Nobody}))
    /\ \A i \in P \cup Q : (i \in c.me <=> i \in b.me) /\ (i \in c.him <=> i \in b.him)
    /\ mine # Nobody /\ his # Nobody => (mine \in c.him <=> his \in c.me)

LEMMA WaySwapped ==
    ASSUME NEW A, NEW B, NEW P, NEW Q, NEW W, NEW mine, NEW his, NEW b, NEW c,
           Way(b, A, B, P, Q), c.made \subseteq W, Swapped(b, c, mine, his),
           Distinct(A, B, P, Q, W, mine, his)
    PROVE  Onward(b, c, A, B, P, Q, mine, his)
<1>0. /\ mine # Nobody => Fresh(mine, A, B, P, Q, W)
      /\ his # Nobody => Fresh(his, A, B, P, Q, W)
      /\ mine # Nobody => mine # his
  BY DEF Distinct
<1>1. PICK me, him, made : me = b.me /\ him = b.him /\ made = b.made
  OBVIOUS
<1>2. /\ A \subseteq me /\ me \subseteq A \cup P \cup Q \cup (made \cap Copies(P))
      /\ B \subseteq him /\ him \subseteq B \cup P \cup Q \cup (made \cap Copies(Q))
      /\ me \cap him = {} /\ made \subseteq W
      /\ c.me = me \cup ({his} \ {Nobody}) /\ c.him = him \cup ({mine} \ {Nobody})
      /\ c.made = made
  BY <1>1 DEF Way, Swapped
<1>3. /\ Copies(P) \subseteq Copies(P \cup ({mine} \ {Nobody}))
      /\ Copies(Q) \subseteq Copies(Q \cup ({his} \ {Nobody}))
  BY DEF Copies
<1>4. his # Nobody => his \notin him /\ his \notin me
  BY <1>0, <1>2 DEF Fresh
<1>5. mine # Nobody => mine \notin him /\ mine \notin me
  BY <1>0, <1>2 DEF Fresh
<1>6. c.me \cap c.him = {}
  BY <1>0, <1>2, <1>4, <1>5
<1>7. Way(c, A, B, P \cup ({mine} \ {Nobody}), Q \cup ({his} \ {Nobody}))
  BY <1>2, <1>3, <1>6 DEF Way
<1>8. \A i \in P \cup Q : (i \in c.me <=> i \in me) /\ (i \in c.him <=> i \in him)
  BY <1>0, <1>2 DEF Fresh
<1>9. mine # Nobody /\ his # Nobody => mine \in c.him /\ his \in c.me
  BY <1>2
<1> QED
  BY <1>1, <1>7, <1>8, <1>9 DEF Onward

\* The same when both take back what they gave.
LEMMA WayReturned ==
    ASSUME NEW A, NEW B, NEW P \in SUBSET Items, NEW Q \in SUBSET Items,
           NEW W \in SUBSET Items,
           NEW mine \in Items \cup {Nobody}, NEW his \in Items \cup {Nobody},
           NEW b, NEW c, NEW X, NEW Y, NEW C, NEW D,
           Way(b, A, B, P, Q), c.made \subseteq W, Returned(b, c, X, Y, mine, his),
           Adds(C, b.me, X, mine), Adds(D, b.him, Y, his),
           Distinct(A, B, P, Q, W, mine, his),
           P \cap Q = {}, W \cap A = {}, W \cap B = {}, W \cap P = {}, W \cap Q = {}
    PROVE  Onward(b, c, A, B, P, Q, mine, his)
<1>0. /\ mine # Nobody => Fresh(mine, A, B, P, Q, W)
      /\ his # Nobody => Fresh(his, A, B, P, Q, W)
      /\ mine # Nobody => mine # his
  BY DEF Distinct
<1>1. PICK me, him, made : me = b.me /\ him = b.him /\ made = b.made
  OBVIOUS
<1>2. /\ A \subseteq me /\ me \subseteq A \cup P \cup Q \cup (made \cap Copies(P))
      /\ B \subseteq him /\ him \subseteq B \cup P \cup Q \cup (made \cap Copies(Q))
      /\ me \cap him = {}
      /\ c.me = me \cup X /\ c.him = him \cup Y
      /\ c.made = made \cup (X \ {mine}) \cup (Y \ {his}) /\ made \subseteq W
  BY <1>1 DEF Way, Returned
<1>3. PICK cm, ch : cm = Copy[mine] /\ ch = Copy[his]
  OBVIOUS
<1>4. Nobody \notin Items /\ Nobody \notin W
  BY NobodyAssumption
<1>5. \A i \in X : /\ mine # Nobody /\ mine \in Items
                   /\ i = mine \/ (i = cm /\ i # mine /\ i \in W)
  <2> TAKE i \in X
  <2>1. mine # Nobody /\ mine \in Items /\ (i = mine \/ i = cm)
    BY <1>3 DEF Adds
  <2>2. i # mine => i \in W
    BY <1>2
  <2> QED
    BY <2>1, <2>2
<1>6. \A i \in Y : /\ his # Nobody /\ his \in Items
                   /\ i = his \/ (i = ch /\ i # his /\ i \in W)
  <2> TAKE i \in Y
  <2>1. his # Nobody /\ his \in Items /\ (i = his \/ i = ch)
    BY <1>3 DEF Adds
  <2>2. i # his => i \in W
    BY <1>2
  <2> QED
    BY <2>1, <2>2
<1>7. \A i, j \in Items : Copy[i] = Copy[j] /\ Copy[i] \in W => i = j
  BY <1>4, CopyAssumption
<1>8. mine # Nobody => mine \notin him /\ mine \notin me
  BY <1>0, <1>2 DEF Fresh
<1>9. his # Nobody => his \notin him /\ his \notin me
  BY <1>0, <1>2 DEF Fresh
<1>10. cm \in W /\ mine # Nobody /\ mine \in Items => cm \notin him
  <2> SUFFICES ASSUME cm \in W, mine # Nobody, mine \in Items, cm \in him PROVE FALSE
    OBVIOUS
  <2>1. cm \in Copies(Q)
    BY <1>2
  <2>2. PICK j \in Q : cm = Copy[j]
    BY <2>1 DEF Copies
  <2>3. j = mine
    BY <1>3, <1>7, <2>2
  <2> QED
    BY <1>0, <2>2, <2>3 DEF Fresh
<1>11. ch \in W /\ his # Nobody /\ his \in Items => ch \notin me
  <2> SUFFICES ASSUME ch \in W, his # Nobody, his \in Items, ch \in me PROVE FALSE
    OBVIOUS
  <2>1. ch \in Copies(P)
    BY <1>2
  <2>2. PICK j \in P : ch = Copy[j]
    BY <2>1 DEF Copies
  <2>3. j = his
    BY <1>3, <1>7, <2>2
  <2> QED
    BY <1>0, <2>2, <2>3 DEF Fresh
<1>12. ASSUME NEW i, i \in c.me, i \in c.him
       PROVE  FALSE
  <2>1. CASE i \in X /\ i \in Y
    <3>1. mine # Nobody /\ his # Nobody /\ mine # his /\ mine \in Items /\ his \in Items
      BY <1>0, <1>5, <1>6, <2>1
    <3>2. mine \notin W /\ his \notin W
      BY <1>0, <3>1 DEF Fresh
    <3>3. i = cm /\ i = ch /\ i \in W
      BY <1>5, <1>6, <2>1, <3>1, <3>2
    <3> QED
      BY <1>3, <1>7, <3>1, <3>3
  <2>2. CASE i \in X /\ i \in him
    BY <1>5, <1>8, <1>10, <2>2
  <2>3. CASE i \in me /\ i \in Y
    BY <1>6, <1>9, <1>11, <2>3
  <2> QED
    BY <1>2, <1>12, <2>1, <2>2, <2>3
<1>13. c.me \subseteq A \cup (P \cup ({mine} \ {Nobody})) \cup (Q \cup ({his} \ {Nobody}))
                      \cup (c.made \cap Copies(P \cup ({mine} \ {Nobody})))
  <2>1. \A i \in X : i # mine => i \in c.made /\ i \in Copies(P \cup ({mine} \ {Nobody}))
    BY <1>2, <1>3, <1>5 DEF Copies
  <2>2. Copies(P) \subseteq Copies(P \cup ({mine} \ {Nobody}))
    BY DEF Copies
  <2> QED
    BY <1>2, <1>5, <2>1, <2>2
<1>14. c.him \subseteq B \cup (P \cup ({mine} \ {Nobody})) \cup (Q \cup ({his} \ {Nobody}))
                       \cup (c.made \cap Copies(Q \cup ({his} \ {Nobody})))
  <2>1. \A i \in Y : i # his => i \in c.made /\ i \in Copies(Q \cup ({his} \ {Nobody}))
    BY <1>2, <1>3, <1>6 DEF Copies
  <2>2. Copies(Q) \subseteq Copies(Q \cup ({his} \ {Nobody}))
    BY DEF Copies
  <2> QED
    BY <1>2, <1>6, <2>1, <2>2
<1>15. Way(c, A, B, P \cup ({mine} \ {Nobody}), Q \cup ({his} \ {Nobody}))
  BY <1>2, <1>12, <1>13, <1>14 DEF Way
<1>16. \A i \in P \cup Q : i \notin X /\ i \notin Y
  <2>1. mine # Nobody => mine \notin P \cup Q
    BY <1>0 DEF Fresh
  <2>2. his # Nobody => his \notin P \cup Q
    BY <1>0 DEF Fresh
  <2> QED
    BY <1>5, <1>6, <2>1, <2>2
<1>17. mine # Nobody /\ his # Nobody => mine \notin Y /\ his \notin X
  <2>1. mine # Nobody => mine \notin W
    BY <1>0 DEF Fresh
  <2>2. his # Nobody => his \notin W
    BY <1>0 DEF Fresh
  <2> QED
    BY <1>0, <1>5, <1>6, <2>1, <2>2
<1>18. \A i \in P \cup Q : (i \in c.me <=> i \in me) /\ (i \in c.him <=> i \in him)
  BY <1>2, <1>16
<1>19. mine # Nobody /\ his # Nobody => mine \notin c.him /\ his \notin c.me
  BY <1>2, <1>8, <1>9, <1>17
<1> QED
  BY <1>1, <1>15, <1>18, <1>19 DEF Onward

\* The two items of slot s have changed hands, or neither has.
Together(b, p, q, s) ==
    ItemIn(p, s) # Nobody /\ ItemIn(q, s) # Nobody
    => (ItemIn(p, s) \in b.him <=> ItemIn(q, s) \in b.me)

\* Whatever the limits say: moveItems leaves what was not offered, exchanges slots
\* as a whole, stays within the room of both and gives nothing to both; W has the
\* copies.
LEMMA MovedAnyway ==
    ASSUME trade \in Windows, bag \in Bags, Apart(bag), Spread(trade),
           NEW p \in Players, NEW q \in Players, p # q,
           CanStoreItems(p, Given(q), Given(p)), CanStoreItems(q, Given(p), Given(q)),
           NEW W \in SUBSET Items, W \cap bag[p] = {}, W \cap bag[q] = {},
           moveItems(p, q).made \subseteq W
    PROVE  /\ Way(moveItems(p, q), bag[p] \ Given(p), bag[q] \ Given(q), Given(p), Given(q))
           /\ Cardinality(moveItems(p, q).me) <= Capacity[p]
           /\ Cardinality(moveItems(p, q).him) <= Capacity[q]
           /\ \A s \in TradedSlots : Together(moveItems(p, q), p, q, s)
<1> DEFINE A == bag[p] \ Given(p)
           B == bag[q] \ Given(q)
<1>1. /\ NumSlots \in Nat /\ Capacity[p] \in Nat /\ Capacity[q] \in Nat
      /\ IsFiniteSet(Items) /\ Nobody \notin Items
  BY NumberAssumption, BagAssumption, NobodyAssumption
<1>2. PICK f : /\ moveItems(p, q) = f[NumSlots]
               /\ f[0] = [me |-> A, him |-> B, made |-> {}]
               /\ \A n \in 1 .. NumSlots :
                    f[n] = MoveSlot(p, q, f[n - 1], ItemIn(p, n), ItemIn(q, n))
  BY <1>1, MoveUnfolds
<1>3. /\ f[0].me = A /\ f[0].him = B /\ f[0].made = {}
  BY <1>2
<1>4. \A n \in 1 .. NumSlots : f[n] = MoveSlot(p, q, f[n - 1], ItemIn(p, n), ItemIn(q, n))
  BY <1>2
<1>5. First(p, 0) = {} /\ First(q, 0) = {}
  BY DEF First
<1>6. /\ First(p, NumSlots) = Given(p) /\ First(q, NumSlots) = Given(q)
  BY DEF First, Given, TradedSlots
<1>7. /\ A \in SUBSET Items /\ B \in SUBSET Items
      /\ Given(p) \in SUBSET Items /\ Given(q) \in SUBSET Items
      /\ Given(p) \subseteq bag[p] /\ Given(q) \subseteq bag[q]
      /\ bag[p] \cap bag[q] = {}
  BY GivenOwned DEF Bags, Apart
<1>8. /\ A \cap B = {} /\ Given(p) \cap Given(q) = {}
      /\ Given(p) \cap A = {} /\ Given(p) \cap B = {}
      /\ Given(q) \cap A = {} /\ Given(q) \cap B = {}
      /\ W \cap A = {} /\ W \cap B = {} /\ W \cap Given(p) = {} /\ W \cap Given(q) = {}
  BY <1>7
<1>9. Cardinality(A) <= Capacity[p] /\ Cardinality(B) <= Capacity[q]
  <2>1. /\ Cardinality(A) + Cardinality(Given(q)) <= Capacity[p]
        /\ Cardinality(B) + Cardinality(Given(p)) <= Capacity[q]
    BY DEF CanStoreItems
  <2>2. /\ IsFiniteSet(A) /\ IsFiniteSet(B) /\ IsFiniteSet(Given(p)) /\ IsFiniteSet(Given(q))
    BY <1>1, <1>7, FS_Subset
  <2>3. /\ Cardinality(A) \in Nat /\ Cardinality(B) \in Nat
        /\ Cardinality(Given(p)) \in Nat /\ Cardinality(Given(q)) \in Nat
    BY <2>2, FS_CardinalityType
  <2> HIDE DEF A, B
  <2> QED
    BY <1>1, <2>1, <2>3
<1> DEFINE OK(n) == /\ Way(f[n], A, B, First(p, n), First(q, n))
                    /\ Cardinality(f[n].me) <= Capacity[p]
                    /\ Cardinality(f[n].him) <= Capacity[q]
                    /\ \A s \in 1 .. n : Together(f[n], p, q, s)
           Is(n) == f[n].made \subseteq W => OK(n)
<1> HIDE DEF A, B
<1>10. Is(0)
  BY <1>3, <1>5, <1>8, <1>9 DEF Way
<1>11. ASSUME NEW n \in 1 .. NumSlots, Is(n - 1), f[n].made \subseteq W
       PROVE  OK(n)
  <2>1. PICK mine, his : mine = ItemIn(p, n) /\ his = ItemIn(q, n)
    OBVIOUS
  <2>2. PICK P, Q : P = First(p, n - 1) /\ Q = First(q, n - 1)
    OBVIOUS
  <2>3. PICK b, c : b = f[n - 1] /\ c = f[n]
    OBVIOUS
  <2>4. /\ First(p, n) = P \cup ({mine} \ {Nobody}) /\ P \subseteq Given(p)
        /\ mine # Nobody => mine \in Given(p) /\ mine \notin P
    BY <1>1, <2>1, <2>2, FirstStep
  <2>5. /\ First(q, n) = Q \cup ({his} \ {Nobody}) /\ Q \subseteq Given(q)
        /\ his # Nobody => his \in Given(q) /\ his \notin Q
    BY <1>1, <2>1, <2>2, FirstStep
  <2>6. c = MoveSlot(p, q, b, mine, his)
    BY <1>4, <2>1, <2>3
  <2>7. b.made \subseteq c.made
    BY <2>6 DEF MoveSlot
  <2>8. /\ Way(b, A, B, P, Q) /\ Cardinality(b.me) <= Capacity[p]
        /\ Cardinality(b.him) <= Capacity[q]
        /\ \A s \in 1 .. n - 1 : Together(b, p, q, s)
    BY <1>11, <2>2, <2>3, <2>7
  <2>9. b.me \in SUBSET Items /\ b.him \in SUBSET Items
    <3>1. b.made \subseteq Items
      BY <1>11, <2>3, <2>7
    <3> QED
      BY <1>7, <2>4, <2>5, <2>8, <3>1 DEF Way
  <2>10. Cardinality(b.me) \in Nat /\ Cardinality(b.him) \in Nat
    BY <1>1, <2>9, FS_Subset, FS_CardinalityType
  <2>11. /\ mine \in Items \cup {Nobody} /\ his \in Items \cup {Nobody}
         /\ P \in SUBSET Items /\ Q \in SUBSET Items /\ P \cap Q = {}
         /\ W \cap P = {} /\ W \cap Q = {}
    BY <1>7, <1>8, <2>4, <2>5
  <2>12. Distinct(A, B, P, Q, W, mine, his)
    BY <1>1, <1>7, <1>8, <2>4, <2>5 DEF Fresh, Distinct
  <2>13. /\ Onward(b, c, A, B, P, Q, mine, his)
         /\ Cardinality(c.me) <= Capacity[p] /\ Cardinality(c.him) <= Capacity[q]
    <3>1. CASE /\ Swapped(b, c, mine, his)
               /\ his # Nobody => Cardinality(b.me) < Capacity[p]
               /\ mine # Nobody => Cardinality(b.him) < Capacity[q]
      <4>1. Cardinality(b.me \cup ({his} \ {Nobody})) <= Capacity[p]
        BY <1>1, <2>8, <2>9, <2>11, <3>1, RoomKept
      <4>2. Cardinality(b.him \cup ({mine} \ {Nobody})) <= Capacity[q]
        BY <1>1, <2>8, <2>9, <2>11, <3>1, RoomKept
      <4>3. c.me = b.me \cup ({his} \ {Nobody}) /\ c.him = b.him \cup ({mine} \ {Nobody})
        BY <3>1 DEF Swapped
      <4>4. c.made \subseteq W
        BY <1>11, <2>3
      <4>5. Onward(b, c, A, B, P, Q, mine, his)
        BY <2>8, <2>12, <3>1, <4>4, WaySwapped
      <4> QED
        BY <4>1, <4>2, <4>3, <4>5
    <3>2. ASSUME NEW X, NEW Y, Returned(b, c, X, Y, mine, his),
                 Adds(Capacity[p], b.me, X, mine), Adds(Capacity[q], b.him, Y, his)
          PROVE  /\ Onward(b, c, A, B, P, Q, mine, his)
                 /\ Cardinality(c.me) <= Capacity[p] /\ Cardinality(c.him) <= Capacity[q]
      <4>1. Cardinality(b.me \cup X) <= Capacity[p]
        BY <1>1, <2>8, <2>9, <2>11, <3>2, RoomKept
      <4>2. Cardinality(b.him \cup Y) <= Capacity[q]
        BY <1>1, <2>8, <2>9, <2>11, <3>2, RoomKept
      <4>3. c.me = b.me \cup X /\ c.him = b.him \cup Y
        BY <3>2 DEF Returned
      <4>4. c.made \subseteq W
        BY <1>11, <2>3
      <4>5. Onward(b, c, A, B, P, Q, mine, his)
        BY <1>8, <2>8, <2>11, <2>12, <3>2, <4>4, WayReturned
      <4> QED
        BY <4>1, <4>2, <4>3, <4>5
    <3> QED
      BY <2>6, <2>10, <3>1, <3>2, SlotMoves
  <2>14. ASSUME NEW s \in 1 .. n
         PROVE  Together(c, p, q, s)
    <3>1. CASE s = n
      BY <2>1, <2>13, <3>1 DEF Together, Onward
    <3>2. CASE s # n
      <4>1. s \in 1 .. n - 1
        BY <3>2
      <4>2. /\ ItemIn(p, s) # Nobody => ItemIn(p, s) \in P
            /\ ItemIn(q, s) # Nobody => ItemIn(q, s) \in Q
        BY <2>2, <4>1 DEF First
      <4>3. Together(b, p, q, s)
        BY <2>8, <4>1
      <4> QED
        BY <2>13, <4>2, <4>3 DEF Together, Onward
    <3> QED
      BY <3>1, <3>2
  <2>15. Way(c, A, B, First(p, n), First(q, n))
    BY <2>4, <2>5, <2>13 DEF Onward
  <2> QED
    BY <2>3, <2>13, <2>14, <2>15
<1>12. Is(NumSlots)
  <2> DEFINE T == {n \in 0 .. NumSlots : ~Is(n)}
  <2>1. SUFFICES ASSUME T # {} PROVE FALSE
    <3>1. NumSlots \in 0 .. NumSlots
      BY <1>1
    <3> HIDE DEF Is
    <3> QED
      BY <3>1
  <2>2. PICK m \in T : \A k \in T : m <= k
    <3>1. T \subseteq Nat
      OBVIOUS
    <3> HIDE DEF T
    <3> QED
      BY <2>1, <3>1, LeastElement
  <2>3. m \in 0 .. NumSlots /\ ~Is(m)
    <3> HIDE DEF Is
    <3> QED
      BY <2>2
  <2>4. m # 0
    <3> HIDE DEF Is
    <3> QED
      BY <1>10, <2>3
  <2>5. m \in 1 .. NumSlots /\ m - 1 \in 0 .. NumSlots /\ ~(m <= m - 1)
    BY <1>1, <2>3, <2>4
  <2>6. Is(m - 1)
    <3> HIDE DEF Is
    <3> QED
      BY <2>2, <2>5
  <2>7. f[m].made \subseteq W => OK(m)
    <3> HIDE DEF OK
    <3> QED
      BY <1>11, <2>5, <2>6
  <2> QED
    <3> HIDE DEF OK
    <3> QED
      BY <2>3, <2>7
<1>13. OK(NumSlots)
  <2>1. f[NumSlots].made \subseteq W
    BY <1>2
  <2> HIDE DEF OK
  <2> QED
    BY <1>12, <2>1
<1> QED
  BY <1>2, <1>6, <1>13 DEF A, B, TradedSlots

-----------------------------------------------------------------------------
(* The handlers keep the items of a window apart                            *)

\* Two windows are replaced by empty ones.
LEMMA EmptiedSpread ==
    ASSUME NEW t \in Windows, Spread(t), NEW p \in Players, NEW q \in Players,
           NEW d, NEW e, \A s \in Slots : d.items[s] = Nobody /\ e.items[s] = Nobody,
           NEW u, u = [t EXCEPT ![p] = d, ![q] = e]
    PROVE  Spread(u)
<1>1. \A r \in Players : u[r] = t[r] \/ u[r] = d \/ u[r] = e
  BY DEF Windows
<1>2. ASSUME NEW r \in Players, NEW s \in Slots, NEW v \in Slots, s # v,
             u[r].items[s] = u[r].items[v]
      PROVE  u[r].items[s] = Nobody
  <2>1. CASE u[r] = t[r]
    BY <1>2, <2>1 DEF Spread
  <2>2. CASE u[r] = d \/ u[r] = e
    BY <2>2
  <2> QED
    BY <1>1, <2>1, <2>2
<1> QED
  BY <1>2 DEF Spread

LEMMA EmptyItems ==
    ASSUME NEW q, NEW s \in Slots
    PROVE  NewTrade(q).items[s] = Nobody /\ NoTrade.items[s] = Nobody
  BY DEF NewTrade, NoTrade

LEMMA AcceptSpread ==
    ASSUME IInv, Spread(trade), NEW p \in Players, HandleAcceptTrade(p)
    PROVE  Spread(trade')
<1> DEFINE q == trade[p].with
           A == Accepted(p)
           t == [trade EXCEPT ![p] = A]
<1>1. trade[p].open /\ q = Trader(p)
  BY DEF HandleAcceptTrade, IsOpen, Trader
<1>2. /\ WindowsOK(trade, stirred) /\ trade \in Windows /\ trade[p] \in TradeData
  BY DEF IInv, WindowsOK, Windows
<1>3. WindowsOK(t, stirred) /\ t[p].open /\ t[p].with = q
  BY <1>1, <1>2, AcceptedOK
<1>4. A.items = trade[p].items
  BY <1>2 DEF Accepted, TradeData
<1> HIDE DEF A
<1>5. Kept(trade, t)
  BY <1>2, <1>4 DEF Kept, Windows
<1>6. \/ trade' = t
      \/ trade' = [t EXCEPT ![p] = Withdrawn(@)]
      \/ trade' = [t EXCEPT ![q] = Withdrawn(@)]
      \/ trade' = SetSpell(t, p, Nobody)
      \/ trade' = SetSpell(t, q, Nobody)
      \/ trade' = [Unaccepted(t, p) EXCEPT ![q].fresh = TRUE]
      \/ trade' = Closed(trade, p)
  BY <1>1 DEF HandleAcceptTrade, Refuse, Exchange, A
<1>7. Spread(t)
  BY <1>5, SpreadKept
<1> HIDE DEF t
<1>8. Facing(t, p, q) /\ Facing(t, q, p)
  BY <1>3, OpenFaces
<1>9. /\ t \in Windows /\ q \in Players /\ p # q /\ t[q].with = p
  BY <1>8 DEF Facing, LeavesOthers
<1> HIDE DEF q
<1>10. ASSUME NEW r \in Players
       PROVE  Spread([t EXCEPT ![r] = Withdrawn(@)])
  <2> DEFINE W == Withdrawn(t[r])
  <2>1. W.items = t[r].items
    BY <1>9, WithdrawnType DEF Windows
  <2> HIDE DEF W
  <2>2. Kept(t, [t EXCEPT ![r] = W])
    BY <1>9, <2>1 DEF Kept, Windows
  <2>3. Spread([t EXCEPT ![r] = W])
    BY <1>7, <2>2, SpreadKept
  <2> QED
    BY <2>3 DEF W
<1>11. Spread(SetSpell(t, p, Nobody)) /\ Spread(SetSpell(t, q, Nobody))
  <2>1. t[p].with # p /\ t[q].with # q
    BY <1>3, <1>9
  <2> QED
    BY <1>7, <1>9, <2>1, SetItems, SpreadKept
<1>12. Spread([Unaccepted(t, p) EXCEPT ![q].fresh = TRUE])
  <2> DEFINE u == Unaccepted(t, p)
             d == [u[q] EXCEPT !.fresh = TRUE]
  <2>1. u \in Windows /\ Kept(t, u)
    BY <1>3, <1>9, UnacceptedItems
  <2> HIDE DEF u
  <2>2. d.items = u[q].items
    BY <1>9, <2>1 DEF Windows, TradeData
  <2>3. [u EXCEPT ![q].fresh = TRUE] = [u EXCEPT ![q] = d]
    OBVIOUS
  <2> HIDE DEF d
  <2>4. Kept(u, [u EXCEPT ![q] = d])
    BY <1>9, <2>1, <2>2 DEF Kept, Windows
  <2>5. Spread(u)
    BY <1>7, <2>1, SpreadKept
  <2>6. Spread([u EXCEPT ![q] = d])
    BY <2>4, <2>5, SpreadKept
  <2> QED
    BY <2>3, <2>6 DEF u
<1>13. Spread(Closed(trade, p))
  <2>1. Closed(trade, p) = [trade EXCEPT ![p] = NoTrade, ![q] = NoTrade]
    BY DEF Closed, q
  <2>2. \A s \in Slots : NoTrade.items[s] = Nobody
    BY EmptyItems
  <2>3. trade \in Windows /\ q \in Players
    BY <1>2, <1>9
  <2>4. Spread([trade EXCEPT ![p] = NoTrade, ![q] = NoTrade])
    BY <2>2, <2>3, EmptiedSpread
  <2> QED
    BY <2>1, <2>4
<1> QED
  BY <1>6, <1>7, <1>9, <1>10, <1>11, <1>12, <1>13

LEMMA SpreadKeeps == IInv /\ Spread(trade) /\ [Next]_vars => Spread(trade')
<1> SUFFICES ASSUME IInv, Spread(trade), [Next]_vars PROVE Spread(trade')
  OBVIOUS
<1> USE NumberAssumption
<1>1. WindowsOK(trade, stirred) /\ trade \in Windows
  BY DEF IInv, WindowsOK
<1>2. ASSUME NEW p \in Players, trade[p].open
      PROVE  /\ Facing(trade, p, trade[p].with)
             /\ Facing(Modified(trade, p), p, trade[p].with)
             /\ Modified(trade, p)[p].with # p /\ trade[p].with # p
             /\ trade[p].with \in Players
  BY <1>1, <1>2, OpenFaces, ModifiedFaces DEF Facing, LeavesOthers
<1>3. ASSUME NEW p \in Players, trade[p].open
      PROVE  /\ Modified(trade, p) \in Windows /\ Kept(trade, Modified(trade, p))
             /\ Spread(Modified(trade, p))
  BY <1>2, <1>3, ModifiedItems, SpreadKept
<1>4. ASSUME NEW p \in Players, NEW q \in Players, BeginTrade(p, q)
      PROVE  Spread(trade')
  <2>1. trade' = [trade EXCEPT ![p] = NewTrade(q), ![q] = NewTrade(p)]
    BY <1>4 DEF BeginTrade
  <2> QED
    BY <1>1, <2>1, EmptiedSpread, EmptyItems
<1>5. ASSUME NEW p \in Players, HandleSetTradeGold(p)
      PROVE  Spread(trade')
  <2>1. PICK amount \in 0 .. MaxMoney : trade' = SetMoney(Modified(trade, p), p, amount)
    BY <1>5 DEF HandleSetTradeGold, Window
  <2>2. trade[p].open /\ amount \in Nat
    BY <1>5 DEF HandleSetTradeGold, IsOpen
  <2>3. Kept(Modified(trade, p), SetMoney(Modified(trade, p), p, amount))
    BY <1>2, <1>3, <2>2, SetItems
  <2> QED
    BY <1>3, <2>1, <2>2, <2>3, SpreadKept
<1>6. ASSUME NEW p \in Players, HandleSetTradeItem(p) \/ HandleClearTradeItem(p)
      PROVE  Spread(trade')
  <2>1. trade[p].open
    BY <1>6 DEF HandleSetTradeItem, HandleClearTradeItem, IsOpen
  <2>2. PICK slot \in Slots, i \in Items \cup {Nobody} :
               /\ trade' = SetItem(Modified(trade, p), p, slot, i)
               /\ i = Nobody \/ \A s \in Slots : trade[p].items[s] # i
    BY <1>6 DEF HandleSetTradeItem, HandleClearTradeItem, Window
  <2>3. i = Nobody \/ \A s \in Slots : Modified(trade, p)[p].items[s] # i
    BY <1>3, <2>1, <2>2 DEF Kept
  <2> QED
    BY <1>2, <1>3, <2>1, <2>2, <2>3, SetItemSpreads
<1>7. ASSUME NEW p \in Players, CastOnTradeSlot(p)
      PROVE  Spread(trade')
  <2>1. trade[p].open
    BY <1>7 DEF CastOnTradeSlot, IsOpen
  <2>2. PICK spell \in Spells : trade' = SetSpell(trade, p, spell)
    BY <1>7 DEF CastOnTradeSlot, Window
  <2>3. Kept(trade, SetSpell(trade, p, spell))
    BY <1>1, <1>2, <2>1, SetItems
  <2> QED
    BY <2>2, <2>3, SpreadKept
<1>8. ASSUME NEW p \in Players, HandleUnacceptTrade(p)
      PROVE  Spread(trade')
  <2> DEFINE W == Withdrawn(trade[p])
  <2>1. trade' = [trade EXCEPT ![p] = W]
    BY <1>8 DEF HandleUnacceptTrade, Window
  <2>2. W.items = trade[p].items
    BY <1>1, WithdrawnType DEF Windows
  <2> HIDE DEF W
  <2>3. Kept(trade, trade')
    BY <1>1, <2>1, <2>2 DEF Kept, Windows
  <2> QED
    BY <2>3, SpreadKept
<1>9. ASSUME NEW p \in Players, TradeCancel(p)
      PROVE  Spread(trade')
  <2>1. trade[p].open /\ trade' = Closed(trade, p)
    BY <1>9 DEF TradeCancel, IsOpen
  <2>2. trade' = [trade EXCEPT ![p] = NoTrade, ![trade[p].with] = NoTrade]
    BY <2>1 DEF Closed
  <2>3. trade[p].with \in Players
    BY <1>2, <2>1
  <2>4. \A s \in Slots : NoTrade.items[s] = Nobody
    BY EmptyItems
  <2> QED
    BY <1>1, <2>2, <2>3, <2>4, EmptiedSpread
<1>10. CASE Tick
  <2>1. \A p \in Players : trade'[p].items = trade[p].items
    BY <1>1, <1>10 DEF Tick, Windows, TradeData
  <2> QED
    BY <2>1, SpreadKept DEF Kept
<1>11. CASE Crash
  <2>1. trade' = [p \in Players |-> NoTrade]
    BY <1>11 DEF Crash
  <2> QED
    BY <2>1, EmptyItems DEF Spread
<1>12. ASSUME UNCHANGED trade PROVE Spread(trade')
  BY <1>12
<1>13. ASSUME NEW p \in Players, Elsewhere(p) PROVE Spread(trade')
  BY <1>12, <1>13 DEF Elsewhere
<1>14. ASSUME NEW w \in Workers, Execute(w) PROVE Spread(trade')
  BY <1>12, <1>14 DEF Execute
<1>15. CASE UNCHANGED vars
  BY <1>12, <1>15 DEF vars
<1> QED
  BY <1>4, <1>5, <1>6, <1>7, <1>8, <1>9, <1>10, <1>11, <1>13, <1>14, <1>15,
     AcceptSpread DEF Next

-----------------------------------------------------------------------------
(* What is owned                                                            *)

\* The rows that the memory stands for.
Holdings(g, b, l) == [gold |-> g, bag |-> [p \in Players |-> b[p] \cup l[p]]]

Memory == Holdings(gold, bag, limbo)

\* Everything has one owner at most, in memory and in the rows, with any number of
\* workers.
Stock ==
    /\ Spread(trade)
    /\ gold \in Purses /\ bag \in Bags /\ limbo \in Bags
    /\ Apart(bag) /\ Apart(limbo) /\ \A p, q \in Players : bag[p] \cap limbo[q] = {}
    /\ rows \in Ledgers /\ Apart(rows.bag)
    /\ queue \in Seq(Save)

LEMMA InitStock == Init => Stock /\ Leads(queue, rows, Memory)
<1> SUFFICES ASSUME Init PROVE Stock /\ Leads(queue, rows, Memory)
  OBVIOUS
<1>1. Spread(trade)
  BY EmptyItems DEF Init, Spread
<1>2. gold \in Purses
  BY NumberAssumption DEF Init, Purses
<1>3. bag \in Bags /\ Apart(bag)
  BY BagAssumption DEF Init, Bags, Apart
<1>4. rows = [gold |-> gold, bag |-> bag] /\ queue = << >>
  BY DEF Init
<1>5. limbo = [p \in Players |-> {}]
  BY DEF Init
<1>6. limbo \in Bags /\ Apart(limbo) /\ \A p, q \in Players : bag[p] \cap limbo[q] = {}
  BY <1>5 DEF Bags, Apart
<1>7. rows \in Ledgers /\ rows.bag = bag /\ queue \in Seq(Save)
  BY <1>2, <1>3, <1>4 DEF Ledgers
<1>8. [p \in Players |-> bag[p] \cup limbo[p]] = bag
  BY <1>3, <1>5 DEF Bags
<1>9. rows = Memory
  BY <1>4, <1>8 DEF Memory, Holdings
<1>10. Leads(queue, rows, Memory)
  BY <1>4, <1>9, NothingLeads
<1> QED
  BY <1>1, <1>2, <1>3, <1>6, <1>7, <1>10 DEF Stock

LEMMA SameLedger ==
    ASSUME NEW a \in Ledgers, NEW b \in Ledgers, a.gold = b.gold,
           \A p \in Players : a.bag[p] = b.bag[p]
    PROVE  a = b
<1>1. a = [gold |-> a.gold, bag |-> a.bag] /\ b = [gold |-> b.gold, bag |-> b.bag]
  BY DEF Ledgers
<1>2. a.bag \in Bags /\ b.bag \in Bags
  BY DEF Ledgers
<1>3. a.bag = b.bag
  BY <1>2 DEF Bags
<1> QED
  BY <1>1, <1>3

LEMMA LedgerParts ==
    ASSUME NEW g \in Purses, NEW b \in Bags, NEW l \in Bags, NEW m,
           m = Holdings(g, b, l)
    PROVE  /\ m \in Ledgers /\ m.gold = g
           /\ \A p \in Players : m.bag[p] = b[p] \cup l[p]
<1> DEFINE c == [p \in Players |-> b[p] \cup l[p]]
<1>1. c \in Bags
  BY DEF Bags
<1>2. \A p \in Players : c[p] = b[p] \cup l[p]
  OBVIOUS
<1>3. m = [gold |-> g, bag |-> c]
  BY DEF Holdings
<1> HIDE DEF c
<1>4. m \in Ledgers /\ m.gold = g
  BY <1>1, <1>3 DEF Ledgers
<1>5. m.bag = c
  BY <1>3
<1> QED
  BY <1>2, <1>4, <1>5

\* HandleAcceptTradeOpcode leaves what is owned alone, or makes a deal after the
\* checks of money and room.
LEMMA AcceptCases ==
    ASSUME IInv, NEW p \in Players, HandleAcceptTrade(p), NEW q, q = trade[p].with
    PROVE  /\ rows' = rows /\ q \in Players /\ p # q
           /\ \/ deal' = NoDeal /\ UNCHANGED <<gold, bag, limbo, queue>>
              \/ /\ Exchange(p, q)
                 /\ CanStoreItems(p, Given(q), Given(p))
                 /\ CanStoreItems(q, Given(p), Given(q))
                 /\ ~(trade[p].money > gold[p]) /\ ~(trade[q].money > gold[q])
<1>1. trade[p].open /\ q = Trader(p)
  BY DEF HandleAcceptTrade, IsOpen, Trader
<1>2. q \in Players /\ p # q
  BY <1>1 DEF IInv, WindowsOK, Paired
<1> QED
  BY <1>1, <1>2 DEF HandleAcceptTrade, Refuse, owned

\* A deal of p, who gives P and has me in the end, and of q, who gives Q and has
\* him; the copies made are in neither inventory before.
Dealt(p, q, P, Q, me, him, made) ==
    /\ P \subseteq bag[p] /\ Q \subseteq bag[q]
    /\ bag[p] \ P \subseteq me /\ bag[q] \ Q \subseteq him /\ me \cap him = {}
    /\ me \subseteq (bag[p] \ P) \cup P \cup Q \cup made
    /\ him \subseteq (bag[q] \ Q) \cup P \cup Q \cup made
    /\ made \subseteq Items
    /\ \A r \in Players : /\ made \cap bag[r] = {} /\ made \cap limbo[r] = {}
                          /\ made \cap rows.bag[r] = {}

\* A deal as a step.
DealStep(p, q, P, Q, me, him, made) ==
    /\ Dealt(p, q, P, Q, me, him, made)
    /\ Cardinality(me) <= Capacity[p] /\ Cardinality(him) <= Capacity[q]
    /\ \A s \in TradedSlots :
         ItemIn(p, s) # Nobody /\ ItemIn(q, s) # Nobody
         => (ItemIn(p, s) \in him <=> ItemIn(q, s) \in me)
    /\ bag' = [bag EXCEPT ![p] = me, ![q] = him]
    /\ limbo' = [limbo EXCEPT ![p] = @ \cup (P \ (me \cup him)),
                              ![q] = @ \cup (Q \ (me \cup him))]
    /\ gold' = [gold EXCEPT
                  ![p] = AfterMoney(gold[p], trade[p].money, trade[q].money),
                  ![q] = AfterMoney(gold[q], trade[q].money, trade[p].money)]
    /\ queue' = Append(Append(queue,
                  SaveOf(p, gold'[p], me \cap made, me \cap (P \cup Q), {})),
                  SaveOf(q, gold'[q], him \cap made, him \cap (P \cup Q), {}))
    /\ deal' = [made |-> TRUE, by |-> p, with |-> q]

\* What a deal makes of the inventories and the purses.
LEMMA DealMoves ==
    ASSUME IInv, Stock, NEW p \in Players, NEW q \in Players, p # q, Exchange(p, q),
           CanStoreItems(p, Given(q), Given(p)), CanStoreItems(q, Given(p), Given(q)),
           NEW me, NEW him, NEW made, NEW P, NEW Q, P = Given(p), Q = Given(q),
           moveItems(p, q).me = me, moveItems(p, q).him = him, moveItems(p, q).made = made
    PROVE  DealStep(p, q, P, Q, me, him, made)
<1>1. /\ trade \in Windows /\ bag \in Bags /\ gold \in Purses /\ Apart(bag)
      /\ Spread(trade) /\ queue \in Seq(Save)
  BY DEF IInv, WindowsOK, Stock
<1>2. PICK items : items = moveItems(p, q)
  OBVIOUS
<1>3. items.me = me /\ items.him = him /\ items.made = made
  BY <1>2
<1>4. /\ made \subseteq Unowned
      /\ bag' = [bag EXCEPT ![p] = items.me, ![q] = items.him]
      /\ limbo' = [limbo EXCEPT ![p] = @ \cup (Given(p) \ (items.me \cup items.him)),
                                ![q] = @ \cup (Given(q) \ (items.me \cup items.him))]
      /\ Queue(SaveBoth(p, q, items, gold'))
      /\ deal' = [made |-> TRUE, by |-> p, with |-> q]
  BY <1>2, <1>3 DEF Exchange
<1>5. gold' = [gold EXCEPT
                 ![p] = AfterMoney(gold[p], trade[p].money, trade[q].money),
                 ![q] = AfterMoney(gold[q], trade[q].money, trade[p].money)]
  BY <1>1 DEF Exchange, Purses
<1>6. \A x, y : queue \o <<x, y>> = Append(Append(queue, x), y)
  BY <1>1
<1>7. queue' = Append(Append(queue,
                 SaveOf(p, gold'[p], me \cap made, me \cap (P \cup Q), {})),
                 SaveOf(q, gold'[q], him \cap made, him \cap (P \cup Q), {}))
  <2>1. PICK x, y : /\ x = SaveAfter(p, q, p, items.me, items, gold')
                    /\ y = SaveAfter(p, q, q, items.him, items, gold')
    OBVIOUS
  <2>2. queue' = queue \o <<x, y>>
    BY <1>4, <2>1 DEF Queue, SaveBoth
  <2>3. /\ x = SaveOf(p, gold'[p], me \cap made, me \cap (P \cup Q), {})
        /\ y = SaveOf(q, gold'[q], him \cap made, him \cap (P \cup Q), {})
    BY <1>3, <2>1 DEF SaveAfter
  <2> QED
    BY <1>6, <2>2, <2>3
<1>8. /\ Unowned \in SUBSET Items
      /\ \A r \in Players : /\ Unowned \cap bag[r] = {} /\ Unowned \cap limbo[r] = {}
                            /\ Unowned \cap rows.bag[r] = {}
  BY DEF Unowned
<1>9. PICK W : W = Unowned
  OBVIOUS
<1>10. /\ Way(moveItems(p, q), bag[p] \ Given(p), bag[q] \ Given(q), Given(p), Given(q))
       /\ Cardinality(moveItems(p, q).me) <= Capacity[p]
       /\ Cardinality(moveItems(p, q).him) <= Capacity[q]
       /\ \A s \in TradedSlots : Together(moveItems(p, q), p, q, s)
  <2>1. /\ W \in SUBSET Items /\ W \cap bag[p] = {} /\ W \cap bag[q] = {}
        /\ moveItems(p, q).made \subseteq W
    BY <1>4, <1>8, <1>9
  <2> QED
    BY <1>1, <2>1, MovedAnyway
<1>11. P \subseteq bag[p] /\ Q \subseteq bag[q]
  BY <1>1, GivenOwned
<1>12. /\ bag[p] \ P \subseteq me /\ bag[q] \ Q \subseteq him /\ me \cap him = {}
       /\ me \subseteq (bag[p] \ P) \cup P \cup Q \cup made
       /\ him \subseteq (bag[q] \ Q) \cup P \cup Q \cup made
  BY <1>10 DEF Way
<1>13. /\ made \subseteq Items
       /\ \A r \in Players : /\ made \cap bag[r] = {} /\ made \cap limbo[r] = {}
                             /\ made \cap rows.bag[r] = {}
  BY <1>4, <1>8
<1>14. Dealt(p, q, P, Q, me, him, made)
  BY <1>11, <1>12, <1>13 DEF Dealt
<1>15. \A s \in TradedSlots :
         ItemIn(p, s) # Nobody /\ ItemIn(q, s) # Nobody
         => (ItemIn(p, s) \in him <=> ItemIn(q, s) \in me)
  BY <1>10 DEF Together
<1> QED
  BY <1>3, <1>4, <1>5, <1>7, <1>10, <1>14, <1>15 DEF DealStep

\* The inventories after a deal, player by player.
LEMMA DealBags ==
    ASSUME Stock, NEW p \in Players, NEW q \in Players, p # q,
           NEW P, NEW Q, NEW me, NEW him, NEW made, Dealt(p, q, P, Q, me, him, made),
           bag' = [bag EXCEPT ![p] = me, ![q] = him],
           limbo' = [limbo EXCEPT ![p] = @ \cup (P \ (me \cup him)),
                                  ![q] = @ \cup (Q \ (me \cup him))]
    PROVE  /\ bag'[p] = me /\ bag'[q] = him
           /\ limbo'[p] = limbo[p] \cup (P \ (me \cup him))
           /\ limbo'[q] = limbo[q] \cup (Q \ (me \cup him))
           /\ \A r \in Players : r # p /\ r # q => bag'[r] = bag[r] /\ limbo'[r] = limbo[r]
           /\ bag' \in Bags /\ limbo' \in Bags /\ Apart(bag') /\ Apart(limbo')
           /\ \A r, z \in Players : bag'[r] \cap limbo'[z] = {}
<1>1. bag \in Bags /\ limbo \in Bags
  BY DEF Stock
<1>2. /\ bag'[p] = me /\ bag'[q] = him
      /\ limbo'[p] = limbo[p] \cup (P \ (me \cup him))
      /\ limbo'[q] = limbo[q] \cup (Q \ (me \cup him))
      /\ \A r \in Players : r # p /\ r # q => bag'[r] = bag[r] /\ limbo'[r] = limbo[r]
  BY <1>1 DEF Bags
<1>3. /\ \A r, z \in Players : r # z => bag[r] \cap bag[z] = {} /\ limbo[r] \cap limbo[z] = {}
      /\ \A r, z \in Players : bag[r] \cap limbo[z] = {}
  BY DEF Stock, Apart
<1>4. /\ P \subseteq bag[p] /\ Q \subseteq bag[q] /\ me \cap him = {}
      /\ me \subseteq bag[p] \cup bag[q] \cup made
      /\ him \subseteq bag[p] \cup bag[q] \cup made
      /\ made \subseteq Items
      /\ \A r \in Players : made \cap bag[r] = {} /\ made \cap limbo[r] = {}
  BY DEF Dealt
<1>5. \A r \in Players : bag[r] \subseteq Items /\ limbo[r] \subseteq Items
  BY <1>1 DEF Bags
<1>6. me \subseteq Items /\ him \subseteq Items /\ P \subseteq Items /\ Q \subseteq Items
  BY <1>4, <1>5
<1>7. bag' \in Bags
  BY <1>1, <1>6 DEF Bags
<1>8. limbo' \in Bags
  BY <1>1, <1>6 DEF Bags
<1>9. PICK b, l : b = bag' /\ l = limbo'
  OBVIOUS
<1>10. /\ b[p] = me /\ b[q] = him
       /\ l[p] = limbo[p] \cup (P \ (me \cup him)) /\ l[q] = limbo[q] \cup (Q \ (me \cup him))
       /\ \A r \in Players : r # p /\ r # q => b[r] = bag[r] /\ l[r] = limbo[r]
  BY <1>2, <1>9
<1>11. \A r \in Players : r # p /\ r # q =>
          /\ bag[r] \cap me = {} /\ bag[r] \cap him = {}
          /\ bag[r] \cap P = {} /\ bag[r] \cap Q = {}
  <2> SUFFICES ASSUME NEW r \in Players, r # p, r # q
               PROVE  /\ bag[r] \cap me = {} /\ bag[r] \cap him = {}
                      /\ bag[r] \cap P = {} /\ bag[r] \cap Q = {}
    OBVIOUS
  <2>1. bag[r] \cap bag[p] = {} /\ bag[r] \cap bag[q] = {} /\ made \cap bag[r] = {}
    BY <1>3, <1>4
  <2> QED
    BY <1>4, <2>1
<1>12. \A r \in Players : /\ limbo[r] \cap me = {} /\ limbo[r] \cap him = {}
                          /\ limbo[r] \cap P = {} /\ limbo[r] \cap Q = {}
  <2> TAKE r \in Players
  <2>1. limbo[r] \cap bag[p] = {} /\ limbo[r] \cap bag[q] = {} /\ made \cap limbo[r] = {}
    BY <1>3, <1>4
  <2> QED
    BY <1>4, <2>1
<1>13. P \cap Q = {}
  BY <1>3, <1>4
<1>14. ASSUME NEW r \in Players, NEW z \in Players, r # z
       PROVE  b[r] \cap b[z] = {}
  BY <1>3, <1>4, <1>10, <1>11, <1>14
<1>15. ASSUME NEW r \in Players, NEW z \in Players, r # z
       PROVE  l[r] \cap l[z] = {}
  <2>1. limbo[r] \cap limbo[z] = {}
    BY <1>3, <1>15
  <2>2. /\ l[r] = limbo[r] \/ l[r] \subseteq limbo[r] \cup P \/ l[r] \subseteq limbo[r] \cup Q
        /\ r = p => l[r] \subseteq limbo[r] \cup P
        /\ r = q => l[r] \subseteq limbo[r] \cup Q
        /\ r # p /\ r # q => l[r] = limbo[r]
        /\ z = p => l[z] \subseteq limbo[z] \cup P
        /\ z = q => l[z] \subseteq limbo[z] \cup Q
        /\ z # p /\ z # q => l[z] = limbo[z]
    BY <1>10
  <2>3. /\ limbo[r] \cap P = {} /\ limbo[r] \cap Q = {}
        /\ limbo[z] \cap P = {} /\ limbo[z] \cap Q = {}
    BY <1>12
  <2>4. CASE r = p /\ z = q
    BY <1>13, <2>1, <2>2, <2>3, <2>4
  <2>5. CASE r = q /\ z = p
    BY <1>13, <2>1, <2>2, <2>3, <2>5
  <2>6. CASE r # p /\ r # q
    BY <2>1, <2>2, <2>3, <2>6
  <2>7. CASE z # p /\ z # q
    BY <2>1, <2>2, <2>3, <2>7
  <2> QED
    BY <1>15, <2>4, <2>5, <2>6, <2>7
<1>16. ASSUME NEW r \in Players, NEW z \in Players
       PROVE  b[r] \cap l[z] = {}
  <2>1. /\ b[r] \cap limbo[z] = {}
        /\ b[r] \cap (P \ (me \cup him)) = {} /\ b[r] \cap (Q \ (me \cup him)) = {}
    BY <1>3, <1>10, <1>11, <1>12
  <2>2. l[z] \subseteq limbo[z] \cup (P \ (me \cup him)) \cup (Q \ (me \cup him))
    BY <1>10
  <2> QED
    BY <2>1, <2>2
<1>17. Apart(b) /\ Apart(l)
  BY <1>14, <1>15 DEF Apart
<1>18. \A r, z \in Players : b[r] \cap l[z] = {}
  BY <1>16
<1>19. Apart(bag') /\ Apart(limbo') /\ \A r, z \in Players : bag'[r] \cap limbo'[z] = {}
  BY <1>9, <1>17, <1>18
<1> QED
  BY <1>2, <1>7, <1>8, <1>19

\* s saves what a trader owns after the deal.
Tells(s, p, own, P, Q, made) ==
    s.key = p /\ s.new = own \cap made /\ s.moved = own \cap (P \cup Q) /\ s.lost = {}

\* The rows m are the memory before the deal, and n after it.
Before(m) == \A r \in Players : m.bag[r] = bag[r] \cup limbo[r]

Paid(m, n, s, t) == n.gold = [m.gold EXCEPT ![s.key] = s.gold, ![t.key] = t.gold]

Afterwards(n, p, q, P, Q, me, him) ==
    /\ n.bag[p] = me \cup limbo[p] \cup (P \ (me \cup him))
    /\ n.bag[q] = him \cup limbo[q] \cup (Q \ (me \cup him))
    /\ \A r \in Players : r # p /\ r # q => n.bag[r] = bag[r] \cup limbo[r]

\* The two saves of a deal, applied one after the other, make of the old memory
\* the new one.
LEMMA DealSaves ==
    ASSUME Stock, NEW p \in Players, NEW q \in Players, p # q,
           NEW P, NEW Q, NEW me, NEW him, NEW made, Dealt(p, q, P, Q, me, him, made),
           NEW s \in Save, Tells(s, p, me, P, Q, made),
           NEW t \in Save, Tells(t, q, him, P, Q, made),
           NEW m \in Ledgers, Before(m), NEW n \in Ledgers,
           Paid(m, n, s, t),
           Afterwards(n, p, q, P, Q, me, him)
    PROVE  Applied(Applied(m, s), t) = n
<1>0. /\ s.key = p /\ s.new = me \cap made /\ s.moved = me \cap (P \cup Q) /\ s.lost = {}
      /\ t.key = q /\ t.new = him \cap made /\ t.moved = him \cap (P \cup Q) /\ t.lost = {}
      /\ \A r \in Players : m.bag[r] = bag[r] \cup limbo[r]
      /\ n.bag[p] = me \cup limbo[p] \cup (P \ (me \cup him))
      /\ n.bag[q] = him \cup limbo[q] \cup (Q \ (me \cup him))
      /\ \A r \in Players : r # p /\ r # q => n.bag[r] = bag[r] \cup limbo[r]
  BY DEF Tells, Before, Afterwards
<1>1. /\ \A r, z \in Players : r # z => bag[r] \cap bag[z] = {}
      /\ \A r, z \in Players : bag[r] \cap limbo[z] = {}
  BY DEF Stock, Apart
<1>2. /\ P \subseteq bag[p] /\ Q \subseteq bag[q]
      /\ bag[p] \ P \subseteq me /\ bag[q] \ Q \subseteq him /\ me \cap him = {}
      /\ me \subseteq (bag[p] \ P) \cup P \cup Q \cup made
      /\ him \subseteq (bag[q] \ Q) \cup P \cup Q \cup made
      /\ \A r \in Players : made \cap bag[r] = {} /\ made \cap limbo[r] = {}
  BY DEF Dealt
<1>3. PICK x : x = m.bag
  OBVIOUS
<1>4. \A r \in Players : x[r] = bag[r] \cup limbo[r]
  BY <1>0, <1>3
<1>5. s.new \cap Present(x) = {}
  <2>1. \A r \in Players : made \cap x[r] = {}
    BY <1>2, <1>4
  <2> QED
    BY <1>0, <2>1 DEF Present
<1>6. s.moved \cap Present(x) = me \cap (P \cup Q)
  <2>1. P \subseteq x[p] /\ Q \subseteq x[q]
    BY <1>2, <1>4
  <2>2. P \cup Q \subseteq Present(x)
    BY <2>1 DEF Present
  <2> QED
    BY <1>0, <2>2
<1>7. PICK d : d = Applied(m, s)
  OBVIOUS
<1>8. /\ d \in Ledgers /\ d.gold = [m.gold EXCEPT ![s.key] = s.gold]
      /\ \A r \in Players : d.bag[r] = After(m.bag, s, r)
  <2>1. s.new \cap Present(m.bag) = {}
    BY <1>3, <1>5
  <2>2. /\ Applied(m, s) \in Ledgers
        /\ Applied(m, s).gold = [m.gold EXCEPT ![s.key] = s.gold]
        /\ \A r \in Players : Applied(m, s).bag[r] = After(m.bag, s, r)
    BY <2>1, AppliedParts
  <2> QED
    BY <1>7, <2>2
<1>9. PICK y : y = d.bag
  OBVIOUS
<1>10. /\ y[p] = x[p] \cup (me \cap made) \cup (me \cap (P \cup Q))
       /\ \A r \in Players : r # p => y[r] = x[r] \ (me \cap (P \cup Q))
  <2>1. \A r \in Players : y[r] = IF r = p THEN (x[r] \ {}) \cup (me \cap made) \cup (me \cap (P \cup Q))
                                 ELSE x[r] \ ((me \cap (P \cup Q)) \cup {})
    BY <1>0, <1>3, <1>6, <1>8, <1>9 DEF After
  <2>2. PICK u, v : u = me \cap (P \cup Q) /\ v = me \cap made
    OBVIOUS
  <2>3. y[p] = (x[p] \ {}) \cup v \cup u /\ \A r \in Players : r # p => y[r] = x[r] \ (u \cup {})
    BY <2>1, <2>2
  <2>4. y[p] = x[p] \cup v \cup u
    BY <2>3
  <2>5. \A r \in Players : r # p => y[r] = x[r] \ u
    <3>1. u \cup {} = u
      OBVIOUS
    <3> QED
      BY <2>3, <3>1
  <2> QED
    BY <2>2, <2>4, <2>5
<1>11. t.new \cap Present(y) = {}
  <2>1. ASSUME NEW r \in Players
        PROVE  (him \cap made) \cap y[r] = {}
    <3>1. made \cap x[r] = {}
      BY <1>2, <1>4
    <3>2. CASE r = p
      BY <1>2, <1>10, <3>1, <3>2
    <3>3. CASE r # p
      BY <1>10, <3>1, <3>3
    <3> QED
      BY <3>2, <3>3
  <2> QED
    BY <1>0, <2>1 DEF Present
<1>12. t.moved \cap Present(y) = him \cap (P \cup Q)
  <2>1. P \subseteq y[p]
    BY <1>2, <1>4, <1>10
  <2>2. him \cap Q \subseteq y[q]
    <3>1. y[q] = x[q] \ (me \cap (P \cup Q)) /\ Q \subseteq x[q]
      BY <1>2, <1>4, <1>10
    <3> QED
      BY <1>2, <3>1
  <2>3. him \cap (P \cup Q) \subseteq Present(y)
    BY <2>1, <2>2 DEF Present
  <2> QED
    BY <1>0, <2>3
<1>13. PICK e : e = Applied(d, t)
  OBVIOUS
<1>14. /\ e \in Ledgers /\ e.gold = [d.gold EXCEPT ![t.key] = t.gold]
      /\ \A r \in Players : e.bag[r] = After(d.bag, t, r)
  BY <1>8, <1>9, <1>11, <1>13, AppliedParts
<1>15. PICK w : w = e.bag
  OBVIOUS
<1>16. /\ w[q] = y[q] \cup (him \cap made) \cup (him \cap (P \cup Q))
       /\ \A r \in Players : r # q => w[r] = y[r] \ (him \cap (P \cup Q))
  <2>1. \A r \in Players : w[r] = IF r = q THEN (y[r] \ {}) \cup (him \cap made) \cup (him \cap (P \cup Q))
                                 ELSE y[r] \ ((him \cap (P \cup Q)) \cup {})
    BY <1>0, <1>9, <1>12, <1>14, <1>15 DEF After
  <2>2. PICK u, v : u = him \cap (P \cup Q) /\ v = him \cap made
    OBVIOUS
  <2>3. w[q] = (y[q] \ {}) \cup v \cup u /\ \A r \in Players : r # q => w[r] = y[r] \ (u \cup {})
    BY <2>1, <2>2
  <2>4. w[q] = y[q] \cup v \cup u
    BY <2>3
  <2>5. \A r \in Players : r # q => w[r] = y[r] \ u
    <3>1. u \cup {} = u
      OBVIOUS
    <3> QED
      BY <2>3, <3>1
  <2> QED
    BY <2>2, <2>4, <2>5
<1>17. w[p] = me \cup limbo[p] \cup (P \ (me \cup him))
  <2>1. w[p] = ((bag[p] \cup limbo[p]) \cup (me \cap made) \cup (me \cap (P \cup Q)))
                 \ (him \cap (P \cup Q))
    BY <1>4, <1>10, <1>16
  <2>2. /\ bag[p] \cap bag[q] = {} /\ bag[p] \cap limbo[p] = {} /\ bag[q] \cap limbo[p] = {}
        /\ made \cap bag[p] = {} /\ made \cap bag[q] = {}
    BY <1>1, <1>2
  <2> QED
    BY <1>2, <2>1, <2>2
<1>18. w[q] = him \cup limbo[q] \cup (Q \ (me \cup him))
  <2>1. w[q] = ((bag[q] \cup limbo[q]) \ (me \cap (P \cup Q)))
                 \cup (him \cap made) \cup (him \cap (P \cup Q))
    BY <1>4, <1>10, <1>16
  <2>2. /\ bag[p] \cap bag[q] = {} /\ bag[q] \cap limbo[q] = {} /\ bag[p] \cap limbo[q] = {}
        /\ made \cap bag[p] = {} /\ made \cap bag[q] = {}
    BY <1>1, <1>2
  <2> QED
    BY <1>2, <2>1, <2>2
<1>19. ASSUME NEW r \in Players, r # p, r # q
       PROVE  w[r] = bag[r] \cup limbo[r]
  <2>1. w[r] = ((bag[r] \cup limbo[r]) \ (me \cap (P \cup Q))) \ (him \cap (P \cup Q))
    BY <1>4, <1>10, <1>16, <1>19
  <2>2. /\ bag[r] \cap bag[p] = {} /\ bag[r] \cap bag[q] = {}
        /\ bag[p] \cap limbo[r] = {} /\ bag[q] \cap limbo[r] = {}
    BY <1>1, <1>19
  <2> QED
    BY <1>2, <2>1, <2>2
<1>20. e.gold = n.gold
  BY <1>0, <1>8, <1>14 DEF Paid
<1>21. \A r \in Players : e.bag[r] = n.bag[r]
  <2> TAKE r \in Players
  <2>1. CASE r = p
    BY <1>0, <1>15, <1>17, <2>1
  <2>2. CASE r = q
    BY <1>0, <1>15, <1>18, <2>2
  <2>3. CASE r # p /\ r # q
    BY <1>0, <1>15, <1>19, <2>3
  <2> QED
    BY <2>1, <2>2, <2>3
<1>22. e = n
  BY <1>14, <1>20, <1>21, SameLedger
<1> QED
  BY <1>7, <1>13, <1>22


LEMMA AfterMoneyType ==
    ASSUME NEW g \in Nat, NEW m \in Nat, NEW n \in Nat
    PROVE  AfterMoney(g, m, n) \in Nat
<1>1. MaxMoney \in Nat
  BY NumberAssumption
<1> QED
  BY <1>1 DEF AfterMoney, Least

LEMMA SaveType ==
    ASSUME NEW p \in Players, NEW g \in Nat, NEW new \in SUBSET Items,
           NEW moved \in SUBSET Items, NEW lost \in SUBSET Items,
           NEW s, s = SaveOf(p, g, new, moved, lost)
    PROVE  /\ s \in Save /\ s.key = p /\ s.gold = g /\ s.new = new /\ s.moved = moved
           /\ s.lost = lost
  BY DEF SaveOf, Save

\* A deal keeps everything with one owner, and what it queues makes of the old
\* memory the new one.
LEMMA DealKeeps ==
    ASSUME IInv, Stock, NEW p \in Players, NEW q \in Players, p # q, Exchange(p, q),
           CanStoreItems(p, Given(q), Given(p)), CanStoreItems(q, Given(p), Given(q))
    PROVE  /\ gold' \in Purses /\ bag' \in Bags /\ limbo' \in Bags
           /\ Apart(bag') /\ Apart(limbo') /\ \A r, z \in Players : bag'[r] \cap limbo'[z] = {}
           /\ queue' \in Seq(Save)
           /\ Leads(queue, rows, Memory) => Leads(queue', rows, Memory')
<1>1. PICK me, him, made, P, Q :
             /\ P = Given(p) /\ Q = Given(q) /\ moveItems(p, q).me = me
             /\ moveItems(p, q).him = him /\ moveItems(p, q).made = made
  OBVIOUS
<1>2. /\ Dealt(p, q, P, Q, me, him, made)
      /\ bag' = [bag EXCEPT ![p] = me, ![q] = him]
      /\ limbo' = [limbo EXCEPT ![p] = @ \cup (P \ (me \cup him)),
                                ![q] = @ \cup (Q \ (me \cup him))]
      /\ gold' = [gold EXCEPT
                    ![p] = AfterMoney(gold[p], trade[p].money, trade[q].money),
                    ![q] = AfterMoney(gold[q], trade[q].money, trade[p].money)]
      /\ queue' = Append(Append(queue,
                    SaveOf(p, gold'[p], me \cap made, me \cap (P \cup Q), {})),
                    SaveOf(q, gold'[q], him \cap made, him \cap (P \cup Q), {}))
  <2>1. DealStep(p, q, P, Q, me, him, made)
    BY <1>1, DealMoves
  <2> QED
    BY <2>1 DEF DealStep
<1>3. /\ bag'[p] = me /\ bag'[q] = him
      /\ limbo'[p] = limbo[p] \cup (P \ (me \cup him))
      /\ limbo'[q] = limbo[q] \cup (Q \ (me \cup him))
      /\ \A r \in Players : r # p /\ r # q => bag'[r] = bag[r] /\ limbo'[r] = limbo[r]
      /\ bag' \in Bags /\ limbo' \in Bags /\ Apart(bag') /\ Apart(limbo')
      /\ \A r, z \in Players : bag'[r] \cap limbo'[z] = {}
  BY <1>2, DealBags
<1>4. /\ trade \in Windows /\ gold \in Purses /\ bag \in Bags /\ limbo \in Bags
      /\ queue \in Seq(Save)
  BY DEF IInv, WindowsOK, Stock
<1>5. PICK g, h : /\ g = AfterMoney(gold[p], trade[p].money, trade[q].money)
                  /\ h = AfterMoney(gold[q], trade[q].money, trade[p].money)
  OBVIOUS
<1>6. g \in Nat /\ h \in Nat
  <2>1. /\ gold[p] \in Nat /\ gold[q] \in Nat
        /\ trade[p].money \in Nat /\ trade[q].money \in Nat
    BY <1>4 DEF Windows, TradeData, Purses
  <2> QED
    BY <1>5, <2>1, AfterMoneyType
<1>7. gold' = [gold EXCEPT ![p] = g, ![q] = h]
  BY <1>2, <1>5
<1>8. gold' \in Purses /\ gold'[p] = g /\ gold'[q] = h
  BY <1>4, <1>6, <1>7 DEF Purses
<1>9. PICK a, b, c, d : /\ a = me \cap made /\ b = me \cap (P \cup Q)
                        /\ c = him \cap made /\ d = him \cap (P \cup Q)
  OBVIOUS
<1>10. a \in SUBSET Items /\ b \in SUBSET Items /\ c \in SUBSET Items /\ d \in SUBSET Items
  <2>1. P \subseteq bag[p] /\ Q \subseteq bag[q] /\ made \subseteq Items
    BY <1>2 DEF Dealt
  <2>2. bag[p] \subseteq Items /\ bag[q] \subseteq Items
    BY <1>4 DEF Bags
  <2> QED
    BY <1>9, <2>1, <2>2
<1>11. PICK s, t : s = SaveOf(p, g, a, b, {}) /\ t = SaveOf(q, h, c, d, {})
  OBVIOUS
<1>12. /\ s \in Save /\ s.key = p /\ s.gold = g /\ s.new = a /\ s.moved = b /\ s.lost = {}
       /\ t \in Save /\ t.key = q /\ t.gold = h /\ t.new = c /\ t.moved = d /\ t.lost = {}
  <2>1. {} \in SUBSET Items
    OBVIOUS
  <2>2. s \in Save /\ s.key = p /\ s.gold = g /\ s.new = a /\ s.moved = b /\ s.lost = {}
    BY <1>6, <1>10, <1>11, <2>1, SaveType
  <2>3. t \in Save /\ t.key = q /\ t.gold = h /\ t.new = c /\ t.moved = d /\ t.lost = {}
    BY <1>6, <1>10, <1>11, <2>1, SaveType
  <2> QED
    BY <2>2, <2>3
<1>13. queue' = Append(Append(queue, s), t)
  BY <1>2, <1>8, <1>9, <1>11
<1>14. queue' \in Seq(Save) /\ Append(queue, s) \in Seq(Save)
  BY <1>4, <1>12, <1>13
<1>15. PICK m, n : m = Memory /\ n = Memory'
  OBVIOUS
<1>16. m \in Ledgers /\ m.gold = gold /\ \A r \in Players : m.bag[r] = bag[r] \cup limbo[r]
  BY <1>4, <1>15, LedgerParts DEF Memory
<1>17. n \in Ledgers /\ n.gold = gold' /\ \A r \in Players : n.bag[r] = bag'[r] \cup limbo'[r]
  <2>1. PICK G, B, L : G = gold' /\ B = bag' /\ L = limbo'
    OBVIOUS
  <2>2. n = Holdings(G, B, L)
    BY <1>15, <2>1 DEF Memory
  <2>3. G \in Purses /\ B \in Bags /\ L \in Bags
    BY <1>3, <1>8, <2>1
  <2>4. n \in Ledgers /\ n.gold = G /\ \A r \in Players : n.bag[r] = B[r] \cup L[r]
    BY <2>2, <2>3, LedgerParts
  <2> QED
    BY <2>1, <2>4
<1>18. Applied(Applied(m, s), t) = n
  <2>1. Paid(m, n, s, t)
    BY <1>7, <1>12, <1>16, <1>17 DEF Paid
  <2>2. /\ n.bag[p] = me \cup limbo[p] \cup (P \ (me \cup him))
        /\ n.bag[q] = him \cup limbo[q] \cup (Q \ (me \cup him))
        /\ \A r \in Players : r # p /\ r # q => n.bag[r] = bag[r] \cup limbo[r]
    BY <1>3, <1>17
  <2>3. Tells(s, p, me, P, Q, made) /\ Tells(t, q, him, P, Q, made)
    BY <1>9, <1>12 DEF Tells
  <2>4. Before(m) /\ Afterwards(n, p, q, P, Q, me, him)
    BY <1>16, <2>2 DEF Before, Afterwards
  <2> QED
    BY <1>2, <1>12, <1>16, <1>17, <2>1, <2>3, <2>4, DealSaves
<1>19. ASSUME Leads(queue, rows, Memory)
       PROVE  Leads(queue', rows, Memory')
  <2>1. Leads(Append(queue, s), rows, Applied(m, s))
    BY <1>4, <1>12, <1>15, <1>19, SaveQueued
  <2>2. Leads(Append(Append(queue, s), t), rows, Applied(Applied(m, s), t))
    BY <1>12, <1>14, <2>1, SaveQueued
  <2> QED
    BY <1>13, <1>15, <1>18, <2>2
<1> QED
  BY <1>3, <1>8, <1>14, <1>19

\* p has lost some of his items and gained some that nobody owned.
Shifts(b, c, p, new, lost) ==
    /\ lost \subseteq b[p] /\ new \subseteq Items
    /\ \A r \in Players : new \cap b[r] = {} /\ new \cap limbo[r] = {}
    /\ c[p] = (b[p] \ lost) \cup new /\ \A r \in Players : r # p => c[r] = b[r]

\* One save, applied to the old memory, makes the new one of it.
LEMMA OtherSave ==
    ASSUME Stock, NEW p \in Players, NEW new, NEW lost, NEW c, Shifts(bag, c, p, new, lost),
           NEW s \in Save, s.key = p, s.new = new, s.moved = {}, s.lost = lost,
           NEW m \in Ledgers, Before(m),
           NEW n \in Ledgers, n.gold = [m.gold EXCEPT ![p] = s.gold],
           \A r \in Players : n.bag[r] = c[r] \cup limbo[r]
    PROVE  Applied(m, s) = n
<1>1. /\ \A r, z \in Players : r # z => bag[r] \cap bag[z] = {}
      /\ \A r, z \in Players : bag[r] \cap limbo[z] = {}
  BY DEF Stock, Apart
<1>2. /\ lost \subseteq bag[p]
      /\ \A r \in Players : new \cap bag[r] = {} /\ new \cap limbo[r] = {}
      /\ c[p] = (bag[p] \ lost) \cup new /\ \A r \in Players : r # p => c[r] = bag[r]
  BY DEF Shifts
<1>3. \A r \in Players : m.bag[r] = bag[r] \cup limbo[r]
  BY DEF Before
<1>4. s.new \cap Present(m.bag) = {}
  <2>1. \A r \in Players : new \cap m.bag[r] = {}
    BY <1>2, <1>3
  <2> QED
    BY <2>1 DEF Present
<1>5. PICK d : d = Applied(m, s)
  OBVIOUS
<1>6. /\ d \in Ledgers /\ d.gold = [m.gold EXCEPT ![s.key] = s.gold]
      /\ \A r \in Players : d.bag[r] = After(m.bag, s, r)
  BY <1>4, <1>5, AppliedParts
<1>7. ASSUME NEW r \in Players
      PROVE  d.bag[r] = n.bag[r]
  <2>1. lost \cap limbo[r] = {} /\ (r # p => lost \cap bag[r] = {})
    BY <1>1, <1>2
  <2>2. PICK y, x : y = d.bag[r] /\ x = m.bag[r]
    OBVIOUS
  <2>3. CASE r = p
    <3>1. y = (x \ lost) \cup new \cup ({} \cap Present(m.bag))
      BY <1>6, <2>2, <2>3 DEF After
    <3>2. y = (x \ lost) \cup new
      BY <3>1
    <3>3. x = bag[p] \cup limbo[p] /\ n.bag[r] = c[p] \cup limbo[p]
      BY <1>3, <2>2, <2>3
    <3>4. ((bag[p] \cup limbo[p]) \ lost) \cup new = ((bag[p] \ lost) \cup new) \cup limbo[p]
      BY <2>1, <2>3
    <3> QED
      BY <1>2, <2>2, <3>2, <3>3, <3>4
  <2>4. CASE r # p
    <3>1. y = x \ ({} \cup lost)
      BY <1>6, <2>2, <2>4 DEF After
    <3>2. y = x \ lost
      BY <3>1
    <3>3. x = bag[r] \cup limbo[r] /\ n.bag[r] = bag[r] \cup limbo[r]
      BY <1>2, <1>3, <2>2, <2>4
    <3> QED
      BY <2>1, <2>2, <2>4, <3>2, <3>3
  <2> QED
    BY <2>3, <2>4
<1>8. d.gold = n.gold
  BY <1>6
<1>9. d = n
  BY <1>6, <1>7, <1>8, SameLedger
<1> QED
  BY <1>5, <1>9

\* The other handlers: what they change and what they save.
LEMMA ElsewhereCases ==
    ASSUME IInv, Stock, NEW p \in Players, Elsewhere(p)
    PROVE  \E g \in Nat, new \in SUBSET Items, lost \in SUBSET Items :
             /\ gold' = [gold EXCEPT ![p] = g] /\ bag' \in Bags
             /\ Shifts(bag, bag', p, new, lost)
             /\ queue' = Append(queue, SaveOf(p, g, new, {}, lost))
<1>1. gold \in Purses /\ bag \in Bags /\ limbo \in Bags /\ queue \in Seq(Save)
  BY DEF Stock
<1>2. gold = [gold EXCEPT ![p] = gold[p]] /\ gold[p] \in Nat
  BY <1>1 DEF Purses
<1>3. \A x : queue \o <<x>> = Append(queue, x)
  BY <1>1
<1>4. ASSUME NEW s, Queue(<<s>>)
      PROVE  queue' = Append(queue, s)
  BY <1>3, <1>4 DEF Queue
<1>5. CASE \E i \in bag[p] :
             /\ bag' = [bag EXCEPT ![p] = @ \ {i}]
             /\ Queue(<<SaveOf(p, gold[p], {}, {}, {i})>>) /\ UNCHANGED gold
  <2>1. PICK i \in bag[p] :
               /\ bag' = [bag EXCEPT ![p] = @ \ {i}]
               /\ Queue(<<SaveOf(p, gold[p], {}, {}, {i})>>) /\ UNCHANGED gold
    BY <1>5
  <2>2. i \in Items
    BY <1>1 DEF Bags
  <2>3. bag' \in Bags /\ bag'[p] = bag[p] \ {i} /\ \A r \in Players : r # p => bag'[r] = bag[r]
    BY <1>1, <2>1 DEF Bags
  <2>4. Shifts(bag, bag', p, {}, {i})
    <3>1. bag'[p] = (bag[p] \ {i}) \cup {}
      BY <2>3
    <3> QED
      BY <2>3, <3>1 DEF Shifts
  <2>5. queue' = Append(queue, SaveOf(p, gold[p], {}, {}, {i}))
    BY <1>4, <2>1
  <2>6. {} \in SUBSET Items /\ {i} \in SUBSET Items
    BY <2>2
  <2>7. gold' = [gold EXCEPT ![p] = gold[p]]
    BY <1>2, <2>1
  <2> QED
    BY <1>2, <2>3, <2>4, <2>5, <2>6, <2>7
<1>6. CASE \E i \in Items \ UNION {bag[q] \cup limbo[q] : q \in Players} :
             /\ bag' = [bag EXCEPT ![p] = @ \cup {i}]
             /\ Queue(<<SaveOf(p, gold[p], {i}, {}, {})>>) /\ UNCHANGED gold
  <2>1. PICK i \in Items \ UNION {bag[q] \cup limbo[q] : q \in Players} :
               /\ bag' = [bag EXCEPT ![p] = @ \cup {i}]
               /\ Queue(<<SaveOf(p, gold[p], {i}, {}, {})>>) /\ UNCHANGED gold
    BY <1>6
  <2>2. i \in Items /\ \A r \in Players : i \notin bag[r] /\ i \notin limbo[r]
    BY <2>1
  <2>3. bag' \in Bags /\ bag'[p] = bag[p] \cup {i} /\ \A r \in Players : r # p => bag'[r] = bag[r]
    BY <1>1, <2>1, <2>2 DEF Bags
  <2>4. Shifts(bag, bag', p, {i}, {})
    <3>1. bag'[p] = (bag[p] \ {}) \cup {i}
      BY <2>3
    <3> QED
      BY <2>2, <2>3, <3>1 DEF Shifts
  <2>5. queue' = Append(queue, SaveOf(p, gold[p], {i}, {}, {}))
    BY <1>4, <2>1
  <2>6. {} \in SUBSET Items /\ {i} \in SUBSET Items
    BY <2>2
  <2>7. gold' = [gold EXCEPT ![p] = gold[p]]
    BY <1>2, <2>1
  <2> QED
    BY <1>2, <2>3, <2>4, <2>5, <2>6, <2>7
<1>7. CASE \E amount \in 0 .. MaxMoney :
             /\ gold' = [gold EXCEPT ![p] = amount]
             /\ Queue(<<SaveOf(p, amount, {}, {}, {})>>) /\ UNCHANGED bag
  <2>1. PICK amount \in 0 .. MaxMoney :
               /\ gold' = [gold EXCEPT ![p] = amount]
               /\ Queue(<<SaveOf(p, amount, {}, {}, {})>>) /\ UNCHANGED bag
    BY <1>7
  <2>2. amount \in Nat
    BY NumberAssumption
  <2>3. Shifts(bag, bag', p, {}, {})
    <3>1. bag'[p] = (bag[p] \ {}) \cup {}
      BY <2>1
    <3> QED
      BY <2>1, <3>1 DEF Shifts
  <2>4. queue' = Append(queue, SaveOf(p, amount, {}, {}, {}))
    BY <1>4, <2>1
  <2>5. {} \in SUBSET Items /\ bag' \in Bags
    BY <1>1, <2>1
  <2> QED
    BY <2>1, <2>2, <2>3, <2>4, <2>5
<1> QED
  BY <1>5, <1>6, <1>7 DEF Elsewhere

LEMMA ElsewhereKeeps ==
    ASSUME IInv, Stock, NEW p \in Players, Elsewhere(p)
    PROVE  /\ gold' \in Purses /\ bag' \in Bags /\ Apart(bag')
           /\ \A r, z \in Players : bag'[r] \cap limbo[z] = {}
           /\ queue' \in Seq(Save)
           /\ Leads(queue, rows, Memory) => Leads(queue', rows, Memory')
<1>1. gold \in Purses /\ bag \in Bags /\ limbo \in Bags /\ queue \in Seq(Save)
  BY DEF Stock
<1>2. limbo' = limbo
  BY DEF Elsewhere
<1>3. PICK g \in Nat, new \in SUBSET Items, lost \in SUBSET Items :
             /\ gold' = [gold EXCEPT ![p] = g] /\ bag' \in Bags
             /\ Shifts(bag, bag', p, new, lost)
             /\ queue' = Append(queue, SaveOf(p, g, new, {}, lost))
  BY ElsewhereCases
<1>4. PICK s : s = SaveOf(p, g, new, {}, lost)
  OBVIOUS
<1>5. /\ s \in Save /\ s.key = p /\ s.gold = g /\ s.new = new /\ s.moved = {} /\ s.lost = lost
  <2>1. {} \in SUBSET Items
    OBVIOUS
  <2> QED
    BY <1>4, <2>1, SaveType
<1>6. queue' = Append(queue, s) /\ queue' \in Seq(Save)
  BY <1>1, <1>3, <1>4, <1>5
<1>7. gold' \in Purses
  BY <1>1, <1>3 DEF Purses
<1>8. PICK c : c = bag'
  OBVIOUS
<1>9. /\ \A r \in Players : new \cap bag[r] = {} /\ new \cap limbo[r] = {}
      /\ c[p] = (bag[p] \ lost) \cup new /\ \A r \in Players : r # p => c[r] = bag[r]
  BY <1>3, <1>8 DEF Shifts
<1>10. /\ \A r, z \in Players : r # z => bag[r] \cap bag[z] = {}
       /\ \A r, z \in Players : bag[r] \cap limbo[z] = {}
  BY DEF Stock, Apart
<1>11. ASSUME NEW r \in Players, NEW z \in Players
       PROVE  (r # z => c[r] \cap c[z] = {}) /\ c[r] \cap limbo[z] = {}
  BY <1>9, <1>10
<1>12. Apart(c) /\ \A r, z \in Players : c[r] \cap limbo[z] = {}
  BY <1>11 DEF Apart
<1>13. PICK m, n, G : m = Memory /\ n = Memory' /\ G = gold'
  OBVIOUS
<1>14. m \in Ledgers /\ m.gold = gold /\ \A r \in Players : m.bag[r] = bag[r] \cup limbo[r]
  BY <1>1, <1>13, LedgerParts DEF Memory
<1>15. n \in Ledgers /\ n.gold = G /\ \A r \in Players : n.bag[r] = c[r] \cup limbo[r]
  <2>1. n = Holdings(G, c, limbo)
    BY <1>2, <1>8, <1>13 DEF Memory
  <2>2. G \in Purses /\ c \in Bags
    BY <1>3, <1>7, <1>8, <1>13
  <2> QED
    BY <1>1, <2>1, <2>2, LedgerParts
<1>16. Applied(m, s) = n
  <2>1. n.gold = [m.gold EXCEPT ![p] = s.gold]
    BY <1>3, <1>5, <1>13, <1>14, <1>15
  <2>2. Before(m) /\ Shifts(bag, c, p, new, lost)
    BY <1>3, <1>8, <1>14 DEF Before
  <2> QED
    BY <1>5, <1>14, <1>15, <2>1, <2>2, OtherSave
<1>17. ASSUME Leads(queue, rows, Memory)
       PROVE  Leads(queue', rows, Memory')
  BY <1>1, <1>5, <1>6, <1>13, <1>16, <1>17, SaveQueued
<1> QED
  BY <1>3, <1>6, <1>7, <1>8, <1>12, <1>17

-----------------------------------------------------------------------------
(* What the steps keep of it                                                *)

\* The worker takes a save from the queue.
LEMMA ExecuteParts ==
    ASSUME NEW w \in Workers, Execute(w)
    PROVE  \E n \in DOMAIN queue :
             /\ rows' = Applied(rows, queue[n]) /\ queue' = RemoveAt(queue, n)
             /\ Route(queue[n]) = w /\ \A k \in 1 .. n - 1 : Route(queue[k]) # w
  BY DEF Execute

LEMMA StockKeeps == IInv /\ Stock /\ [Next]_vars => Stock'
<1> SUFFICES ASSUME IInv, Stock, [Next]_vars PROVE Stock'
  OBVIOUS
<1>1. Spread(trade')
  BY SpreadKeeps DEF Stock
<1>2. ASSUME UNCHANGED <<gold, bag, limbo, rows, queue>> PROVE Stock'
  BY <1>1, <1>2 DEF Stock, Apart
<1>3. ASSUME NEW p \in Players, HandleAcceptTrade(p) PROVE Stock'
  <2>1. PICK q : q = trade[p].with
    OBVIOUS
  <2>2. /\ rows' = rows /\ q \in Players /\ p # q
        /\ \/ deal' = NoDeal /\ UNCHANGED <<gold, bag, limbo, queue>>
           \/ /\ Exchange(p, q)
              /\ CanStoreItems(p, Given(q), Given(p))
              /\ CanStoreItems(q, Given(p), Given(q))
    BY <1>3, <2>1, AcceptCases
  <2>3. CASE UNCHANGED <<gold, bag, limbo, queue>>
    BY <1>2, <2>2, <2>3
  <2>4. CASE /\ Exchange(p, q)
             /\ CanStoreItems(p, Given(q), Given(p))
             /\ CanStoreItems(q, Given(p), Given(q))
    <3>1. /\ gold' \in Purses /\ bag' \in Bags /\ limbo' \in Bags
          /\ Apart(bag') /\ Apart(limbo') /\ \A r, z \in Players : bag'[r] \cap limbo'[z] = {}
          /\ queue' \in Seq(Save)
      BY <2>2, <2>4, DealKeeps
    <3>2. rows' \in Ledgers /\ Apart(rows'.bag)
      BY <2>2 DEF Stock
    <3> QED
      BY <1>1, <3>1, <3>2 DEF Stock
  <2> QED
    BY <2>2, <2>3, <2>4
<1>4. ASSUME NEW p \in Players, Elsewhere(p) PROVE Stock'
  <2>1. rows' = rows /\ limbo' = limbo
    BY <1>4 DEF Elsewhere
  <2>2. /\ gold' \in Purses /\ bag' \in Bags /\ Apart(bag')
        /\ \A r, z \in Players : bag'[r] \cap limbo[z] = {}
        /\ queue' \in Seq(Save)
    BY <1>4, ElsewhereKeeps
  <2>3. /\ limbo' \in Bags /\ Apart(limbo') /\ rows' \in Ledgers /\ Apart(rows'.bag)
        /\ \A r, z \in Players : bag'[r] \cap limbo'[z] = {}
    BY <2>1, <2>2 DEF Stock
  <2> QED
    BY <1>1, <2>2, <2>3 DEF Stock
<1>5. ASSUME NEW w \in Workers, Execute(w) PROVE Stock'
  <2>1. PICK n \in DOMAIN queue :
               rows' = Applied(rows, queue[n]) /\ queue' = RemoveAt(queue, n)
    BY <1>5, ExecuteParts
  <2>2. rows \in Ledgers /\ Apart(rows.bag) /\ queue \in Seq(Save)
    BY DEF Stock
  <2>3. queue' \in Seq(Save) /\ queue[n] \in Save
    BY <2>1, <2>2, QueueWithout
  <2>4. PICK r : r = rows'
    OBVIOUS
  <2>5. r \in Ledgers /\ Apart(r.bag)
    BY <2>1, <2>2, <2>3, <2>4, AppliedType
  <2>6. rows' \in Ledgers /\ Apart(rows'.bag)
    BY <2>4, <2>5
  <2>7. gold' = gold /\ bag' = bag /\ limbo' = limbo
    BY <1>5 DEF Execute, owned
  <2>8. /\ gold' \in Purses /\ bag' \in Bags /\ limbo' \in Bags
        /\ Apart(bag') /\ Apart(limbo') /\ \A r1, z \in Players : bag'[r1] \cap limbo'[z] = {}
    BY <2>7 DEF Stock
  <2> QED
    BY <1>1, <2>3, <2>6, <2>8 DEF Stock
<1>6. CASE Crash
  <2>1. /\ gold' = rows.gold /\ bag' = rows.bag /\ limbo' = [p \in Players |-> {}]
        /\ queue' = << >> /\ rows' = rows
    BY <1>6 DEF Crash
  <2>2. rows \in Ledgers /\ Apart(rows.bag)
    BY DEF Stock
  <2>3. rows.gold \in Purses /\ rows.bag \in Bags
    BY <2>2 DEF Ledgers
  <2>4. limbo' \in Bags /\ \A p \in Players : limbo'[p] = {}
    BY <2>1 DEF Bags
  <2>5. Apart(limbo') /\ \A r, z \in Players : bag'[r] \cap limbo'[z] = {}
    BY <2>4 DEF Apart
  <2>6. /\ gold' \in Purses /\ bag' \in Bags /\ Apart(bag') /\ rows' \in Ledgers
        /\ Apart(rows'.bag) /\ queue' \in Seq(Save)
    BY <2>1, <2>2, <2>3
  <2> QED
    BY <1>1, <2>4, <2>5, <2>6 DEF Stock
<1>7. CASE \E p \in Players :
             \/ \E q \in Players : BeginTrade(p, q)
             \/ HandleSetTradeGold(p) \/ HandleSetTradeItem(p)
             \/ HandleClearTradeItem(p) \/ CastOnTradeSlot(p)
             \/ HandleUnacceptTrade(p) \/ TradeCancel(p)
  <2>1. UNCHANGED <<gold, bag, limbo, rows, queue>>
    BY <1>7 DEF BeginTrade, HandleSetTradeGold, HandleSetTradeItem,
                HandleClearTradeItem, CastOnTradeSlot, HandleUnacceptTrade, Window,
                TradeCancel, owned
  <2> QED
    BY <1>2, <2>1
<1>8. CASE Tick \/ UNCHANGED vars
  <2>1. UNCHANGED <<gold, bag, limbo, rows, queue>>
    BY <1>8 DEF Tick, vars, owned
  <2> QED
    BY <1>2, <2>1
<1> QED
  BY <1>3, <1>4, <1>5, <1>6, <1>7, <1>8 DEF Next

\* With one worker, the saves that wait always turn the rows into the memory.
LEMMA LeadsKeeps ==
    ASSUME NumWorkers = 1
    PROVE  IInv /\ Stock /\ Leads(queue, rows, Memory) /\ [Next]_vars
           => Leads(queue', rows', Memory')
<1> SUFFICES ASSUME IInv, Stock, Leads(queue, rows, Memory), [Next]_vars
             PROVE  Leads(queue', rows', Memory')
  OBVIOUS
<1>1. ASSUME UNCHANGED <<gold, bag, limbo, rows, queue>>
      PROVE  Leads(queue', rows', Memory')
  <2>1. Memory' = Memory
    BY <1>1 DEF Memory
  <2> QED
    BY <1>1, <2>1
<1>2. ASSUME NEW p \in Players, HandleAcceptTrade(p)
      PROVE  Leads(queue', rows', Memory')
  <2>1. PICK q : q = trade[p].with
    OBVIOUS
  <2>2. /\ rows' = rows /\ q \in Players /\ p # q
        /\ \/ deal' = NoDeal /\ UNCHANGED <<gold, bag, limbo, queue>>
           \/ /\ Exchange(p, q)
              /\ CanStoreItems(p, Given(q), Given(p))
              /\ CanStoreItems(q, Given(p), Given(q))
    BY <1>2, <2>1, AcceptCases
  <2>3. CASE UNCHANGED <<gold, bag, limbo, queue>>
    BY <1>1, <2>2, <2>3
  <2>4. CASE /\ Exchange(p, q)
             /\ CanStoreItems(p, Given(q), Given(p))
             /\ CanStoreItems(q, Given(p), Given(q))
    <3>1. Leads(queue', rows, Memory')
      BY <2>2, <2>4, DealKeeps
    <3> QED
      BY <2>2, <3>1
  <2> QED
    BY <2>2, <2>3, <2>4
<1>3. ASSUME NEW p \in Players, Elsewhere(p)
      PROVE  Leads(queue', rows', Memory')
  <2>1. rows' = rows /\ Leads(queue', rows, Memory')
    BY <1>3, ElsewhereKeeps DEF Elsewhere
  <2> QED
    BY <2>1
<1>4. ASSUME NEW w \in Workers, Execute(w)
      PROVE  Leads(queue', rows', Memory')
  <2>1. PICK n \in DOMAIN queue :
               /\ rows' = Applied(rows, queue[n]) /\ queue' = RemoveAt(queue, n)
               /\ \A k \in 1 .. n - 1 : Route(queue[k]) # w
    BY <1>4, ExecuteParts
  <2>2. queue \in Seq(Save) /\ w = 0
    BY DEF Stock, Workers
  <2>3. ASSUME NEW k \in DOMAIN queue PROVE Route(queue[k]) = 0
    <3>1. queue[k] \in Save
      BY <2>2
    <3>2. queue[k].key \in Nat
      BY <3>1, PlayersAssumption DEF Save
    <3>3. \A x \in Nat : x % 1 = 0
      OBVIOUS
    <3> QED
      BY <3>2, <3>3 DEF Route
  <2>4. n = 1
    <3>1. n \in Nat /\ n >= 1 /\ \A k \in 1 .. n - 1 : k \in DOMAIN queue
      BY <2>2
    <3>2. SUFFICES ASSUME n # 1 PROVE FALSE
      OBVIOUS
    <3>3. 1 \in 1 .. n - 1
      BY <3>1, <3>2
    <3> QED
      BY <2>1, <2>2, <2>3, <3>1, <3>3
  <2>5. Leads(RemoveAt(queue, 1), Applied(rows, queue[1]), Memory)
    BY <2>1, <2>2, <2>4, SaveApplied
  <2>6. Memory' = Memory
    BY <1>4 DEF Execute, owned, Memory
  <2> QED
    BY <2>1, <2>4, <2>5, <2>6
<1>5. CASE Crash
  <2>1. /\ gold' = rows.gold /\ bag' = rows.bag /\ limbo' = [p \in Players |-> {}]
        /\ queue' = << >> /\ rows' = rows
    BY <1>5 DEF Crash
  <2>2. rows \in Ledgers /\ rows.gold \in Purses /\ rows.bag \in Bags
    BY DEF Stock, Ledgers
  <2>3. PICK l, n : l = [p \in Players |-> {}] /\ n = Memory'
    OBVIOUS
  <2>4. n = Holdings(rows.gold, rows.bag, l)
    BY <2>1, <2>3 DEF Memory
  <2>5. l \in Bags /\ \A p \in Players : rows.bag[p] \cup l[p] = rows.bag[p]
    BY <2>3 DEF Bags
  <2>6. n \in Ledgers /\ n.gold = rows.gold /\ \A p \in Players : n.bag[p] = rows.bag[p]
    <3>1. PICK g, b : g = rows.gold /\ b = rows.bag
      OBVIOUS
    <3>2. g \in Purses /\ b \in Bags /\ n = Holdings(g, b, l)
      BY <2>2, <2>4, <3>1
    <3>3. n \in Ledgers /\ n.gold = g /\ \A p \in Players : n.bag[p] = b[p] \cup l[p]
      BY <2>5, <3>2, LedgerParts
    <3> QED
      BY <2>5, <3>1, <3>3
  <2>7. n = rows
    BY <2>2, <2>6, SameLedger
  <2> QED
    BY <2>1, <2>3, <2>7, NothingLeads
<1>6. CASE \E p \in Players :
             \/ \E q \in Players : BeginTrade(p, q)
             \/ HandleSetTradeGold(p) \/ HandleSetTradeItem(p)
             \/ HandleClearTradeItem(p) \/ CastOnTradeSlot(p)
             \/ HandleUnacceptTrade(p) \/ TradeCancel(p)
  <2>1. UNCHANGED <<gold, bag, limbo, rows, queue>>
    BY <1>6 DEF BeginTrade, HandleSetTradeGold, HandleSetTradeItem,
                HandleClearTradeItem, CastOnTradeSlot, HandleUnacceptTrade, Window,
                TradeCancel, owned
  <2> QED
    BY <1>1, <2>1
<1>7. CASE Tick \/ UNCHANGED vars
  <2>1. UNCHANGED <<gold, bag, limbo, rows, queue>>
    BY <1>7 DEF Tick, vars, owned
  <2> QED
    BY <1>1, <2>1
<1> QED
  BY <1>2, <1>3, <1>4, <1>5, <1>6, <1>7 DEF Next

-----------------------------------------------------------------------------
(* Theorems                                                                 *)

\* Two windows always face each other: whoever begins, cancels or completes a
\* trade opens or closes both m_trade, so that no handler ever reads the window
\* of a player who trades with a third one.
\* (HandleInitiateTradeOpcode, Player::TradeCancel, HandleAcceptTradeOpcode)
THEOREM WindowsFaceEachOther == Spec => []Paired(trade)
<1>1. Spec => []IInv
  BY InitOK, NextOK, PTL DEF Spec
<1>2. IInv => Paired(trade)
  BY DEF IInv, WindowsOK
<1> QED
  BY <1>1, <1>2, PTL

\* HandleAcceptTradeOpcode exchanges only what the partner has accepted: the two
\* offers are the ones he saw, and no item or money was changed in this second.
THEOREM DealAsAcceptedHolds == Spec => DealAsAccepted
<1> DEFINE Fair == deal'.made =>
              LET p == deal'.by
                  q == deal'.with
              IN  /\ trade[q].accepted
                  /\ trade[q].seen = [mine |-> OfferOf(trade, q),
                                      his |-> OfferOf(trade, p)]
                  /\ {p, q} \cap stirred = {}
<1>1. Spec => []IInv
  BY InitOK, NextOK, PTL DEF Spec
<1>2. ASSUME IInv, NEW p \in Players, HandleAcceptTrade(p), deal'.made
      PROVE  Fair
  <2> DEFINE q == trade[p].with
  <2>1. trade[p].open /\ ~trade[p].fresh /\ q = Trader(p)
    BY <1>2 DEF HandleAcceptTrade, IsOpen, Trader
  <2>2. /\ Sees(trade, q) /\ trade[q].with = p
        /\ p \in stirred \/ q \in stirred => trade[p].fresh /\ trade[q].fresh
    BY <1>2, <2>1, OpenFaces DEF IInv, Facing, LeavesOthers
  <2>3. \/ deal' = NoDeal
        \/ trade[q].accepted /\ Exchange(p, q)
    BY <1>2, <2>1 DEF HandleAcceptTrade, Refuse
  <2>4. ~NoDeal.made
    BY DEF NoDeal
  <2>5. trade[q].accepted /\ deal' = [made |-> TRUE, by |-> p, with |-> q]
    BY <1>2, <2>3, <2>4 DEF Exchange
  <2>6. deal'.by = p /\ deal'.with = q
    BY <2>5
  <2> HIDE DEF q
  <2> QED
    BY <2>1, <2>2, <2>5, <2>6 DEF Sees
<1>3. IInv /\ [Next]_vars => [Fair]_vars
  <2> SUFFICES ASSUME IInv, Next, deal'.made
               PROVE  Fair
    OBVIOUS
  <2>1. ~NoDeal.made
    BY DEF NoDeal
  <2>2. deal' # NoDeal
    BY <2>1
  <2>3. \E p \in Players : HandleAcceptTrade(p)
    BY <2>2 DEF Next, BeginTrade, HandleSetTradeGold, HandleSetTradeItem,
                HandleClearTradeItem, CastOnTradeSlot, HandleUnacceptTrade, Window,
                TradeCancel, Elsewhere, Execute, Tick, Crash
  <2> QED
    BY <1>2, <2>3
<1> QED
  BY <1>1, <1>3, PTL DEF Spec, DealAsAccepted

\* The saves that wait turn the rows into the memory.
Settled == Leads(queue, rows, Memory)

\* Whatever deals, failed stores, losses, gains and crashes came before: when one
\* worker applies the saves, the rows give everybody what he owns in memory, and
\* beyond it only what a deal has lost, once every save is applied.
\* (SaveInventoryAndGoldToDB of both traders in HandleAcceptTradeOpcode)
THEOREM TradeRowsAgreeHolds ==
    ASSUME NumWorkers = 1
    PROVE  Spec => []TradeRowsAgree
<1>1. Init => IInv /\ Stock /\ Settled
  BY InitOK, InitStock DEF Settled
<1>2. IInv /\ Stock /\ Settled /\ [Next]_vars => (IInv /\ Stock /\ Settled)'
  BY NextOK, StockKeeps, LeadsKeeps DEF Settled
<1>3. IInv /\ Stock /\ Settled => TradeRowsAgree
  <2> SUFFICES ASSUME Settled, queue = << >>
               PROVE  rows = Memory
    BY DEF TradeRowsAgree, Memory, Holdings
  <2> QED
    BY NothingWaits DEF Settled
<1> QED
  BY <1>1, <1>2, <1>3, PTL DEF Spec

\* With any number of workers, a deal gives each exactly what the other offered and
\* still has when the item limits admit all of it: moveItems never meets the lack of
\* room that CanStoreItems excluded.  When they admit the items only one by one,
\* moveItems takes back or loses what it cannot store, but it never takes what was
\* not offered, never splits the two items of a slot, gives nobody what another
\* owns or more than he has room for, and creates no money.
THEOREM DealConservesHolds == Spec => DealConserves
<1> DEFINE Conserves == deal'.made =>
              LET p == deal'.by
                  q == deal'.with
              IN  /\ LimitsAdmit(p, Given(q), Given(p)) /\ LimitsAdmit(q, Given(p), Given(q))
                     => /\ bag'[p] = (bag[p] \ Given(p)) \cup Given(q)
                        /\ bag'[q] = (bag[q] \ Given(q)) \cup Given(p)
                  /\ \A r \in {p, q} : /\ bag[r] \ Given(r) \subseteq bag'[r]
                                       /\ Cardinality(bag'[r]) <= Capacity[r]
                  /\ \A s \in TradedSlots :
                       ItemIn(p, s) # Nobody /\ ItemIn(q, s) # Nobody
                       => (ItemIn(p, s) \in bag'[q] <=> ItemIn(q, s) \in bag'[p])
                  /\ bag'[p] \cap bag'[q] = {}
                  /\ gold'[p] + gold'[q] <= gold[p] + gold[q]
<1>1. Spec => [](IInv /\ Stock)
  <2>1. Init => IInv /\ Stock
    BY InitOK, InitStock
  <2>2. IInv /\ Stock /\ [Next]_vars => (IInv /\ Stock)'
    BY NextOK, StockKeeps
  <2> QED
    BY <2>1, <2>2, PTL DEF Spec
<1>2. ASSUME IInv, Stock, NEW p \in Players, HandleAcceptTrade(p), deal'.made
      PROVE  Conserves
  <2> DEFINE q == trade[p].with
  <2>1. /\ q \in Players /\ p # q
        /\ \/ deal' = NoDeal
           \/ /\ Exchange(p, q)
              /\ CanStoreItems(p, Given(q), Given(p))
              /\ CanStoreItems(q, Given(p), Given(q))
              /\ ~(trade[p].money > gold[p]) /\ ~(trade[q].money > gold[q])
    BY <1>2, AcceptCases
  <2> HIDE DEF q
  <2>2. ~NoDeal.made
    BY DEF NoDeal
  <2>3. /\ Exchange(p, q)
        /\ CanStoreItems(p, Given(q), Given(p))
        /\ CanStoreItems(q, Given(p), Given(q))
        /\ ~(trade[p].money > gold[p]) /\ ~(trade[q].money > gold[q])
    BY <1>2, <2>1, <2>2
  <2>4. PICK me, him, made, P, Q :
               /\ P = Given(p) /\ Q = Given(q) /\ moveItems(p, q).me = me
               /\ moveItems(p, q).him = him /\ moveItems(p, q).made = made
    OBVIOUS
  <2>5. DealStep(p, q, P, Q, me, him, made)
    BY <1>2, <2>1, <2>3, <2>4, DealMoves
  <2>6. /\ Dealt(p, q, P, Q, me, him, made)
        /\ Cardinality(me) <= Capacity[p] /\ Cardinality(him) <= Capacity[q]
        /\ \A s \in TradedSlots :
             ItemIn(p, s) # Nobody /\ ItemIn(q, s) # Nobody
             => (ItemIn(p, s) \in him <=> ItemIn(q, s) \in me)
        /\ bag' = [bag EXCEPT ![p] = me, ![q] = him]
        /\ gold' = [gold EXCEPT
                      ![p] = AfterMoney(gold[p], trade[p].money, trade[q].money),
                      ![q] = AfterMoney(gold[q], trade[q].money, trade[p].money)]
        /\ deal' = [made |-> TRUE, by |-> p, with |-> q]
    BY <2>5 DEF DealStep
  <2>7. /\ trade \in Windows /\ bag \in Bags /\ gold \in Purses /\ Spread(trade)
    BY <1>2 DEF IInv, WindowsOK, Stock
  <2>8. bag'[p] = me /\ bag'[q] = him
    BY <2>1, <2>6, <2>7 DEF Bags
  <2>9. /\ bag[p] \ Given(p) \subseteq bag'[p] /\ bag[q] \ Given(q) \subseteq bag'[q]
        /\ bag'[p] \cap bag'[q] = {}
    BY <2>4, <2>6, <2>8 DEF Dealt
  <2>10. ASSUME LimitsAdmit(p, Given(q), Given(p)), LimitsAdmit(q, Given(p), Given(q))
         PROVE  /\ bag'[p] = (bag[p] \ Given(p)) \cup Given(q)
                /\ bag'[q] = (bag[q] \ Given(q)) \cup Given(p)
    <3>1. moveItems(p, q) = [me |-> (bag[p] \ Given(p)) \cup Given(q),
                             him |-> (bag[q] \ Given(q)) \cup Given(p), made |-> {}]
      BY <2>1, <2>3, <2>7, <2>10, Moved
    <3> QED
      BY <2>4, <2>8, <3>1
  <2>11. gold'[p] + gold'[q] <= gold[p] + gold[q]
    <3>1. /\ gold[p] \in Nat /\ gold[q] \in Nat /\ MaxMoney \in Nat
          /\ trade[p].money \in Nat /\ trade[q].money \in Nat
      BY <2>1, <2>7, NumberAssumption DEF Windows, TradeData, Purses
    <3>2. /\ gold'[p] = AfterMoney(gold[p], trade[p].money, trade[q].money)
          /\ gold'[q] = AfterMoney(gold[q], trade[q].money, trade[p].money)
      BY <2>1, <2>6, <2>7 DEF Purses
    <3>3. ASSUME NEW g \in Nat, NEW h \in Nat, NEW m \in Nat, NEW n \in Nat,
                 ~(m > g), ~(n > h)
          PROVE  AfterMoney(g, m, n) + AfterMoney(h, n, m) <= g + h
      <4>1. AfterMoney(g, m, n) \in Nat /\ AfterMoney(g, m, n) <= (g - m) + n
        BY <3>1, <3>3 DEF AfterMoney, Least
      <4>2. AfterMoney(h, n, m) \in Nat /\ AfterMoney(h, n, m) <= (h - n) + m
        BY <3>1, <3>3 DEF AfterMoney, Least
      <4> QED
        BY <4>1, <4>2
    <3> QED
      BY <2>3, <3>1, <3>2, <3>3
  <2>12. deal'.by = p /\ deal'.with = q
    BY <2>6
  <2>13. Cardinality(bag'[p]) <= Capacity[p] /\ Cardinality(bag'[q]) <= Capacity[q]
    BY <2>6, <2>8
  <2>14. \A s \in TradedSlots :
           ItemIn(p, s) # Nobody /\ ItemIn(q, s) # Nobody
           => (ItemIn(p, s) \in bag'[q] <=> ItemIn(q, s) \in bag'[p])
    BY <2>6, <2>8
  <2> QED
    BY <2>9, <2>10, <2>11, <2>12, <2>13, <2>14
<1>3. IInv /\ Stock /\ [Next]_vars => [Conserves]_vars
  <2> SUFFICES ASSUME IInv, Stock, Next, deal'.made
               PROVE  Conserves
    OBVIOUS
  <2>1. ~NoDeal.made
    BY DEF NoDeal
  <2>2. deal' # NoDeal
    BY <2>1
  <2>3. \E p \in Players : HandleAcceptTrade(p)
    BY <2>2 DEF Next, BeginTrade, HandleSetTradeGold, HandleSetTradeItem,
                HandleClearTradeItem, CastOnTradeSlot, HandleUnacceptTrade, Window,
                TradeCancel, Elsewhere, Execute, Tick, Crash
  <2> QED
    BY <1>2, <2>3
<1> QED
  BY <1>1, <1>3, PTL DEF Spec, DealConserves

=============================================================================
