------------------------------ MODULE MCTrade -------------------------------
(* Player 1 has two items of a template of which a player may own two, player 2 *)
(* has a third and two items without a limit: either of the first two may be     *)
(* given to player 2, both together not.  What player 1 can store on the way     *)
(* decides whether the second comes back to him, with a copy or not at all.      *)
EXTENDS Trade, TLC

CONSTANTS x0, x1, x2, y, z, c0, c1

MCEntry == [i \in Items |-> IF i \in {y, z} THEN 2 ELSE 1]
MCMaxCount == <<2, 0>>
MCCopy == [i \in Items |-> CASE i = x0 -> c0 [] i = x1 -> c1 [] OTHER -> Nobody]
MCBag == <<{x0, x1}, {x2, y, z}>>
MCCapacity == <<2, 4>>

\* x0 and x1, with their copies, and y and z play the same part.
Swap(f) == [i \in Items |-> IF i \in DOMAIN f THEN f[i] ELSE i]
SwapX == x0 :> x1 @@ x1 :> x0 @@ c0 :> c1 @@ c1 :> c0
SwapY == y :> z @@ z :> y
Twins == {Swap(SwapX), Swap(SwapY), Swap(SwapX @@ SwapY)}

\* Bound: four things in the windows; after one event two traded items, or one
\* other thing; after two events nothing.
InSlots(p) == Cardinality({s \in TradedSlots : trade[p].items[s] # Nobody})
Count(thing, none) == IF thing = none THEN 0 ELSE 1
Besides(p) ==
    Count(trade[p].items[NonTraded], Nobody) + Count(trade[p].money, 0)
      + Count(trade[p].spell, Nobody)
FewInWindows ==
    InSlots(1) + InSlots(2) + (events + 1) * (Besides(1) + Besides(2)) + 2 * events <= 4
=============================================================================
