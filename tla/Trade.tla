-------------------------------- MODULE Trade --------------------------------
(***************************************************************************)
(* The trade window: the handlers of TradeHandler.cpp, TradeData and the      *)
(* trade calls of Player.cpp.  Both traders are on one map, so the handlers    *)
(* run one after the other on its thread; anything else that happens to the    *)
(* traders may happen between two of them.                                     *)
(*                                                                         *)
(* A refusal that changes nothing (dead, stunned, busy, another faction, a      *)
(* banned fingerprint) is a step that is not taken.  Time is whole seconds, as  *)
(* in the code: time() tells whether a window was modified in this second.     *)
(***************************************************************************)
EXTENDS Naturals, FiniteSets, Sequences, SequencesExt

CONSTANTS
    Players,        \* guids
    Items,
    Entry,          \* the template of an item
    MaxCount,       \* how many of a template one player may own; 0: any number
    Copy,           \* bound: the one copy CloneItem can make of an item, if any
    Spells,         \* spells for an item in the window, with the item that casts them
    NumSlots,       \* TRADE_SLOT_TRADED_COUNT
    Capacity,       \* the inventory slots of each player
    NumWorkers,     \* CharacterDatabase.WorkerThreads
    MaxMoney,       \* MAX_MONEY_AMOUNT
    InitialGold,    \* what every player owns at first
    InitialBag,     \* the items every player owns at first
    MaxQueued,      \* bound: saves that wait for the database
    MaxEvents,      \* bound: deals, events outside the trade and crashes
    Nobody          \* no player, no item, no spell

NonTraded == 0
TradedSlots == 1 .. NumSlots
Slots == {NonTraded} \cup TradedSlots

Workers == 0 .. NumWorkers - 1

ASSUME NobodyAssumption == Nobody \notin Players \cup Items \cup Spells
ASSUME PlayersAssumption == Players \subseteq Nat
ASSUME NumberAssumption ==
    /\ NumSlots \in Nat \ {0} /\ NumWorkers \in Nat \ {0}
    /\ MaxMoney \in Nat /\ InitialGold \in 0 .. MaxMoney
    /\ MaxQueued \in Nat /\ MaxEvents \in Nat
    /\ Capacity \in [Players -> Nat]
ASSUME BagAssumption ==
    /\ IsFiniteSet(Items)
    /\ InitialBag \in [Players -> SUBSET Items]
    /\ \A p, q \in Players : p # q => InitialBag[p] \cap InitialBag[q] = {}
    /\ \A p \in Players : Cardinality(InitialBag[p]) <= Capacity[p]
ASSUME TemplateAssumption ==
    /\ DOMAIN Entry = Items
    /\ MaxCount \in [{Entry[i] : i \in Items} -> Nat]
ASSUME CopyAssumption ==
    /\ Copy \in [Items -> Items \cup {Nobody}]
    /\ \A i \in Items : Copy[i] # Nobody =>
         Copy[i] # i /\ Entry[Copy[i]] = Entry[i]
    /\ \A i, j \in Items : Copy[i] = Copy[j] /\ Copy[i] # Nobody => i = j

VARIABLES
    trade,      \* Player::m_trade
    gold, bag,  \* what the players own, in memory
    limbo,      \* items a player's rows still give him and memory does not
    rows,       \* what the database says of it
    queue,      \* the saves on their way to the database
    events,     \* deals and events outside the trade so far
    deal,       \* history: the exchange the last step made
    stirred     \* history: players whose items or money in the window changed
                \* in this second

owned == <<gold, bag, limbo>>
vars == <<trade, owned, rows, queue, events, deal, stirred>>

NoDeal == [made |-> FALSE, by |-> Nobody, with |-> Nobody]
Unseen == [mine |-> Nobody, his |-> Nobody]

\* TradeData; fresh: m_lastModificationTime is this second; seen (history): the
\* two offers the player saw when he accepted.
NewTrade(q) ==
    [open |-> TRUE, with |-> q, items |-> [s \in Slots |-> Nobody], money |-> 0,
     spell |-> Nobody, accepted |-> FALSE, fresh |-> FALSE, seen |-> Unseen]

\* m_trade is null.
NoTrade == [NewTrade(Nobody) EXCEPT !.open = FALSE]

Init ==
    /\ trade = [p \in Players |-> NoTrade]
    /\ gold = [p \in Players |-> InitialGold]
    /\ bag = InitialBag
    /\ limbo = [p \in Players |-> {}]
    /\ rows = [gold |-> gold, bag |-> bag]
    /\ queue = <<>>
    /\ events = 0
    /\ deal = NoDeal
    /\ stirred = {}

IsOpen(p) == trade[p].open
Trader(p) == trade[p].with

\* What one side has put into the window: m_items holds guids, an item that has
\* left the inventory since then is still among them.
OfferOf(t, p) == [items |-> t[p].items, money |-> t[p].money, spell |-> t[p].spell]

-----------------------------------------------------------------------------
(* TradeData                                                                *)

\* SetAccepted(false)
Withdrawn(d) == [d EXCEPT !.accepted = FALSE, !.seen = Unseen]

\* Fault: only the own acceptance is withdrawn.
MineUnaccepted(t, p) == [t EXCEPT ![p] = Withdrawn(@)]

\* SetAccepted(false) on both sides.
Unaccepted(t, p) ==
    [t EXCEPT ![p] = Withdrawn(@), ![t[p].with] = Withdrawn(@)]

SetMoney(t, p, amount) ==
    IF t[p].money = amount THEN t
    ELSE Unaccepted([t EXCEPT ![p].money = amount], p)

SetSpell(t, p, spell) ==
    IF t[p].spell = spell THEN t
    ELSE Unaccepted([t EXCEPT ![p].spell = spell], p)

\* A new item ends the spell on it, and the own spell (a reagent may have moved).
SetItem(t, p, slot, i) ==
    LET placed == Unaccepted([t EXCEPT ![p].items[slot] = i], p)
        other == IF slot = NonTraded THEN SetSpell(placed, t[p].with, Nobody)
                 ELSE placed
    IN  IF t[p].items[slot] = i THEN t ELSE SetSpell(other, p, Nobody)

\* What every handler of the window does before it changes p's side.
Modified(t, p) ==
    [t EXCEPT ![t[p].with] = [Withdrawn(@) EXCEPT !.fresh = TRUE],
              ![p].fresh = TRUE]

\* The window closes on both sides.
Closed(t, p) == [t EXCEPT ![p] = NoTrade, ![t[p].with] = NoTrade]

-----------------------------------------------------------------------------
(* The handlers of the window                                               *)

\* HandleInitiateTradeOpcode, BeginTradeWith
BeginTrade(p, q) ==
    /\ p # q /\ ~IsOpen(p) /\ ~IsOpen(q)
    /\ trade' = [trade EXCEPT ![p] = NewTrade(q), ![q] = NewTrade(p)]
    /\ deal' = NoDeal
    /\ UNCHANGED <<owned, rows, queue, events, stirred>>

\* A handler replaced the windows by t.
Window(p, t) ==
    /\ trade' = t
    /\ stirred' = IF t[p].items = trade[p].items /\ t[p].money = trade[p].money
                  THEN stirred ELSE stirred \cup {p}
    /\ deal' = NoDeal
    /\ UNCHANGED <<owned, rows, queue, events>>

HandleSetTradeGold(p) ==
    /\ IsOpen(p)
    /\ \E amount \in 0 .. MaxMoney :
         /\ amount <= gold[p]
         /\ Window(p, SetMoney(Modified(trade, p), p, amount))

HandleSetTradeItem(p) ==
    /\ IsOpen(p)
    /\ \E slot \in Slots, i \in Items :
         /\ i \in bag[p]
         /\ \A s \in Slots : trade[p].items[s] # i
         /\ Window(p, SetItem(Modified(trade, p), p, slot, i))

HandleClearTradeItem(p) ==
    /\ IsOpen(p)
    /\ \E slot \in Slots : Window(p, SetItem(Modified(trade, p), p, slot, Nobody))

\* Spell::CheckCast with the partner's last slot as its target.
CastOnTradeSlot(p) ==
    /\ IsOpen(p)
    /\ \E spell \in Spells : Window(p, SetSpell(trade, p, spell))

HandleUnacceptTrade(p) ==
    /\ IsOpen(p)
    /\ Window(p, [trade EXCEPT ![p] = Withdrawn(@)])

\* TradeCancel: cancel, ignore and busy, a trader who moves away, takes a taxi,
\* leaves the world or logs out.
TradeCancel(p) ==
    /\ IsOpen(p)
    /\ trade' = Closed(trade, p)
    /\ stirred' = stirred \ {p, Trader(p)}
    /\ deal' = NoDeal
    /\ UNCHANGED <<owned, rows, queue, events>>

-----------------------------------------------------------------------------
(* Saves                                                                    *)

\* SaveInventoryAndGoldToDB of p: _SaveInventory inserts the rows of new items,
\* moves the rows of items whose state is changed and deletes those of lost items.
SaveOf(p, amount, new, moved, lost) ==
    [key |-> p, gold |-> amount, new |-> new, moved |-> moved, lost |-> lost]

\* The saves are committed in this order, each with the guid of its player.
Queue(saves) ==
    /\ Len(queue) + Len(saves) <= MaxQueued
    /\ queue' = queue \o saves

\* The worker that serves the save.
Route(s) == s.key % NumWorkers

\* The rows r after the save s.  A row is found by its item alone, whoever has it;
\* an INSERT of a row that is there fails the transaction.
Applied(r, s) ==
    LET present == UNION {r.bag[p] : p \in Players}
    IN  IF s.new \cap present # {} THEN r
        ELSE [gold |-> [r.gold EXCEPT ![s.key] = s.gold],
              bag |-> [p \in Players |->
                         IF p = s.key
                         THEN (r.bag[p] \ s.lost) \cup s.new \cup (s.moved \cap present)
                         ELSE r.bag[p] \ (s.moved \cup s.lost)]]

\* A worker applies the first save of its own.
Execute(w) ==
    /\ \E n \in DOMAIN queue :
         /\ Route(queue[n]) = w
         /\ \A k \in 1 .. n - 1 : Route(queue[k]) # w
         /\ rows' = Applied(rows, queue[n])
         /\ queue' = RemoveAt(queue, n)
    /\ deal' = NoDeal
    /\ UNCHANGED <<trade, owned, events, stirred>>

-----------------------------------------------------------------------------
(* HandleAcceptTradeOpcode                                                  *)

\* GetItem: the item of a slot, if its owner still has it.
ItemIn(p, slot) ==
    IF trade[p].items[slot] \in bag[p] THEN trade[p].items[slot] ELSE Nobody

Given(p) == {ItemIn(p, s) : s \in TradedSlots} \ {Nobody}

\* _CanTakeMoreSimilarItems: the inventory b may hold i besides what it holds.
CanTakeMore(b, i) ==
    \/ MaxCount[Entry[i]] = 0
    \/ Cardinality({j \in b \ {i} : Entry[j] = Entry[i]}) < MaxCount[Entry[i]]

\* Fault: there is always room.
AlwaysFits(p, in, out) == TRUE

\* CanStoreItems: the items p gives leave room, but they count for the limits; of
\* the items he gets, each is held against the limit without the others.
CanStoreItems(p, in, out) ==
    /\ \A i \in in : CanTakeMore(bag[p], i)
    /\ Cardinality(bag[p] \ out) + Cardinality(in) <= Capacity[p]

\* CanStoreItem: p, whose inventory is b now, can store i; taken counts the slots
\* already in the list of positions.
CanStoreItem(p, b, taken, i) ==
    i = Nobody \/ (CanTakeMore(b, i) /\ Cardinality(b) + taken < Capacity[p])

\* What p, whose inventory is b, stores of his own i when its slot has failed.
\* The list of positions still has that of the item he would have got (taken = 1):
\* StoreItem fills both, the first with a copy.
TakenBack(p, b, taken, i) ==
    IF i = Nobody \/ ~CanStoreItem(p, b, taken, i) THEN {}
    ELSE IF taken = 1 THEN {i, Copy[i]} ELSE {i}

\* One slot of moveItems; b has the inventories of p and q and the copies made.
\* What one cannot store both take back, and it is lost without room for it.
MoveSlot(p, q, b, mine, his) ==
    LET gives == CanStoreItem(q, b.him, 0, mine)
        takes == CanStoreItem(p, b.me, 0, his)
        Back == TakenBack(p, b.me, IF takes /\ his # Nobody THEN 1 ELSE 0, mine)
        HisBack == TakenBack(q, b.him, IF gives /\ mine # Nobody THEN 1 ELSE 0, his)
    IN  IF gives /\ takes
        THEN [me |-> b.me \cup ({his} \ {Nobody}), him |-> b.him \cup ({mine} \ {Nobody}),
              made |-> b.made]
        ELSE [me |-> b.me \cup Back, him |-> b.him \cup HisBack,
              made |-> b.made \cup (Back \ {mine}) \cup (HisBack \ {his})]

\* The items are removed from both, then moved slot by slot.
moveItems(p, q) ==
    LET after[n \in 0 .. NumSlots] ==
          IF n = 0
          THEN [me |-> bag[p] \ Given(p), him |-> bag[q] \ Given(q), made |-> {}]
          ELSE MoveSlot(p, q, after[n - 1], ItemIn(p, n), ItemIn(q, n))
    IN  after[NumSlots]

Least(a, b) == IF a <= b THEN a ELSE b

\* ModifyMoney(-out), then ModifyMoney(in): no less than 0, no more than the cap.
AfterMoney(amount, out, in) ==
    Least((IF amount > out THEN amount - out ELSE 0) + in, MaxMoney)

\* The save of r, whose inventory is b after the deal: a stored item is changed,
\* a copy is new.
SaveAfter(p, q, r, b, items, amount) ==
    SaveOf(r, amount[r], b \cap items.made, b \cap (Given(p) \cup Given(q)), {})

\* Fault: only the player who accepted last is saved.
SaveMe(p, q, items, amount) == <<SaveAfter(p, q, p, items.me, items, amount)>>

SaveBoth(p, q, items, amount) ==
    <<SaveAfter(p, q, p, items.me, items, amount),
      SaveAfter(p, q, q, items.him, items, amount)>>

\* The items nobody has: in no inventory and in no row.
Unowned ==
    Items \ UNION {bag[p] \cup limbo[p] \cup rows.bag[p] : p \in Players}

\* Everything is checked: items, money, the end of the trade and two saves.
Exchange(p, q) ==
    LET items == moveItems(p, q)
        amount == [gold EXCEPT
                     ![p] = AfterMoney(@, trade[p].money, trade[q].money),
                     ![q] = AfterMoney(@, trade[q].money, trade[p].money)]
        kept == items.me \cup items.him
    IN  /\ events < MaxEvents /\ events' = events + 1
        /\ items.made \subseteq Unowned
        /\ bag' = [bag EXCEPT ![p] = items.me, ![q] = items.him]
        /\ limbo' = [limbo EXCEPT ![p] = @ \cup (Given(p) \ kept),
                                  ![q] = @ \cup (Given(q) \ kept)]
        /\ gold' = amount
        /\ trade' = Closed(trade, p)
        /\ stirred' = stirred \ {p, q}
        /\ Queue(SaveBoth(p, q, items, amount))
        /\ deal' = [made |-> TRUE, by |-> p, with |-> q]

\* p has accepted what both windows show.
Accepted(p) ==
    [trade[p] EXCEPT !.accepted = TRUE, !.fresh = TRUE,
                     !.seen = [mine |-> OfferOf(trade, p),
                               his |-> OfferOf(trade, Trader(p))]]

\* The windows after a refusal.
Refuse(t) ==
    /\ trade' = t
    /\ deal' = NoDeal
    /\ UNCHANGED <<owned, queue, events, stirred>>

HandleAcceptTrade(p) ==
    LET q == Trader(p)
        t == [trade EXCEPT ![p] = Accepted(p)]
        poor(r) == trade[r].money > gold[r]
        both == ~poor(p) /\ ~poor(q) /\ trade[q].accepted
        room == /\ CanStoreItems(p, Given(q), Given(p))
                /\ CanStoreItems(q, Given(p), Given(q))
        \* The spell of r, and the item it is meant for.
        castable(r) == trade[r].spell = Nobody \/ ItemIn(trade[r].with, NonTraded) # Nobody
    IN  /\ IsOpen(p) /\ ~trade[p].fresh
        /\ \* too far, a game master, an item that cannot be traded any more
           \/ Refuse(t)
           \/ poor(p) /\ Refuse([t EXCEPT ![p] = Withdrawn(@)])
           \/ ~poor(p) /\ poor(q) /\ Refuse([t EXCEPT ![q] = Withdrawn(@)])
           \* a script of OnTradeAccept refuses (ENABLE_ELUNA)
           \/ ~poor(p) /\ ~poor(q) /\ Refuse([t EXCEPT ![p] = Withdrawn(@)])
           \* a spell that cannot be cast now
           \/ both /\ trade[p].spell # Nobody /\ Refuse(SetSpell(t, p, Nobody))
           \/ /\ both /\ castable(p) /\ trade[q].spell # Nobody
              /\ Refuse(SetSpell(t, q, Nobody))
           \/ /\ both /\ castable(p) /\ castable(q) /\ ~room
              /\ Refuse([Unaccepted(t, p) EXCEPT ![q].fresh = TRUE])
           \/ both /\ castable(p) /\ castable(q) /\ room /\ Exchange(p, q)
        /\ UNCHANGED rows

-----------------------------------------------------------------------------
(* What happens around the window                                           *)

\* A new second.
Tick ==
    /\ trade' = [p \in Players |->
                   IF IsOpen(p) THEN [trade[p] EXCEPT !.fresh = FALSE] ELSE trade[p]]
    /\ stirred' = {}
    /\ deal' = NoDeal
    /\ UNCHANGED <<owned, rows, queue, events>>

\* Other handlers of p (mail, vendors, quests, loot) change what he owns and
\* save it; an item may leave while it lies in the window.
Elsewhere(p) ==
    /\ events < MaxEvents /\ events' = events + 1
    /\ \/ /\ \E i \in bag[p] :
               /\ bag' = [bag EXCEPT ![p] = @ \ {i}]
               /\ Queue(<<SaveOf(p, gold[p], {}, {}, {i})>>)
          /\ UNCHANGED gold
       \/ /\ \E i \in Items \ UNION {bag[q] \cup limbo[q] : q \in Players} :
               /\ CanStoreItem(p, bag[p], 0, i)
               /\ bag' = [bag EXCEPT ![p] = @ \cup {i}]
               /\ Queue(<<SaveOf(p, gold[p], {i}, {}, {})>>)
          /\ UNCHANGED gold
       \/ /\ \E amount \in 0 .. MaxMoney :
               /\ gold' = [gold EXCEPT ![p] = amount]
               /\ Queue(<<SaveOf(p, amount, {}, {}, {})>>)
          /\ UNCHANGED bag
    /\ deal' = NoDeal
    /\ UNCHANGED <<trade, limbo, rows, stirred>>

\* The server stops; the players come back with what the rows say.
Crash ==
    /\ events < MaxEvents /\ events' = events + 1
    /\ trade' = [p \in Players |-> NoTrade]
    /\ gold' = rows.gold /\ bag' = rows.bag
    /\ limbo' = [p \in Players |-> {}]
    /\ queue' = <<>> /\ stirred' = {}
    /\ deal' = NoDeal
    /\ UNCHANGED rows

Next ==
    \/ \E p \in Players :
         \/ \E q \in Players : BeginTrade(p, q)
         \/ HandleSetTradeGold(p) \/ HandleSetTradeItem(p)
         \/ HandleClearTradeItem(p) \/ CastOnTradeSlot(p)
         \/ HandleUnacceptTrade(p) \/ HandleAcceptTrade(p)
         \/ TradeCancel(p) \/ Elsewhere(p)
    \/ \E w \in Workers : Execute(w)
    \/ Tick \/ Crash

Spec == Init /\ [][Next]_vars

-----------------------------------------------------------------------------
(* Properties                                                               *)

\* When goods change hands, the partner had accepted exactly the two offers
\* that lie in the window now, and neither side's items or money changed in
\* this second.
\* (HandleAcceptTradeOpcode, TradeData::SetItem, SetMoney, SetSpell)
DealAsAccepted ==
    [][deal'.made =>
         LET p == deal'.by
             q == deal'.with
         IN  /\ trade[q].accepted
             /\ trade[q].seen = [mine |-> OfferOf(trade, q), his |-> OfferOf(trade, p)]
             /\ {p, q} \cap stirred = {}]_vars

\* r may own all he is given at once, whatever moveItems does first.
LimitsAdmit(r, in, out) == \A i \in in : CanTakeMore((bag[r] \ out) \cup in, i)

\* A deal gives each exactly what the other offered and still has, unless the limit
\* of an item admits each of them alone and not all of them.  Even then what was
\* not offered stays where it is, the two items of a slot change hands together or
\* not at all, nobody owns what the other owns or more than he has room for, and
\* the traders own no more money together.
\* (CanStoreItems before moveItems, its fallback, the two checks of the money)
DealConserves ==
    [][deal'.made =>
         LET p == deal'.by
             q == deal'.with
         IN  /\ LimitsAdmit(p, Given(q), Given(p)) /\ LimitsAdmit(q, Given(p), Given(q))
                => /\ bag'[p] = (bag[p] \ Given(p)) \cup Given(q)
                   /\ bag'[q] = (bag[q] \ Given(q)) \cup Given(p)
             /\ \A r \in {p, q} : /\ bag[r] \ Given(r) \subseteq bag'[r]
                                  /\ Cardinality(bag'[r]) <= Capacity[r]
             /\ \A s \in TradedSlots :
                  ItemIn(p, s) # Nobody /\ ItemIn(q, s) # Nobody
                  => (ItemIn(p, s) \in bag'[q] <=> ItemIn(q, s) \in bag'[p])
             /\ bag'[p] \cap bag'[q] = {}
             /\ gold'[p] + gold'[q] <= gold[p] + gold[q]]_vars

\* Once every save is applied, the rows give everybody what he owns, and beyond it
\* only what a deal has lost.
\* (SaveInventoryAndGoldToDB of both traders)
TradeRowsAgree ==
    queue = <<>> =>
        rows = [gold |-> gold, bag |-> [p \in Players |-> bag[p] \cup limbo[p]]]

=============================================================================
