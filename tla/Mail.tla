-------------------------------- MODULE Mail --------------------------------
(***************************************************************************)
(* Mail between players: the handlers of MailHandler.cpp, the mailbox of an  *)
(* online player (MasterPlayer.cpp), MailDraft::SendMailTo (Mail.cpp), the    *)
(* return of expired mail (ObjectMgr.cpp) and the rows they write.            *)
(*                                                                         *)
(* The world's memory and the rows of the character database are kept apart.  *)
(* A handler changes memory at once and queues its writes; a worker of the     *)
(* database applies a queued transaction later (Route is the routing of        *)
(* AsyncDatabase).  A login reads rows that may be old.  A handler is one      *)
(* action; the queries whose answers it waits for separate two actions.        *)
(***************************************************************************)
EXTENDS Naturals, FiniteSets, Sequences, SequencesExt, FiniteSetsExt, Functions

CONSTANTS
    Players,        \* character guids
    Items,          \* items with a unique guid
    Hardcore,       \* senders that are hardcore when their mail is to go back
    NumWorkers,     \* CharacterDatabase.WorkerThreads
    Postage,        \* the price of a mail (30 in the code)
    MaxMoney,       \* MAX_MONEY_AMOUNT
    Offers,         \* the sums a client attaches and asks for on delivery
    InitialGold,    \* what every player owns at first
    MaxMails,       \* bound: mails sent in one behaviour
    MaxLogins,      \* bound: logins in one behaviour
    MaxQueued,      \* bound: transactions that wait for the workers
    Crashes,        \* may the server crash (once)
    Nobody          \* no player, no item

ASSUME PlayersAssumption ==
    Players \subseteq Nat \ {0} /\ Players # {} /\ IsFiniteSet(Players)
ASSUME ItemsAssumption == IsFiniteSet(Items) /\ Nobody \notin Items \cup Players
ASSUME WorkersAssumption == NumWorkers \in Nat \ {0}
ASSUME MoneyAssumption ==
    /\ Postage \in Nat \ {0} /\ MaxMoney \in Nat /\ InitialGold \in 0 .. MaxMoney
    /\ Offers \subseteq [money : Nat, cod : Nat]
ASSUME BoundAssumption ==
    /\ MaxMails \in Nat /\ MaxLogins \in Nat /\ MaxQueued \in Nat
    /\ Crashes \in BOOLEAN

MailIds == 1 .. MaxMails
Workers == 0 .. NumWorkers - 1

VARIABLES
    session,    \* "offline", "loading" (its rows are read) or "online"
    loaded,     \* the rows a loading player will start from
    gold,       \* memory: PLAYER_FIELD_COINAGE
    bag,        \* memory: the items of the inventory
    box,        \* memory: MasterPlayer::m_mail with mMitems
    updated,    \* memory: MasterPlayer::m_mailsUpdated
    mails,      \* mail ids handed out by GenerateMailID
    request,    \* the AsyncMailSendRequest a player waits for (bound: one in all)
    returner,   \* the expired mail OldMailsReturner works on (bound: one)
    delivered,  \* mails whose deliver_time has come
    db,         \* the rows: gold, inv, inst, mail and mitems
    queue,      \* the committed transactions no worker has applied yet
    logins,     \* number of logins so far
    exposed     \* history: what has happened that the rows do not survive

memory == <<gold, bag, box, updated>>
vars == <<session, loaded, memory, mails, request, returner, delivered, db, queue,
          logins, exposed>>

Idle == [stage |-> "idle", mail |-> 0, row |-> Nobody, item |-> Nobody, met |-> FALSE]
NoRequest == [item |-> Nobody, money |-> 0, cod |-> 0, to |-> Nobody]
NoMails == <<>>
FirstOwner == CHOOSE f \in [Items -> Players] : TRUE

EmptyRows(p) == [gold |-> 0, bag |-> {}, box |-> NoMails]

Init ==
    /\ session = [p \in Players |-> "online"]
    /\ db = [gold |-> [p \in Players |-> InitialGold], inv |-> FirstOwner,
             inst |-> Items, mail |-> NoMails, mitems |-> {}]
    /\ gold = [p \in Players |-> InitialGold]
    /\ bag = [p \in Players |-> {i \in Items : FirstOwner[i] = p}]
    /\ box = [p \in Players |-> NoMails]
    /\ updated = [p \in Players |-> FALSE]
    /\ loaded = [p \in Players |-> EmptyRows(p)]
    /\ mails = 0 /\ request = [p \in Players |-> NoRequest] /\ returner = Idle
    /\ delivered = {}
    /\ queue = <<>>
    /\ logins = 0 /\ exposed = {}

-----------------------------------------------------------------------------
(* The rows and the transactions on them                                    *)

\* A transaction that does nothing; the handlers override what they write.
\*   gold        UPDATE characters SET money          (player -> amount)
\*   delInv      DELETE FROM character_inventory WHERE item
\*   insInv      INSERT INTO character_inventory, REPLACE INTO item_instance
\*   delInst     DELETE FROM item_instance
\*   insMail     INSERT INTO mail                     (id -> row)
\*   setMail     UPDATE mail of SaveMails             (id -> new values)
\*   backMail    UPDATE mail of SingleMailReturner    (id -> new values)
\*   endMail     UPDATE mail SET isDeleted = 1
\*   insItems    INSERT INTO mail_items               [mail, item, to]
\*   delItems    DELETE FROM mail_items WHERE item_guid
\*   delItemsOf  DELETE FROM mail_items WHERE mail_id
\*   backItems   UPDATE mail_items SET receiver       (item -> player)
Nothing ==
    [key |-> 0, gold |-> <<>>, delInv |-> {}, insInv |-> <<>>, delInst |-> {},
     insMail |-> <<>>, setMail |-> <<>>, backMail |-> <<>>, endMail |-> {},
     insItems |-> {}, delItems |-> {}, delItemsOf |-> {}, backItems |-> <<>>]

\* The values of f and, where it has none, those of g.
Over(f, g) ==
    [x \in DOMAIN f \cup DOMAIN g |-> IF x \in DOMAIN f THEN f[x] ELSE g[x]]

Only(k, v) == [x \in {k} |-> v]

\* What the UPDATE statements of t leave of the row of mail m.
AfterRow(t, m, row) ==
    LET set == IF m \notin DOMAIN t.setMail THEN row
               ELSE [row EXCEPT !.money = t.setMail[m].money,
                                !.cod = t.setMail[m].cod,
                                !.has = t.setMail[m].has,
                                !.checked = t.setMail[m].checked,
                                !.expires = t.setMail[m].expires]
        back == IF m \notin DOMAIN t.backMail THEN set
                ELSE [set EXCEPT !.from = t.backMail[m].from,
                                 !.to = t.backMail[m].to,
                                 !.cod = 0, !.checked = "returned",
                                 !.expires = "second"]
    IN  IF m \in t.endMail THEN [back EXCEPT !.deleted = TRUE] ELSE back

AfterMails(t, rows) ==
    LET all == Over(t.insMail, rows)
    IN  [m \in DOMAIN all |-> AfterRow(t, m, all[m])]

\* The primary key of character_inventory is the item.
Fails(t, rows) == \E i \in DOMAIN t.insInv : rows.inv[i] # Nobody

AfterItems(t, items) ==
    LET kept == {r \in items : /\ r.item \notin t.delItems
                               /\ r.mail \notin t.delItemsOf}
    IN  {IF r.item \in DOMAIN t.backItems
           THEN [r EXCEPT !.to = t.backItems[r.item]] ELSE r : r \in kept}
        \cup t.insItems

AfterTransaction(t, rows) ==
    IF Fails(t, rows) THEN rows
    ELSE [gold |-> Over(t.gold, rows.gold),
          inv |-> Over(t.insInv, Over([i \in t.delInv |-> Nobody], rows.inv)),
          inst |-> (rows.inst \ t.delInst) \cup DOMAIN t.insInv,
          mail |-> AfterMails(t, rows.mail),
          mitems |-> AfterItems(t, rows.mitems)]

\* Unkeyed work belongs to worker 0, keyed work to the worker of its key.
Route(t) == t.key % NumWorkers

\* CommitTransaction of every transaction of the sequence ts, in this order.
Commit(ts) == queue' = queue \o ts /\ Len(queue') <= MaxQueued

\* A worker applies the first transaction of its own; SqlTransaction rolls back
\* a failed one.
Execute(w) ==
    /\ \E n \in DOMAIN queue :
         /\ Route(queue[n]) = w
         /\ \A k \in 1 .. n - 1 : Route(queue[k]) # w
         /\ db' = AfterTransaction(queue[n], db)
         /\ queue' = RemoveAt(queue, n)
    /\ UNCHANGED <<session, loaded, memory, mails, request, returner, delivered,
                   logins, exposed>>

-----------------------------------------------------------------------------
(* Mailboxes                                                                *)

IsOnline(p) == session[p] = "online"

NewMail(from, money, cod, item, checked) ==
    [from |-> from, money |-> money, cod |-> cod, item |-> item,
     has |-> item # Nobody, checked |-> checked, expires |-> "first",
     state |-> "unchanged"]

\* What the mail table keeps of a mail.
MailRow(m, to) ==
    [from |-> m.from, to |-> to, money |-> m.money, cod |-> m.cod,
     has |-> m.has, checked |-> m.checked, expires |-> m.expires,
     deleted |-> FALSE]

\* SendMailTo: the transaction it commits without a key, and the mailboxes.
SendMailTo(id, m, to) ==
    [Nothing EXCEPT !.insMail = Only(id, MailRow(m, to)),
                    !.insItems = IF m.item = Nobody THEN {}
                                 ELSE {[mail |-> id, item |-> m.item, to |-> to]}]

WithMail(boxes, id, m, to) ==
    IF IsOnline(to) THEN [boxes EXCEPT ![to] = Over(Only(id, m), @)] ELSE boxes

\* The mails of a box SaveMails writes, and what it writes.
Marked(b, state) == {m \in DOMAIN b : b[m].state = state}

SaveMails(b) ==
    [Nothing EXCEPT
       !.setMail = [m \in Marked(b, "changed") |->
                      [money |-> b[m].money, cod |-> b[m].cod, has |-> b[m].has,
                       checked |-> b[m].checked, expires |-> b[m].expires]],
       !.delInst = {b[m].item : m \in Marked(b, "deleted")} \ {Nobody},
       !.endMail = Marked(b, "deleted"),
       !.delItemsOf = Marked(b, "deleted")]

Saved(b) ==
    [m \in DOMAIN b \ Marked(b, "deleted") |-> [b[m] EXCEPT !.state = "unchanged"]]

\* Mail m is in p's box and may be opened.
CanOpen(p, m) ==
    /\ IsOnline(p)
    /\ m \in DOMAIN box[p] /\ box[p][m].state # "deleted"
    /\ m \in delivered

-----------------------------------------------------------------------------
(* Sending                                                                  *)

\* The transaction that takes item i out of p's inventory rows.
ItemLeaves(p, i) == [Nothing EXCEPT !.key = p, !.delInv = {i}]

GoldSaved(p, amount) == [Nothing EXCEPT !.key = p, !.gold = Only(p, amount)]

\* Fault: the mail is stored before the item is taken out of the inventory.
MailBeforeItem(p, r, id, m) ==
    <<SendMailTo(id, m, r.to), ItemLeaves(p, r.item),
      GoldSaved(p, gold[p] - (r.money + Postage))>>

\* The transactions of one sent mail, in the order in which they are committed.
SendTransactions(p, r, id, m) ==
    (IF r.item = Nobody THEN <<>> ELSE <<ItemLeaves(p, r.item)>>)
    \o <<SendMailTo(id, m, r.to), GoldSaved(p, gold[p] - (r.money + Postage))>>

\* The checks of HandleSendMailCallback; the others may refuse any request.
MaySend(p, r) ==
    /\ gold[p] >= r.money + Postage
    /\ r.item # Nobody => r.item \in bag[p]

\* HandleSendMailCallback for the request r of p.
HandleSendMailCallback(p, r) ==
    LET id == mails + 1
        cod == IF r.item = Nobody THEN 0 ELSE r.cod
        m == NewMail(p, r.money, cod, r.item, "sent")
    IN  /\ MaySend(p, r)
        /\ id \in MailIds
        /\ mails' = id
        /\ gold' = [gold EXCEPT ![p] = @ - (r.money + Postage)]
        /\ bag' = [bag EXCEPT ![p] = @ \ {r.item}]
        /\ box' = WithMail(box, id, m, r.to)
        /\ delivered' = IF r.item = Nobody THEN delivered \cup {id} ELSE delivered
        /\ Commit(SendTransactions(p, r, id, m))
        /\ UNCHANGED updated

Requests(p) ==
    {[item |-> i, money |-> o.money, cod |-> o.cod, to |-> q] :
       i \in bag[p] \cup {Nobody}, o \in Offers, q \in Players \ {p}}

\* HandleSendMail to an online receiver answers at once.
SendToOnline(p) ==
    /\ IsOnline(p)
    /\ \E r \in Requests(p) : IsOnline(r.to) /\ HandleSendMailCallback(p, r)
    /\ UNCHANGED <<session, loaded, request, returner, db, logins, exposed>>

\* HandleSendMail to anybody else counts the receiver's mails in the database.
AskToSend(p) ==
    /\ IsOnline(p) /\ \A q \in Players : request[q] = NoRequest
    /\ mails < MaxMails
    /\ \E r \in Requests(p) :
         ~IsOnline(r.to) /\ request' = [request EXCEPT ![p] = r]
    /\ UNCHANGED <<session, loaded, memory, mails, returner, delivered, db, queue,
                   logins, exposed>>

\* Its answer comes back: p may have logged out, spent the money or lost the
\* item since, and the request may be refused for other reasons.
SendCallback(p) ==
    /\ request[p] # NoRequest
    /\ request' = [request EXCEPT ![p] = NoRequest]
    /\ \/ IsOnline(p) /\ HandleSendMailCallback(p, request[p])
       \/ UNCHANGED <<memory, mails, delivered, queue>>
    /\ UNCHANGED <<session, loaded, returner, db, logins, exposed>>

-----------------------------------------------------------------------------
(* The receiver's handlers                                                  *)

ReadMail(p, m) ==
    /\ IsOnline(p) /\ m \in DOMAIN box[p] /\ box[p][m].state # "deleted"
    /\ box' = [box EXCEPT ![p][m].state = "changed"]
    /\ updated' = [updated EXCEPT ![p] = TRUE]
    /\ UNCHANGED <<session, loaded, gold, bag, mails, request, returner, delivered,
                   db, queue, logins, exposed>>

DeleteMail(p, m) ==
    /\ IsOnline(p) /\ m \in DOMAIN box[p]
    /\ updated' = [updated EXCEPT ![p] = TRUE]
    /\ box' = IF box[p][m].cod > 0 THEN box
              ELSE [box EXCEPT ![p][m].state = "deleted"]
    /\ UNCHANGED <<session, loaded, gold, bag, mails, request, returner, delivered,
                   db, queue, logins, exposed>>

\* Fault: the mail is returned and stays in the box.
ReturnedStays(b, m) == b

WithoutMail(b, m) == [n \in DOMAIN b \ {m} |-> b[n]]

\* SendReturnToSender stores the new mail without a key; it asks for nothing.  The
\* transaction before it, which saves the item for its new owner, touches no row of
\* the model.
SendBack(p, m) ==
    LET old == box[p][m]
        id == mails + 1
        new == NewMail(p, old.money, 0, old.item, "returned")
    IN  /\ old.from \notin Hardcore
        /\ id \in MailIds
        /\ mails' = id
        /\ box' = WithMail([box EXCEPT ![p] = WithoutMail(@, m)],
                           id, new, old.from)
        /\ delivered' = delivered \cup {id}
        /\ Commit(
             <<[Nothing EXCEPT !.key = p, !.endMail = {m}, !.delItemsOf = {m}],
               SendMailTo(id, new, old.from)>>)

\* The mail of a hardcore character is not sent back: it is gone, and what is in it.
\* (He attaches nothing; who sent something before he became one may lose it.)
Drop(p, m) ==
    /\ box[p][m].from \in Hardcore
    /\ box' = [box EXCEPT ![p] = WithoutMail(@, m)]
    /\ Commit(<<[Nothing EXCEPT !.key = p, !.endMail = {m}, !.delItemsOf = {m}]>>)
    /\ UNCHANGED <<mails, delivered>>

\* HandleMailReturnToSender: the old row ends under the receiver's key.
ReturnMail(p, m) ==
    /\ CanOpen(p, m)
    /\ SendBack(p, m) \/ Drop(p, m)
    /\ UNCHANGED <<session, loaded, gold, bag, updated, request, returner, db,
                   logins, exposed>>

\* Money above MAX_MONEY_AMOUNT is lost.
ModifyMoney(amount, d) == Min({amount + d, MaxMoney})

\* Fault: the mail keeps its money.
MoneyStays(m) == [m EXCEPT !.state = "changed"]

MoneyTaken(m) == [m EXCEPT !.money = 0, !.state = "changed"]

SaveGoldAndMails(p, b, g) == [SaveMails(b) EXCEPT !.key = p, !.gold = Only(p, g)]

HandleMailTakeMoney(p, m) ==
    LET b == [box[p] EXCEPT ![m] = MoneyTaken(@)]
        g == ModifyMoney(gold[p], box[p][m].money)
    IN  /\ CanOpen(p, m)
        /\ gold' = [gold EXCEPT ![p] = g]
        /\ box' = [box EXCEPT ![p] = Saved(b)]
        /\ updated' = [updated EXCEPT ![p] = FALSE]
        /\ Commit(<<SaveGoldAndMails(p, b, g)>>)
        /\ UNCHANGED <<session, loaded, bag, mails, request, returner, delivered, db,
                       logins, exposed>>

\* The item of mail m enters the inventory of p, who has paid what was asked.
ItemTaken(m) == [m EXCEPT !.item = Nobody, !.cod = 0, !.state = "changed"]

\* Inventory, gold and mails of p in one transaction.
SaveAll(p, b, g, i) ==
    [SaveGoldAndMails(p, b, g) EXCEPT !.insInv = Only(i, p), !.delItems = {i}]

HandleMailTakeItem(p, m) ==
    LET old == box[p][m]
        i == old.item
        b == [box[p] EXCEPT ![m] = ItemTaken(@)]
        g == gold[p] - old.cod
        id == mails + 1
        payment == NewMail(p, old.cod, 0, Nobody, "payment")
        pays == old.cod > 0
    IN  /\ CanOpen(p, m)
        /\ old.has /\ i # Nobody /\ gold[p] >= old.cod
        /\ pays => id \in MailIds
        /\ mails' = IF pays THEN id ELSE mails
        /\ gold' = [gold EXCEPT ![p] = g]
        /\ bag' = [bag EXCEPT ![p] = @ \cup {i}]
        /\ box' = [(IF pays THEN WithMail(box, id, payment, old.from) ELSE box)
                     EXCEPT ![p] = Saved(b)]
        /\ updated' = [updated EXCEPT ![p] = FALSE]
        /\ delivered' = IF pays THEN delivered \cup {id} ELSE delivered
        /\ Commit(
             (IF pays THEN <<SendMailTo(id, payment, old.from)>> ELSE <<>>)
             \o <<SaveAll(p, b, g, i)>>)
        /\ UNCHANGED <<session, loaded, request, returner, db, logins,
                       exposed>>

-----------------------------------------------------------------------------
(* Sessions                                                                 *)

\* Player::SaveToDB, then MasterPlayer::SaveToDB, which writes the mails only
\* when a handler has marked them.
SaveToDB(p) ==
    <<GoldSaved(p, gold[p])>>
    \o (IF updated[p] THEN <<[SaveMails(box[p]) EXCEPT !.key = p]>> ELSE <<>>)

\* Logout: everything of the player is saved and leaves the memory.
Logout(p) ==
    /\ IsOnline(p)
    /\ session' = [session EXCEPT ![p] = "offline"]
    /\ Commit(SaveToDB(p))
    /\ gold' = [gold EXCEPT ![p] = 0]
    /\ bag' = [bag EXCEPT ![p] = {}]
    /\ box' = [box EXCEPT ![p] = NoMails]
    /\ updated' = [updated EXCEPT ![p] = FALSE]
    /\ UNCHANGED <<loaded, mails, request, returner, delivered, db, logins, exposed>>

\* The mail m as LoadMails and LoadMailedItems build it from the rows.
LoadedMail(p, m) ==
    LET row == db.mail[m]
        here == {i \in db.inst : [mail |-> m, item |-> i, to |-> p] \in db.mitems}
        item == IF here = {} THEN Nobody ELSE CHOOSE i \in here : TRUE
    IN  [from |-> row.from, money |-> row.money, cod |-> row.cod, item |-> item,
         has |-> row.has \/ item # Nobody, checked |-> row.checked,
         expires |-> row.expires, state |-> "unchanged"]

LoadRows(p) ==
    [gold |-> db.gold[p],
     bag |-> {i \in db.inst : db.inv[i] = p},
     box |-> [m \in {n \in DOMAIN db.mail : db.mail[n].to = p /\ ~db.mail[n].deleted}
                |-> LoadedMail(p, m)]]

Queued == ToSet(queue)

\* The transaction t writes the row of mail m, which is in the table already.
Touches(t, m) == m \in DOMAIN t.setMail \cup DOMAIN t.backMail \cup t.endMail

\* The returner's statements on a mail that is still p's are queued.
ReturnsQueued(p) ==
    \E t \in Queued, m \in DOMAIN db.mail :
      t.key = 0 /\ db.mail[m].to = p /\ Touches(t, m)

\* The login holder is a query of priority: it does not wait for queued writes.
LoginRead(p) ==
    /\ session[p] = "offline" /\ logins < MaxLogins
    /\ logins' = logins + 1
    /\ session' = [session EXCEPT ![p] = "loading"]
    /\ loaded' = [loaded EXCEPT ![p] = LoadRows(p)]
    /\ exposed' = exposed
         \cup (IF \E t \in Queued : t.key = p THEN {"stale"} ELSE {})
         \cup (IF ReturnsQueued(p) THEN {"crossed"} ELSE {})
    /\ returner' = IF returner.stage # "idle" /\ returner.row.to = p
                     THEN [returner EXCEPT !.met = TRUE] ELSE returner
    /\ UNCHANGED <<memory, mails, request, delivered, db, queue>>

LoginFinish(p) ==
    /\ session[p] = "loading"
    /\ session' = [session EXCEPT ![p] = "online"]
    /\ gold' = [gold EXCEPT ![p] = loaded[p].gold]
    /\ bag' = [bag EXCEPT ![p] = loaded[p].bag]
    /\ box' = [box EXCEPT ![p] = loaded[p].box]
    /\ loaded' = [loaded EXCEPT ![p] = EmptyRows(p)]
    /\ UNCHANGED <<updated, mails, request, returner, delivered, db, queue, logins,
                   exposed>>

\* The server stops without saving: memory and queues are gone.
Crash ==
    /\ Crashes /\ "crash" \notin exposed
    /\ exposed' = exposed \cup {"crash"}
    /\ session' = [p \in Players |-> "offline"]
    /\ loaded' = [p \in Players |-> EmptyRows(p)]
    /\ gold' = [p \in Players |-> 0] /\ bag' = [p \in Players |-> {}]
    /\ box' = [p \in Players |-> NoMails]
    /\ updated' = [p \in Players |-> FALSE]
    /\ request' = [p \in Players |-> NoRequest] /\ returner' = Idle
    /\ queue' = <<>>
    /\ UNCHANGED <<mails, delivered, db, logins>>

-----------------------------------------------------------------------------
(* Time, and the return of expired mail                                     *)

Deliver(m) ==
    /\ m \in (1 .. mails) \ delivered
    /\ delivered' = delivered \cup {m}
    /\ UNCHANGED <<session, loaded, memory, mails, request, returner, db,
                   queue, logins, exposed>>

\* ReturnOrDeleteOldMails: its query finds an expired mail.  A mail expires at
\* any time after its delivery; the second term of a returned one is not modelled.
\* The field met is history: the receiver was not away for good when the row was
\* read, or has logged in since, so the answers may be older than what he did.
ReturnOrDeleteOldMails ==
    /\ returner.stage = "idle"
    /\ \E m \in delivered \cap DOMAIN db.mail :
         /\ ~db.mail[m].deleted /\ db.mail[m].expires = "first"
         /\ returner' = [stage |-> "listed", mail |-> m, row |-> db.mail[m],
                          item |-> Nobody,
                          met |-> \/ session[db.mail[m].to] # "offline"
                                  \/ \E t \in Queued : Touches(t, m)]
    /\ UNCHANGED <<session, loaded, memory, mails, request, delivered, db, queue,
                   logins, exposed>>

\* Fault: the callback does not look for the receiver.
AssumedAway(p) == TRUE

\* "Do not process online players!"
NotOnline(p) == ~IsOnline(p)

\* The receiver was there and is not in the world (again): the statements are
\* based on what he may have changed, and no guard of the code sees it.
Crossing == IF returner.met /\ ~IsOnline(returner.row.to) THEN {"crossed"} ELSE {}

\* OldMailsReturner::Callback: a mail without items ends, the others are asked
\* for their item.
OldMailsReturner ==
    LET row == returner.row
        m == returner.mail
    IN  /\ returner.stage = "listed"
        /\ \/ /\ ~NotOnline(row.to)
              /\ returner' = Idle /\ UNCHANGED <<queue, exposed>>
           \/ /\ NotOnline(row.to) /\ row.has
              /\ returner' = [returner EXCEPT !.stage = "asked"]
              /\ UNCHANGED <<queue, exposed>>
           \/ /\ NotOnline(row.to) /\ ~row.has
              /\ returner' = Idle
              /\ Commit(<<[Nothing EXCEPT !.endMail = {m}]>>)
              /\ exposed' = exposed \cup Crossing
        /\ UNCHANGED <<session, loaded, memory, mails, request, delivered, db, logins>>

\* SELECT item_guid FROM mail_items WHERE mail_id
FindMailItem ==
    LET items == {r.item : r \in {x \in db.mitems : x.mail = returner.mail}}
    IN  /\ returner.stage = "asked"
        /\ \E i \in IF items = {} THEN {Nobody} ELSE items :
             returner' = [returner EXCEPT !.stage = "found", !.item = i]
        /\ UNCHANGED <<session, loaded, memory, mails, request, delivered, db, queue,
                       logins, exposed>>

\* A mail that was returned before, or is a payment, ends with its item; any
\* other goes back.  Every statement is a transaction of its own.
ReturnerStatements(m, row, item) ==
    IF row.checked \in {"payment", "returned"}
    THEN (IF item = Nobody THEN <<>>
          ELSE <<[Nothing EXCEPT !.delInst = {item}],
                 [Nothing EXCEPT !.delItemsOf = {m}]>>)
         \o <<[Nothing EXCEPT !.endMail = {m}]>>
    ELSE <<[Nothing EXCEPT !.backMail =
              Only(m, [from |-> row.to, to |-> row.from])]>>
         \o (IF item = Nobody THEN <<>>
             ELSE <<[Nothing EXCEPT !.backItems = Only(item, row.from)]>>)

\* SingleMailReturner::Callback
SingleMailReturner ==
    LET row == returner.row
    IN  /\ returner.stage = "found"
        /\ returner' = Idle
        /\ \/ ~NotOnline(row.to) /\ UNCHANGED <<queue, exposed>>
           \/ /\ NotOnline(row.to)
              /\ Commit(
                   ReturnerStatements(returner.mail, row, returner.item))
              /\ exposed' = exposed \cup Crossing
        /\ UNCHANGED <<session, loaded, memory, mails, request, delivered, db, logins>>

-----------------------------------------------------------------------------
Next ==
    \/ \E p \in Players :
         \/ SendToOnline(p) \/ AskToSend(p) \/ SendCallback(p)
         \/ Logout(p) \/ LoginRead(p) \/ LoginFinish(p)
         \/ \E m \in MailIds :
              \/ ReadMail(p, m) \/ DeleteMail(p, m) \/ ReturnMail(p, m)
              \/ HandleMailTakeMoney(p, m) \/ HandleMailTakeItem(p, m)
    \/ \E m \in MailIds : Deliver(m)
    \/ ReturnOrDeleteOldMails \/ OldMailsReturner \/ FindMailItem
    \/ SingleMailReturner
    \/ \E w \in Workers : Execute(w)
    \/ Crash

Spec == Init /\ [][Next]_vars

-----------------------------------------------------------------------------
(* Properties                                                               *)

Quiet == Queued = {}
LoginsInOrder == exposed \cap {"stale", "crossed"} = {}

MailAgrees(p, m) ==
    LET b == box[p][m]
    IN  /\ m \in DOMAIN db.mail
        /\ ~db.mail[m].deleted /\ db.mail[m].to = p
        /\ db.mail[m].money = b.money /\ db.mail[m].cod = b.cod
        /\ b.item # Nobody =>
             /\ [mail |-> m, item |-> b.item, to |-> p] \in db.mitems
             /\ b.item \in db.inst

\* Once the queued writes are applied, the rows say what the memory says: the
\* gold, the inventory and every mail of an online player that he has not
\* deleted are what his next login will load.  (The handlers save what they
\* change at once; unless a login overtook a save or the returner.)
RowsAgree ==
    Quiet /\ LoginsInOrder =>
      \A p \in Players : IsOnline(p) =>
        /\ db.gold[p] = gold[p]
        /\ \A i \in Items : i \in bag[p] => db.inv[i] = p /\ i \in db.inst
        /\ \A i \in Items : db.inv[i] = p /\ i \in db.inst => i \in bag[p]
        /\ \A m \in DOMAIN box[p] : box[p][m].state # "deleted" => MailAgrees(p, m)

\* The places of the memory that hold item i.
Holders(i) ==
    {<<p, 0>> : p \in {q \in Players : i \in bag[q]}}
    \cup {h \in Players \X MailIds :
            h[2] \in DOMAIN box[h[1]] /\ box[h[1]][h[2]].item = i}

\* The world never holds one item twice, in two inventories, two mailboxes or
\* one of each, whatever is mailed, returned, expires or logs in and out;
\* unless a login overtook a save or the returner.
ItemOnce == LoginsInOrder => \A i \in Items : Cardinality(Holders(i)) <= 1

\* The live places of the rows that hold item i.
RowHolders(i) ==
    (IF db.inv[i] # Nobody THEN {<<"inventory", db.inv[i]>>} ELSE {})
    \cup {<<"mail", r.mail>> : r \in {x \in db.mitems :
            x.item = i /\ x.mail \in DOMAIN db.mail /\ ~db.mail[x.mail].deleted}}

\* At no moment, and so after no crash, do the rows hold an item in an
\* inventory and in a live mail, or in two live mails: the transactions of one
\* handler take it away before they give it.
NoRowTwice == LoginsInOrder => \A i \in Items : Cardinality(RowHolders(i)) <= 1

RowMoney ==
    SumFunction(db.gold)
    + SumFunction([m \in {n \in DOMAIN db.mail : ~db.mail[n].deleted}
                     |-> db.mail[m].money])

\* Postage, the cap on a purse and expired mail destroy money; nothing creates
\* any: once the queued writes are applied, the purses and the live mails hold
\* no more than the players had at first.  (Unless a login overtook a save or
\* the returner, or a crash separated the transactions of one handler.)
MoneyNotCreated ==
    Quiet /\ exposed = {} => RowMoney <= InitialGold * Cardinality(Players)

=============================================================================
