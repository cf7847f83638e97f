----------------------------- MODULE MailProofs -----------------------------
(***************************************************************************)
(* For any number of players, items and mails, when the character database    *)
(* has one worker (the default of WorkerThreads in Master.cpp): the rows the   *)
(* queued writes lead to are what the memory of every online player says, an   *)
(* item is never held twice in memory, and never twice in the rows.            *)
(*                                                                         *)
(* The rows lag behind the memory, so the invariant looks ahead: f[n] are the  *)
(* rows after the first n transactions of the queue, each of which does what   *)
(* its handler believed it would (Fits), and the last of them, v, agree with   *)
(* the memory.  A login reads f[0]; it gets what it would get from v unless    *)
(* something in the queue is about its player, which is what exposed records.  *)
(* The returner is the other one that acts on old rows: as long as it has not  *)
(* met the receiver (returner.met), nothing in the queue writes its mail.      *)
(***************************************************************************)
EXTENDS Mail, FiniteSetTheorems, SequenceTheorems, WellFoundedInduction, TLAPS

Checks == {"sent", "returned", "payment"}
Terms == {"first", "second"}

MailRows ==
    [from : Players, to : Players, money : Nat, cod : Nat, has : BOOLEAN,
     checked : Checks, expires : Terms, deleted : BOOLEAN]

BoxMails ==
    [from : Players, money : Nat, cod : Nat, item : Items \cup {Nobody},
     has : BOOLEAN, checked : Checks, expires : Terms,
     state : {"unchanged", "changed", "deleted"}]

ItemRows == [mail : Nat, item : Items, to : Players]

\* The rows are well formed, and hold no item twice: a row of mail_items is the
\* only one of its item, which is in no inventory.
GoodRows(d, n) ==
    /\ DOMAIN d.gold = Players
    /\ d.inv \in [Items -> Players \cup {Nobody}]
    /\ d.inst \subseteq Items
    /\ DOMAIN d.mail \subseteq 1 .. n
    /\ \A m \in DOMAIN d.mail : d.mail[m] \in MailRows
    /\ d.mitems \subseteq ItemRows
    /\ \A r \in d.mitems : d.inv[r.item] = Nobody
    /\ \A r, s \in d.mitems : r.item = s.item => r = s

\* The transaction t neither writes mail m nor takes anything out of it.
Leaves(t, d, m) ==
    /\ ~Touches(t, m)
    /\ m \notin t.delItemsOf
    /\ \A r \in d.mitems : r.mail = m => r.item \notin t.delItems \cup t.delInst

FitsInventory(t, d) ==
    /\ t.key \in Players \cup {0}
    /\ DOMAIN t.gold \subseteq Players \cap {t.key}
    /\ \A i \in t.delInv : i \in Items /\ t.key \in Players /\ d.inv[i] = t.key
    /\ \A i \in DOMAIN t.insInv : /\ i \in Items /\ t.key \in Players
                                  /\ t.insInv[i] = t.key /\ d.inv[i] = Nobody
                                  /\ i \in t.delItems
    /\ \A i \in t.delInst : i \in Items /\ d.inv[i] = Nobody

FitsMails(t, d) ==
    /\ \A m \in DOMAIN t.insMail : m \notin DOMAIN d.mail /\ t.insMail[m] \in MailRows
    /\ \A m \in DOMAIN t.setMail :
         /\ t.setMail[m].money \in Nat /\ t.setMail[m].cod \in Nat
         /\ t.setMail[m].has \in BOOLEAN /\ t.setMail[m].checked \in Checks
         /\ t.setMail[m].expires \in Terms
    /\ \A m \in DOMAIN t.backMail :
         t.backMail[m].from \in Players /\ t.backMail[m].to \in Players

FitsItems(t, d) ==
    /\ t.insItems \subseteq ItemRows
    /\ \A r \in t.insItems : /\ d.inv[r.item] = Nobody /\ r.item \notin DOMAIN t.insInv
                             /\ \A s \in d.mitems : s.item # r.item
                             /\ \A s \in t.insItems : s.item = r.item => s = r
    /\ \A r \in d.mitems : r.item \in DOMAIN t.backItems =>
         r.mail \in DOMAIN d.mail /\ t.backItems[r.item] = d.mail[r.mail].to

\* A keyed transaction writes only the mails of its player.
FitsOwner(t, d) ==
    t.key # 0 => \A m \in DOMAIN d.mail :
      /\ Touches(t, m) => d.mail[m].to = t.key
      /\ ~Touches(t, m) => Leaves(t, d, m)

Fits(t, d) ==
    FitsInventory(t, d) /\ FitsMails(t, d) /\ FitsItems(t, d) /\ FitsOwner(t, d)

\* What the returner takes out of a mail, it also ends.
Dooms(q, f, pending) ==
    \A n \in 1 .. Len(q) : \A m \in DOMAIN f[n - 1].mail :
      q[n].key = 0 /\ ~Leaves(q[n], f[n - 1], m) =>
        \/ m \in pending
        \/ \E k \in n .. Len(q) : q[k].key = 0 /\ Touches(q[k], m)

IsQueue(q) == \E S : q \in Seq(S)

\* f[n] are the rows after the first n transactions of the queue q.
History(f, q, d, n) ==
    /\ IsQueue(q)
    /\ DOMAIN f = 0 .. Len(q)
    /\ f[0] = d
    /\ \A k \in 0 .. Len(q) : GoodRows(f[k], n)
    /\ \A k \in 1 .. Len(q) : /\ f[k] = AfterTransaction(q[k], f[k - 1])
                              /\ Fits(q[k], f[k - 1])

AgreeMail(v, p, m, b) ==
    /\ b \in BoxMails
    /\ m \in DOMAIN v.mail
    /\ ~v.mail[m].deleted /\ v.mail[m].to = p
    /\ v.mail[m].money = b.money /\ v.mail[m].cod = b.cod
    /\ b.item # Nobody => /\ [mail |-> m, item |-> b.item, to |-> p] \in v.mitems
                          /\ b.item \in v.inst

AgreePurse(v, p, g, bg) ==
    /\ v.gold[p] = g
    /\ bg \subseteq Items
    /\ \A i \in Items : i \in bg <=> v.inv[i] = p /\ i \in v.inst

AgreeBox(v, p, bx) == \A m \in DOMAIN bx : AgreeMail(v, p, m, bx[m])

Agree(v, p, g, bg, bx) == AgreePurse(v, p, g, bg) /\ AgreeBox(v, p, bx)

\* Mail m is the row in all of f, and nothing in the queue writes it.
Untouched(f, q, m, row) ==
    /\ \A n \in 0 .. Len(q) : m \in DOMAIN f[n].mail /\ f[n].mail[m] = row
    /\ \A n \in 1 .. Len(q) : Leaves(q[n], f[n - 1], m)

ReturnerOK(f, q, v) ==
    returner.stage # "idle" /\ ~returner.met =>
      /\ returner.row \in MailRows
      /\ session[returner.row.to] = "offline"
      /\ Untouched(f, q, returner.mail, returner.row)
      /\ returner.stage = "found" /\ returner.item # Nobody =>
           \E r \in v.mitems : r.mail = returner.mail /\ r.item = returner.item

Shapes ==
    /\ mails \in Nat
    /\ session \in [Players -> {"offline", "loading", "online"}]
    /\ DOMAIN gold = Players /\ DOMAIN bag = Players /\ DOMAIN box = Players
    /\ DOMAIN loaded = Players
    /\ returner.stage \in {"idle", "listed", "asked", "found"}
    /\ returner \in [stage : {"idle", "listed", "asked", "found"}, mail : Nat,
                     row : MailRows \cup {Nobody}, item : Items \cup {Nobody},
                     met : BOOLEAN]

Wishes == [item : Items \cup {Nobody}, money : Nat, cod : Nat, to : Players]

RequestsOK ==
    /\ DOMAIN request = Players
    /\ \A p \in Players : request[p] # NoRequest => request[p] \in Wishes

\* The rows v are those of p's memory or, while he logs in, of what he has read.
AgreeNow(v, p) ==
    IF session[p] = "online" THEN Agree(v, p, gold[p], bag[p], box[p])
    ELSE Agree(v, p, loaded[p].gold, loaded[p].bag, loaded[p].box)

MemoryOK(v) ==
    \A p \in Players :
      /\ session[p] # "offline" => AgreeNow(v, p)
      /\ session[p] # "online" => bag[p] = {} /\ DOMAIN box[p] = {}

Good(f, v) ==
    /\ Shapes /\ RequestsOK
    /\ History(f, queue, db, mails)
    /\ Dooms(queue, f, {})
    /\ v = f[Len(queue)]
    /\ MemoryOK(v)
    /\ ReturnerOK(f, queue, v)

IInv == LoginsInOrder => \E f, v : Good(f, v)

-----------------------------------------------------------------------------
(* What a transaction that fits does to the rows                            *)

\* A transaction that fits does not fail: every table has its new rows.
LEMMA AfterFields ==
    ASSUME NEW t, NEW d, NEW n, GoodRows(d, n), Fits(t, d)
    PROVE  LET e == AfterTransaction(t, d)
           IN  /\ e.gold = Over(t.gold, d.gold)
               /\ e.inv = Over(t.insInv, Over([i \in t.delInv |-> Nobody], d.inv))
               /\ e.inst = (d.inst \ t.delInst) \cup DOMAIN t.insInv
               /\ e.mail = AfterMails(t, d.mail)
               /\ e.mitems = AfterItems(t, d.mitems)
<1>1. ~Fails(t, d)
  BY DEF Fails, Fits, FitsInventory
<1> QED
  BY <1>1 DEF AfterTransaction

\* The inventory row of an item after t.
LEMMA AfterInv ==
    ASSUME NEW t, NEW d, NEW n, GoodRows(d, n), Fits(t, d), NEW i \in Items
    PROVE  LET e == AfterTransaction(t, d)
           IN  /\ i \in DOMAIN t.insInv => e.inv[i] = t.key
               /\ i \notin DOMAIN t.insInv /\ i \in t.delInv => e.inv[i] = Nobody
               /\ i \notin DOMAIN t.insInv /\ i \notin t.delInv => e.inv[i] = d.inv[i]
<1> DEFINE g == Over([j \in t.delInv |-> Nobody], d.inv)
<1>1. AfterTransaction(t, d).inv = Over(t.insInv, g)
  BY AfterFields
<1>2. i \in DOMAIN d.inv
  BY DEF GoodRows
<1>3. /\ i \in DOMAIN g
      /\ (i \in t.delInv => g[i] = Nobody)
      /\ (i \notin t.delInv => g[i] = d.inv[i])
  BY <1>2 DEF Over
<1>4. i \in DOMAIN t.insInv => t.insInv[i] = t.key
  BY DEF Fits, FitsInventory
<1> HIDE DEF g
<1>5. /\ (i \in DOMAIN t.insInv => Over(t.insInv, g)[i] = t.insInv[i])
      /\ (i \in DOMAIN g /\ i \notin DOMAIN t.insInv => Over(t.insInv, g)[i] = g[i])
  BY DEF Over
<1> QED
  BY <1>1, <1>3, <1>4, <1>5

\* The inventory rows stay a function of the items.
LEMMA AfterInvType ==
    ASSUME NEW t, NEW d, NEW n, GoodRows(d, n), Fits(t, d)
    PROVE  AfterTransaction(t, d).inv \in [Items -> Players \cup {Nobody}]
<1> DEFINE g == Over([j \in t.delInv |-> Nobody], d.inv)
           e == AfterTransaction(t, d)
<1>1. e.inv = Over(t.insInv, g)
  BY AfterFields
<1>2. DOMAIN g = Items
  BY DEF Over, GoodRows, Fits, FitsInventory
<1>3. DOMAIN t.insInv \subseteq Items
  BY DEF Fits, FitsInventory
<1>4. e.inv = [x \in Items |-> IF x \in DOMAIN t.insInv THEN t.insInv[x] ELSE g[x]]
  <2> HIDE DEF g
  <2>1. DOMAIN t.insInv \cup DOMAIN g = Items
    BY <1>2, <1>3
  <2> QED
    BY <1>1, <2>1 DEF Over
<1>5. ASSUME NEW i \in Items PROVE e.inv[i] \in Players \cup {Nobody}
  <2>1. /\ (i \in DOMAIN t.insInv => e.inv[i] = t.key)
        /\ (i \notin DOMAIN t.insInv /\ i \in t.delInv => e.inv[i] = Nobody)
        /\ (i \notin DOMAIN t.insInv /\ i \notin t.delInv => e.inv[i] = d.inv[i])
    BY AfterInv
  <2>2. (i \in DOMAIN t.insInv => t.key \in Players) /\ d.inv[i] \in Players \cup {Nobody}
    BY DEF Fits, FitsInventory, GoodRows
  <2> HIDE DEF e
  <2> QED
    BY <2>1, <2>2
<1> HIDE DEF e, g
<1>6. e.inv \in [Items -> Players \cup {Nobody}]
  BY <1>4, <1>5
<1> QED
  BY <1>6 DEF e

\* The row of mail m after t.
LEMMA AfterMail ==
    ASSUME NEW t, NEW d, NEW n, GoodRows(d, n), Fits(t, d)
    PROVE  LET e == AfterTransaction(t, d)
           IN  /\ DOMAIN e.mail = DOMAIN t.insMail \cup DOMAIN d.mail
               /\ \A m \in DOMAIN t.insMail : e.mail[m] = AfterRow(t, m, t.insMail[m])
               /\ \A m \in DOMAIN d.mail : e.mail[m] = AfterRow(t, m, d.mail[m])
<1>1. AfterTransaction(t, d).mail = AfterMails(t, d.mail)
  BY AfterFields
<1>2. \A m \in DOMAIN t.insMail : m \notin DOMAIN d.mail
  BY DEF Fits, FitsMails
<1>3. /\ DOMAIN Over(t.insMail, d.mail) = DOMAIN t.insMail \cup DOMAIN d.mail
      /\ (\A m \in DOMAIN t.insMail : Over(t.insMail, d.mail)[m] = t.insMail[m])
      /\ (\A m \in DOMAIN d.mail : Over(t.insMail, d.mail)[m] = d.mail[m])
  BY <1>2 DEF Over
<1>4. AfterMails(t, d.mail) = [m \in DOMAIN t.insMail \cup DOMAIN d.mail |->
                                AfterRow(t, m, Over(t.insMail, d.mail)[m])]
  BY <1>3 DEF AfterMails
<1> QED
  BY <1>1, <1>3, <1>4

\* The UPDATE statements keep a mail's row well formed, and one they do not name.
LEMMA AfterRowType ==
    ASSUME NEW t, NEW d, FitsMails(t, d), NEW m, NEW row \in MailRows
    PROVE  /\ AfterRow(t, m, row) \in MailRows
           /\ ~Touches(t, m) => AfterRow(t, m, row) = row
<1> DEFINE set == IF m \notin DOMAIN t.setMail THEN row
                  ELSE [row EXCEPT !.money = t.setMail[m].money,
                                   !.cod = t.setMail[m].cod,
                                   !.has = t.setMail[m].has,
                                   !.checked = t.setMail[m].checked,
                                   !.expires = t.setMail[m].expires]
           back == IF m \notin DOMAIN t.backMail THEN set
                   ELSE [set EXCEPT !.from = t.backMail[m].from,
                                    !.to = t.backMail[m].to,
                                    !.cod = 0, !.checked = "returned",
                                    !.expires = "second"]
<1>1. set \in MailRows
  BY DEF MailRows, FitsMails
<1>2. back \in MailRows
  <2> HIDE DEF set
  <2> QED
    BY <1>1 DEF MailRows, FitsMails, Checks, Terms
<1>3. AfterRow(t, m, row) = IF m \in t.endMail THEN [back EXCEPT !.deleted = TRUE] ELSE back
  BY DEF AfterRow
<1>4. ~Touches(t, m) => back = row /\ m \notin t.endMail
  BY DEF Touches
<1> HIDE DEF set, back
<1> QED
  BY <1>2, <1>3, <1>4 DEF MailRows

\* Where the rows of mail_items come from, and where they go.
LEMMA AfterItem ==
    ASSUME NEW t, NEW d, NEW n, GoodRows(d, n), Fits(t, d)
    PROVE  LET e == AfterTransaction(t, d)
               kept == {r \in d.mitems : r.item \notin t.delItems /\ r.mail \notin t.delItemsOf}
           IN  /\ t.insItems \subseteq e.mitems
               /\ \A r \in kept : \E s \in e.mitems :
                    /\ s.mail = r.mail /\ s.item = r.item
                    /\ (r.item \notin DOMAIN t.backItems => s = r)
                    /\ (r.item \in DOMAIN t.backItems => s.to = t.backItems[r.item])
               /\ \A s \in e.mitems : s \notin t.insItems =>
                    \E r \in kept :
                      /\ s.mail = r.mail /\ s.item = r.item
                      /\ s \in ItemRows
                      /\ s = IF r.item \in DOMAIN t.backItems
                               THEN [r EXCEPT !.to = t.backItems[r.item]] ELSE r
<1> DEFINE kept == {r \in d.mitems : r.item \notin t.delItems /\ r.mail \notin t.delItemsOf}
           New(r) == IF r.item \in DOMAIN t.backItems
                       THEN [r EXCEPT !.to = t.backItems[r.item]] ELSE r
           e == AfterTransaction(t, d)
<1>1. e.mitems = {New(r) : r \in kept} \cup t.insItems
  <2>1. e.mitems = AfterItems(t, d.mitems)
    BY AfterFields
  <2> QED
    BY <2>1 DEF AfterItems
<1>2. ASSUME NEW r \in kept
      PROVE  /\ New(r).mail = r.mail /\ New(r).item = r.item
             /\ (r.item \in DOMAIN t.backItems => New(r).to = t.backItems[r.item])
             /\ New(r) \in ItemRows
  <2>1. r \in ItemRows
    BY DEF GoodRows
  <2>2. r.item \in DOMAIN t.backItems => t.backItems[r.item] \in Players
    BY DEF Fits, FitsItems, GoodRows, MailRows
  <2> QED
    BY <2>1, <2>2 DEF ItemRows
<1>3. ASSUME NEW r \in kept, r.item \notin DOMAIN t.backItems PROVE New(r) = r
  BY <1>3
<1> HIDE DEF e, kept
<1>4. ASSUME NEW r \in kept
      PROVE  \E s \in e.mitems :
                    /\ s.mail = r.mail /\ s.item = r.item
                    /\ (r.item \notin DOMAIN t.backItems => s = r)
                    /\ (r.item \in DOMAIN t.backItems => s.to = t.backItems[r.item])
  <2>1. New(r) \in e.mitems
    BY <1>1
  <2>2. New(r).mail = r.mail /\ New(r).item = r.item
    BY <1>2
  <2>3. r.item \in DOMAIN t.backItems => New(r).to = t.backItems[r.item]
    BY <1>2
  <2>4. r.item \notin DOMAIN t.backItems => New(r) = r
    BY <1>3
  <2> HIDE DEF New
  <2> QED
    BY <2>1, <2>2, <2>3, <2>4
<1>5. ASSUME NEW s \in e.mitems, s \notin t.insItems
      PROVE  \E r \in kept : /\ s.mail = r.mail /\ s.item = r.item /\ s \in ItemRows
                             /\ s = New(r)
  <2>1. PICK r \in kept : s = New(r)
    BY <1>1, <1>5
  <2> HIDE DEF New
  <2> QED
    BY <1>2, <2>1
<1>6. t.insItems \subseteq e.mitems
  BY <1>1
<1> QED
  BY <1>4, <1>5, <1>6 DEF e, kept

\* The rows stay well formed and hold no item twice.
LEMMA GoodAfter ==
    ASSUME NEW t, NEW d, NEW n, GoodRows(d, n), Fits(t, d), DOMAIN t.insMail \subseteq 1 .. n
    PROVE  GoodRows(AfterTransaction(t, d), n)
<1> DEFINE e == AfterTransaction(t, d)
<1>1. DOMAIN e.gold = Players
  <2>1. e.gold = Over(t.gold, d.gold)
    BY AfterFields
  <2>2. DOMAIN t.gold \subseteq Players /\ DOMAIN d.gold = Players
    BY DEF GoodRows, Fits, FitsInventory
  <2> HIDE DEF e
  <2> QED
    BY <2>1, <2>2 DEF Over
<1>2. e.inv \in [Items -> Players \cup {Nobody}]
  BY AfterInvType
<1>3. e.inst \subseteq Items
  <2>1. e.inst = (d.inst \ t.delInst) \cup DOMAIN t.insInv
    BY AfterFields
  <2>2. d.inst \subseteq Items /\ DOMAIN t.insInv \subseteq Items
    BY DEF GoodRows, Fits, FitsInventory
  <2> HIDE DEF e
  <2> QED
    BY <2>1, <2>2
<1>4. /\ DOMAIN e.mail \subseteq 1 .. n
      /\ (\A m \in DOMAIN e.mail : e.mail[m] \in MailRows)
  <2>1. /\ DOMAIN e.mail = DOMAIN t.insMail \cup DOMAIN d.mail
        /\ (\A m \in DOMAIN t.insMail : e.mail[m] = AfterRow(t, m, t.insMail[m]))
        /\ (\A m \in DOMAIN d.mail : e.mail[m] = AfterRow(t, m, d.mail[m]))
    BY AfterMail
  <2>2. DOMAIN d.mail \subseteq 1 .. n
    BY DEF GoodRows
  <2>3. \A m \in DOMAIN t.insMail : AfterRow(t, m, t.insMail[m]) \in MailRows
    BY AfterRowType DEF Fits, FitsMails
  <2>4. \A m \in DOMAIN d.mail : AfterRow(t, m, d.mail[m]) \in MailRows
    BY AfterRowType DEF Fits, GoodRows
  <2> HIDE DEF e
  <2> QED
    BY <2>1, <2>2, <2>3, <2>4
<1> DEFINE kept == {r \in d.mitems : r.item \notin t.delItems /\ r.mail \notin t.delItemsOf}
<1>5. \A s \in e.mitems : s \notin t.insItems =>
        \E r \in kept :
          /\ s.mail = r.mail /\ s.item = r.item
          /\ s \in ItemRows
          /\ s = IF r.item \in DOMAIN t.backItems
                   THEN [r EXCEPT !.to = t.backItems[r.item]] ELSE r
  BY AfterItem
<1> HIDE DEF e
<1>6. e.mitems \subseteq ItemRows
  BY <1>5 DEF Fits, FitsItems
<1>7. ASSUME NEW s \in e.mitems PROVE e.inv[s.item] = Nobody
  <2>1. s.item \in Items
    BY <1>6 DEF ItemRows
  <2>2. /\ (s.item \in DOMAIN t.insInv => e.inv[s.item] = t.key)
        /\ (s.item \notin DOMAIN t.insInv /\ s.item \in t.delInv => e.inv[s.item] = Nobody)
        /\ (s.item \notin DOMAIN t.insInv /\ s.item \notin t.delInv =>
              e.inv[s.item] = d.inv[s.item])
    BY <2>1, AfterInv DEF e
  <2>3. CASE s \in t.insItems
    BY <2>2, <2>3 DEF Fits, FitsItems
  <2>4. CASE s \notin t.insItems
    <3>1. PICK r \in kept : s.item = r.item
      BY <1>5, <2>4
    <3>2. d.inv[s.item] = Nobody /\ s.item \notin t.delItems
      BY <3>1 DEF GoodRows
    <3>3. s.item \notin DOMAIN t.insInv
      BY <3>2 DEF Fits, FitsInventory
    <3> QED
      BY <2>2, <3>2, <3>3
  <2> QED
    BY <2>3, <2>4
<1>8. ASSUME NEW r \in e.mitems, NEW s \in e.mitems, r.item = s.item PROVE r = s
  <2>1. CASE r \in t.insItems /\ s \in t.insItems
    BY <1>8, <2>1 DEF Fits, FitsItems
  <2>2. CASE r \in t.insItems /\ s \notin t.insItems
    <3>1. PICK x \in kept : s.item = x.item
      BY <1>5, <2>2
    <3> QED
      BY <1>8, <2>2, <3>1 DEF Fits, FitsItems
  <2>3. CASE r \notin t.insItems /\ s \in t.insItems
    <3>1. PICK x \in kept : r.item = x.item
      BY <1>5, <2>3
    <3> QED
      BY <1>8, <2>3, <3>1 DEF Fits, FitsItems
  <2>4. CASE r \notin t.insItems /\ s \notin t.insItems
    <3>1. PICK x \in kept : r.item = x.item /\ r = IF x.item \in DOMAIN t.backItems
                   THEN [x EXCEPT !.to = t.backItems[x.item]] ELSE x
      BY <1>5, <2>4
    <3>2. PICK y \in kept : s.item = y.item /\ s = IF y.item \in DOMAIN t.backItems
                   THEN [y EXCEPT !.to = t.backItems[y.item]] ELSE y
      BY <1>5, <2>4
    <3>3. x = y
      BY <1>8, <3>1, <3>2 DEF GoodRows
    <3> QED
      BY <3>1, <3>2, <3>3
  <2> QED
    BY <2>1, <2>2, <2>3, <2>4
<1>9. GoodRows(e, n)
  BY <1>1, <1>2, <1>3, <1>4, <1>6, <1>7, <1>8 DEF GoodRows
<1> QED
  BY <1>9 DEF e

\* Mail m is in e what it is in d: the row, and what it holds.
KeptMail(m, d, e) ==
    /\ m \in DOMAIN e.mail /\ e.mail[m] = d.mail[m]
    /\ \A r \in d.mitems : r.mail = m =>
         /\ r.item \in d.inst => r.item \in e.inst
         /\ r.to = d.mail[m].to => r \in e.mitems
         /\ \E s \in e.mitems : s.mail = m /\ s.item = r.item

\* A transaction that leaves mail m alone keeps it.
LEMMA KeepsMail ==
    ASSUME NEW t, NEW d, NEW n, GoodRows(d, n), Fits(t, d),
           NEW m \in DOMAIN d.mail, Leaves(t, d, m)
    PROVE  KeptMail(m, d, AfterTransaction(t, d))
<1> DEFINE e == AfterTransaction(t, d)
<1>1. m \in DOMAIN e.mail /\ e.mail[m] = d.mail[m]
  <2>1. m \in DOMAIN e.mail /\ e.mail[m] = AfterRow(t, m, d.mail[m])
    BY AfterMail
  <2>2. AfterRow(t, m, d.mail[m]) = d.mail[m]
    BY AfterRowType DEF Leaves, Fits, GoodRows
  <2> QED
    BY <2>1, <2>2
<1>2. ASSUME NEW r \in d.mitems, r.mail = m
      PROVE  /\ (r.item \in d.inst => r.item \in e.inst)
             /\ (r.to = d.mail[m].to => r \in e.mitems)
             /\ (\E s \in e.mitems : s.mail = m /\ s.item = r.item)
  <2>1. r.item \notin t.delItems /\ r.item \notin t.delInst /\ m \notin t.delItemsOf
    BY <1>2 DEF Leaves
  <2>2. e.inst = (d.inst \ t.delInst) \cup DOMAIN t.insInv
    BY AfterFields
  <2>3. r \in {x \in d.mitems : x.item \notin t.delItems /\ x.mail \notin t.delItemsOf}
    BY <1>2, <2>1
  <2>4. PICK s \in e.mitems :
             /\ s.mail = r.mail /\ s.item = r.item
             /\ (r.item \notin DOMAIN t.backItems => s = r)
             /\ (r.item \in DOMAIN t.backItems => s.to = t.backItems[r.item])
    BY <2>3, AfterItem
  <2>5. r \in ItemRows /\ e.mitems \subseteq ItemRows
    <3>1. ASSUME NEW x \in e.mitems, x \notin t.insItems PROVE x \in ItemRows
      BY <3>1, AfterItem
    <3> QED
      BY <3>1 DEF GoodRows, Fits, FitsItems
  <2>6. ASSUME r.to = d.mail[m].to PROVE r \in e.mitems
    <3>1. CASE r.item \in DOMAIN t.backItems
      <4>1. t.backItems[r.item] = d.mail[m].to
        BY <1>2, <3>1 DEF Fits, FitsItems
      <4>2. s = r
        <5> HIDE DEF e
        <5>1. s.to = r.to /\ s.mail = r.mail /\ s.item = r.item
          BY <2>4, <2>6, <3>1, <4>1
        <5>2. s \in ItemRows /\ r \in ItemRows
          BY <2>5
        <5> QED
          BY <5>1, <5>2 DEF ItemRows
      <4> QED
        BY <4>2
    <3>2. CASE r.item \notin DOMAIN t.backItems
      BY <2>4, <3>2
    <3> QED
      BY <3>1, <3>2
  <2> HIDE DEF e
  <2> QED
    BY <1>2, <2>1, <2>2, <2>4, <2>6
<1> QED
  BY <1>1, <1>2 DEF KeptMail

\* What is kept twice is kept.
LEMMA KeptTwice ==
    ASSUME NEW m, NEW c, NEW d, NEW e, KeptMail(m, c, d), KeptMail(m, d, e)
    PROVE  KeptMail(m, c, e)
<1>1. m \in DOMAIN e.mail /\ e.mail[m] = c.mail[m] /\ d.mail[m] = c.mail[m]
  BY DEF KeptMail
<1>2. ASSUME NEW r \in c.mitems, r.mail = m
      PROVE  /\ (r.item \in c.inst => r.item \in e.inst)
             /\ (r.to = c.mail[m].to => r \in e.mitems)
             /\ (\E s \in e.mitems : s.mail = m /\ s.item = r.item)
  <2>1. /\ (r.item \in c.inst => r.item \in d.inst)
        /\ (r.to = c.mail[m].to => r \in d.mitems)
    BY <1>2 DEF KeptMail
  <2>2. PICK s \in d.mitems : s.mail = m /\ s.item = r.item
    BY <1>2 DEF KeptMail
  <2>3. /\ (s.item \in d.inst => s.item \in e.inst)
        /\ (\E x \in e.mitems : x.mail = m /\ x.item = s.item)
    BY <2>2 DEF KeptMail
  <2>4. r.to = c.mail[m].to => r \in e.mitems
    BY <1>1, <1>2, <2>1 DEF KeptMail
  <2> QED
    BY <2>1, <2>2, <2>3, <2>4
<1> QED
  BY <1>1, <1>2 DEF KeptMail

\* A transaction of somebody else, or of nobody, leaves p's gold and inventory.
LEMMA KeepsPurse ==
    ASSUME NEW t, NEW d, NEW n, GoodRows(d, n), Fits(t, d), NEW p \in Players, p # t.key,
           NEW g, NEW bg, AgreePurse(d, p, g, bg)
    PROVE  AgreePurse(AfterTransaction(t, d), p, g, bg)
<1> DEFINE e == AfterTransaction(t, d)
<1>1. e.gold[p] = d.gold[p]
  <2>1. e.gold = Over(t.gold, d.gold)
    BY AfterFields
  <2>2. p \notin DOMAIN t.gold /\ p \in DOMAIN d.gold
    BY DEF GoodRows, Fits, FitsInventory
  <2> HIDE DEF e
  <2> QED
    BY <2>1, <2>2 DEF Over
<1>2. ASSUME NEW i \in Items
      PROVE  (e.inv[i] = p /\ i \in e.inst) <=> (d.inv[i] = p /\ i \in d.inst)
  <2>1. /\ (i \in DOMAIN t.insInv => e.inv[i] = t.key)
        /\ (i \notin DOMAIN t.insInv /\ i \in t.delInv => e.inv[i] = Nobody)
        /\ (i \notin DOMAIN t.insInv /\ i \notin t.delInv => e.inv[i] = d.inv[i])
    BY AfterInv
  <2>2. e.inst = (d.inst \ t.delInst) \cup DOMAIN t.insInv
    BY AfterFields
  <2>3. /\ (i \in DOMAIN t.insInv => d.inv[i] = Nobody)
        /\ (i \in t.delInv => d.inv[i] = t.key)
        /\ (i \in t.delInst => d.inv[i] = Nobody)
    BY DEF Fits, FitsInventory
  <2>4. p # Nobody
    BY ItemsAssumption
  <2> HIDE DEF e
  <2> QED
    BY <2>1, <2>2, <2>3, <2>4
<1> HIDE DEF e
<1>3. AgreePurse(e, p, g, bg)
  BY <1>1, <1>2 DEF AgreePurse
<1> QED
  BY <1>3 DEF e

\* A mail that is kept agrees with the same mail of the memory.
LEMMA KeptAgrees ==
    ASSUME NEW d, NEW e, NEW p, NEW m, NEW b, AgreeMail(d, p, m, b), KeptMail(m, d, e)
    PROVE  AgreeMail(e, p, m, b)
<1>1. m \in DOMAIN e.mail /\ e.mail[m] = d.mail[m]
  BY DEF KeptMail
<1>2. ASSUME b.item # Nobody
      PROVE  [mail |-> m, item |-> b.item, to |-> p] \in e.mitems /\ b.item \in e.inst
  <2> DEFINE r == [mail |-> m, item |-> b.item, to |-> p]
  <2>1. r \in d.mitems /\ b.item \in d.inst /\ d.mail[m].to = p
    BY <1>2 DEF AgreeMail
  <2>2. r.mail = m /\ r.item = b.item /\ r.to = p
    OBVIOUS
  <2> HIDE DEF r
  <2>3. r \in e.mitems /\ b.item \in e.inst
    BY <2>1, <2>2 DEF KeptMail
  <2> QED
    BY <2>3 DEF r
<1> QED
  BY <1>1, <1>2 DEF AgreeMail

\* A transaction of somebody else, or of nobody, that leaves the mails of p's box.
LEMMA KeepsAgree ==
    ASSUME NEW t, NEW d, NEW n, GoodRows(d, n), Fits(t, d), NEW p \in Players, p # t.key,
           NEW g, NEW bg, NEW bx, Agree(d, p, g, bg, bx),
           \A m \in DOMAIN bx : Leaves(t, d, m)
    PROVE  Agree(AfterTransaction(t, d), p, g, bg, bx)
<1>1. AgreePurse(AfterTransaction(t, d), p, g, bg)
  BY KeepsPurse DEF Agree
<1>2. ASSUME NEW m \in DOMAIN bx PROVE AgreeMail(AfterTransaction(t, d), p, m, bx[m])
  <2>1. AgreeMail(d, p, m, bx[m])
    BY DEF Agree, AgreeBox
  <2>2. m \in DOMAIN d.mail
    BY <2>1 DEF AgreeMail
  <2>3. KeptMail(m, d, AfterTransaction(t, d))
    BY <2>2, KeepsMail
  <2> QED
    BY <2>1, <2>3, KeptAgrees
<1> QED
  BY <1>1, <1>2 DEF Agree, AgreeBox

\* A keyed transaction leaves the mails of everybody else.
LEMMA OwnerLeaves ==
    ASSUME NEW t, NEW d, Fits(t, d), t.key # 0, NEW p, p # t.key, NEW bx, AgreeBox(d, p, bx)
    PROVE  \A m \in DOMAIN bx : Leaves(t, d, m)
<1> TAKE m \in DOMAIN bx
<1>1. AgreeMail(d, p, m, bx[m])
  BY DEF AgreeBox
<1>2. m \in DOMAIN d.mail /\ d.mail[m].to = p
  BY <1>1 DEF AgreeMail
<1> QED
  BY <1>2 DEF Fits, FitsOwner

-----------------------------------------------------------------------------
(* Queues and the rows they lead to                                         *)

\* The queue with one more transaction.
LEMMA QueueAppend ==
    ASSUME NEW q, IsQueue(q), NEW t
    PROVE  /\ IsQueue(Append(q, t))
           /\ Len(q) \in Nat /\ Len(Append(q, t)) = Len(q) + 1
           /\ \A k \in 1 .. Len(q) : Append(q, t)[k] = q[k]
           /\ Append(q, t)[Len(q) + 1] = t
<1>1. PICK S : q \in Seq(S)
  BY DEF IsQueue
<1>2. q \in Seq(S \cup {t})
  BY <1>1
<1>3. Append(q, t) \in Seq(S \cup {t})
  BY <1>2
<1> QED
  BY <1>2, <1>3 DEF IsQueue

\* Commit appends its transactions one by one: two and three of them.
LEMMA QueueConcat ==
    ASSUME NEW q, IsQueue(q), NEW a, NEW b, NEW c
    PROVE  /\ q \o <<a>> = Append(q, a)
           /\ q \o <<a, b>> = Append(Append(q, a), b)
           /\ q \o (<<a>> \o <<b>>) = Append(Append(q, a), b)
           /\ q \o (<<a>> \o <<b, c>>) = Append(Append(Append(q, a), b), c)
<1>1. PICK S : q \in Seq(S)
  BY DEF IsQueue
<1> DEFINE T == S \cup {a, b, c}
<1>2. q \in Seq(T)
  BY <1>1
<1>3. a \in T /\ b \in T /\ c \in T
  OBVIOUS
<1> HIDE DEF T
<1>4. <<a>> \in Seq(T) /\ <<b>> \in Seq(T) /\ <<b, c>> \in Seq(T) /\ Append(q, a) \in Seq(T)
  BY <1>2, <1>3
<1>5. \A s \in Seq(T), x \in T : s \o <<x>> = Append(s, x)
  OBVIOUS
<1>6. \A s \in Seq(T), x \in T, y \in T : s \o <<x, y>> = Append(Append(s, x), y)
  OBVIOUS
<1>7. /\ q \o (<<a>> \o <<b>>) = (q \o <<a>>) \o <<b>>
      /\ q \o (<<a>> \o <<b, c>>) = (q \o <<a>>) \o <<b, c>>
  BY <1>2, <1>4, ConcatAssociative
<1>8. q \o <<a>> = Append(q, a) /\ q \o <<a, b>> = Append(Append(q, a), b)
  BY <1>2, <1>3, <1>5, <1>6
<1>9. /\ Append(q, a) \o <<b>> = Append(Append(q, a), b)
      /\ Append(q, a) \o <<b, c>> = Append(Append(Append(q, a), b), c)
  BY <1>3, <1>4, <1>5, <1>6
<1> QED
  BY <1>7, <1>8, <1>9

\* The queue q without its first transaction.
LEMMA QueueRemove ==
    ASSUME NEW q, IsQueue(q), 1 \in DOMAIN q
    PROVE  LET r == RemoveAt(q, 1)
           IN  /\ IsQueue(r)
               /\ Len(q) \in Nat \ {0} /\ Len(r) = Len(q) - 1
               /\ \A k \in 1 .. Len(q) - 1 : r[k] = q[k + 1]
<1>1. PICK S : q \in Seq(S)
  BY DEF IsQueue
<1> DEFINE a == SubSeq(q, 1, 0)
           b == SubSeq(q, 2, Len(q))
<1>2. RemoveAt(q, 1) = a \o b
  BY DEF RemoveAt
<1>3. a = <<>>
  BY <1>1
<1>4. Len(q) \in Nat \ {0}
  BY <1>1
<1>5. \A k \in 2 .. Len(q) : q[k] \in S
  BY <1>1
<1>6. /\ b \in Seq(S) /\ Len(b) = (IF 2 <= Len(q) THEN Len(q) - 2 + 1 ELSE 0)
      /\ (\A k \in 1 .. Len(q) - 2 + 1 : b[k] = q[2 + k - 1])
  BY <1>4, <1>5, SubSeqProperties
<1> HIDE DEF a, b
<1>7. a \o b = b
  BY <1>3, <1>6, ConcatEmptySeq
<1> QED
  BY <1>2, <1>4, <1>6, <1>7 DEF IsQueue

Ext(f, q, t) ==
    [k \in 0 .. Len(q) + 1 |->
       IF k <= Len(q) THEN f[k] ELSE AfterTransaction(t, f[Len(q)])]

\* The rows after each transaction, with one more transaction.
LEMMA ExtAt ==
    ASSUME NEW f, NEW q, IsQueue(q), NEW t
    PROVE  /\ DOMAIN Ext(f, q, t) = 0 .. Len(Append(q, t))
           /\ \A k \in 0 .. Len(q) : Ext(f, q, t)[k] = f[k]
           /\ Ext(f, q, t)[Len(q) + 1] = AfterTransaction(t, f[Len(q)])
           /\ Ext(f, q, t)[Len(Append(q, t))] = AfterTransaction(t, f[Len(q)])
<1>1. Len(q) \in Nat /\ Len(Append(q, t)) = Len(q) + 1
  BY QueueAppend
<1> QED
  BY <1>1 DEF Ext

\* A transaction that fits is committed.
LEMMA Extend ==
    ASSUME NEW f, NEW q, NEW d, NEW n, History(f, q, d, n), NEW t,
           Fits(t, f[Len(q)]), DOMAIN t.insMail \subseteq 1 .. n
    PROVE  /\ History(Ext(f, q, t), Append(q, t), d, n)
           /\ Ext(f, q, t)[Len(Append(q, t))] = AfterTransaction(t, f[Len(q)])
<1> DEFINE g == Ext(f, q, t)
           r == Append(q, t)
<1>1. /\ IsQueue(r) /\ Len(q) \in Nat /\ Len(r) = Len(q) + 1
      /\ (\A k \in 1 .. Len(q) : r[k] = q[k]) /\ r[Len(q) + 1] = t
  BY QueueAppend DEF History
<1>2. /\ DOMAIN g = 0 .. Len(r) /\ (\A k \in 0 .. Len(q) : g[k] = f[k])
      /\ g[Len(q) + 1] = AfterTransaction(t, f[Len(q)])
      /\ g[Len(r)] = AfterTransaction(t, f[Len(q)])
  BY ExtAt DEF History
<1>3. GoodRows(f[Len(q)], n)
  BY <1>1 DEF History
<1>4. GoodRows(g[Len(q) + 1], n)
  BY <1>2, <1>3, GoodAfter
<1> HIDE DEF g, r
<1>5. ASSUME NEW k \in 0 .. Len(r) PROVE GoodRows(g[k], n)
  <2>1. CASE k \in 0 .. Len(q)
    BY <1>2, <2>1 DEF History
  <2>2. CASE k = Len(q) + 1
    BY <1>4, <2>2
  <2> QED
    BY <1>1, <2>1, <2>2
<1>6. ASSUME NEW k \in 1 .. Len(r)
      PROVE  g[k] = AfterTransaction(r[k], g[k - 1]) /\ Fits(r[k], g[k - 1])
  <2>1. CASE k \in 1 .. Len(q)
    <3>1. g[k] = f[k] /\ g[k - 1] = f[k - 1] /\ r[k] = q[k]
      BY <1>1, <1>2, <2>1
    <3> QED
      BY <2>1, <3>1 DEF History
  <2>2. CASE k = Len(q) + 1
    <3>1. g[k - 1] = f[Len(q)] /\ r[k] = t /\ g[k] = AfterTransaction(t, f[Len(q)])
      BY <1>1, <1>2, <2>2
    <3> QED
      BY <3>1
  <2> QED
    BY <1>1, <2>1, <2>2
<1>7. g[0] = d
  BY <1>1, <1>2 DEF History
<1>8. History(g, r, d, n)
  BY <1>1, <1>2, <1>5, <1>6, <1>7 DEF History
<1> QED
  BY <1>2, <1>8 DEF g, r

\* A mail id may be handed out without a row.
LEMMA HistoryMore ==
    ASSUME NEW f, NEW q, NEW d, NEW n \in Nat, NEW o \in Nat, n <= o, History(f, q, d, n)
    PROVE  History(f, q, d, o)
<1>1. 1 .. n \subseteq 1 .. o
  OBVIOUS
<1>2. \A e : GoodRows(e, n) => GoodRows(e, o)
  BY <1>1 DEF GoodRows
<1> QED
  BY <1>2 DEF History

\* A further transaction ends what the returner has taken from, or takes from a
\* mail that a later one will end.
LEMMA DoomsExtend ==
    ASSUME NEW f, NEW q, IsQueue(q), NEW t, NEW pending, NEW after, Dooms(q, f, pending),
           t.key = 0 => \A m \in DOMAIN f[Len(q)].mail :
             ~Leaves(t, f[Len(q)], m) => m \in after \/ Touches(t, m),
           \A m \in pending : m \in after \/ (t.key = 0 /\ Touches(t, m))
    PROVE  Dooms(Append(q, t), Ext(f, q, t), after)
<1> DEFINE g == Ext(f, q, t)
           r == Append(q, t)
<1>1. /\ Len(q) \in Nat /\ Len(r) = Len(q) + 1
      /\ (\A k \in 1 .. Len(q) : r[k] = q[k]) /\ r[Len(q) + 1] = t
  BY QueueAppend
<1>2. \A k \in 0 .. Len(q) : g[k] = f[k]
  BY ExtAt
<1> HIDE DEF g, r
<1>3. ASSUME NEW n \in 1 .. Len(r), NEW m \in DOMAIN g[n - 1].mail,
             r[n].key = 0, ~Leaves(r[n], g[n - 1], m)
      PROVE  m \in after \/ \E k \in n .. Len(r) : r[k].key = 0 /\ Touches(r[k], m)
  <2>1. CASE n \in 1 .. Len(q)
    <3>1. g[n - 1] = f[n - 1] /\ r[n] = q[n]
      BY <1>1, <1>2, <2>1
    <3>2. m \in pending \/ \E k \in n .. Len(q) : q[k].key = 0 /\ Touches(q[k], m)
      BY <1>3, <2>1, <3>1 DEF Dooms
    <3>3. CASE m \in pending
      <4>1. CASE m \in after
        BY <4>1
      <4>2. CASE t.key = 0 /\ Touches(t, m)
        <5>1. Len(q) + 1 \in n .. Len(r)
          BY <1>1, <2>1
        <5> QED
          BY <1>1, <4>2, <5>1
      <4> QED
        BY <3>3, <4>1, <4>2
    <3>4. CASE \E k \in n .. Len(q) : q[k].key = 0 /\ Touches(q[k], m)
      <4>1. PICK k \in n .. Len(q) : q[k].key = 0 /\ Touches(q[k], m)
        BY <3>4
      <4>2. k \in n .. Len(r) /\ r[k] = q[k]
        BY <1>1, <2>1
      <4> QED
        BY <4>1, <4>2
    <3> QED
      BY <3>2, <3>3, <3>4
  <2>2. CASE n = Len(q) + 1
    <3>1. g[n - 1] = f[Len(q)] /\ r[n] = t /\ n \in n .. Len(r)
      BY <1>1, <1>2, <2>2
    <3> QED
      BY <1>3, <3>1
  <2> QED
    BY <1>1, <2>1, <2>2
<1>4. Dooms(r, g, after)
  BY <1>3 DEF Dooms
<1> QED
  BY <1>4 DEF g, r

\* A further transaction that leaves the mail alone leaves it untouched.
LEMMA UntouchedExtend ==
    ASSUME NEW f, NEW q, NEW d, NEW n, History(f, q, d, n), NEW t, Fits(t, f[Len(q)]),
           NEW m, NEW row, Untouched(f, q, m, row), Leaves(t, f[Len(q)], m)
    PROVE  Untouched(Ext(f, q, t), Append(q, t), m, row)
<1> DEFINE g == Ext(f, q, t)
           r == Append(q, t)
<1>1. /\ Len(q) \in Nat /\ Len(r) = Len(q) + 1
      /\ (\A k \in 1 .. Len(q) : r[k] = q[k]) /\ r[Len(q) + 1] = t
  BY QueueAppend DEF History
<1>2. /\ (\A k \in 0 .. Len(q) : g[k] = f[k])
      /\ g[Len(q) + 1] = AfterTransaction(t, f[Len(q)])
  BY ExtAt DEF History
<1>3. GoodRows(f[Len(q)], n) /\ m \in DOMAIN f[Len(q)].mail /\ f[Len(q)].mail[m] = row
  BY <1>1 DEF History, Untouched
<1>4. KeptMail(m, f[Len(q)], g[Len(q) + 1])
  BY <1>2, <1>3, KeepsMail
<1>5. m \in DOMAIN g[Len(q) + 1].mail /\ g[Len(q) + 1].mail[m] = row
  BY <1>3, <1>4 DEF KeptMail
<1> HIDE DEF g, r
<1>6. ASSUME NEW k \in 0 .. Len(r) PROVE m \in DOMAIN g[k].mail /\ g[k].mail[m] = row
  <2>1. CASE k \in 0 .. Len(q)
    BY <1>2, <2>1 DEF Untouched
  <2>2. CASE k = Len(q) + 1
    BY <1>5, <2>2
  <2> QED
    BY <1>1, <2>1, <2>2
<1>7. ASSUME NEW k \in 1 .. Len(r) PROVE Leaves(r[k], g[k - 1], m)
  <2>1. CASE k \in 1 .. Len(q)
    <3>1. g[k - 1] = f[k - 1] /\ r[k] = q[k]
      BY <1>1, <1>2, <2>1
    <3> QED
      BY <2>1, <3>1 DEF Untouched
  <2>2. CASE k = Len(q) + 1
    <3>1. g[k - 1] = f[Len(q)] /\ r[k] = t
      BY <1>1, <1>2, <2>2
    <3> QED
      BY <3>1
  <2> QED
    BY <1>1, <2>1, <2>2
<1>8. Untouched(g, r, m, row)
  BY <1>6, <1>7 DEF Untouched
<1> QED
  BY <1>8 DEF g, r

\* The first transaction is applied: the history loses its first rows.
LEMMA Shift ==
    ASSUME NEW f, NEW q, NEW d, NEW n, History(f, q, d, n), Dooms(q, f, {}), 1 \in DOMAIN q
    PROVE  LET g == [k \in 0 .. Len(q) - 1 |-> f[k + 1]]
               r == RemoveAt(q, 1)
           IN  /\ History(g, r, AfterTransaction(q[1], d), n)
               /\ Dooms(r, g, {})
               /\ g[Len(r)] = f[Len(q)]
               /\ \A m, row : Untouched(f, q, m, row) => Untouched(g, r, m, row)
<1> DEFINE g == [k \in 0 .. Len(q) - 1 |-> f[k + 1]]
           r == RemoveAt(q, 1)
<1>1. /\ IsQueue(r) /\ Len(q) \in Nat \ {0} /\ Len(r) = Len(q) - 1
      /\ (\A k \in 1 .. Len(q) - 1 : r[k] = q[k + 1])
  BY QueueRemove DEF History
<1>2. /\ DOMAIN g = 0 .. Len(r) /\ (\A k \in 0 .. Len(r) : g[k] = f[k + 1])
  BY <1>1
<1> HIDE DEF g, r
<1>3. \A k \in 0 .. Len(r) : k + 1 \in 0 .. Len(q)
  BY <1>1
<1>4. \A k \in 1 .. Len(r) : /\ k + 1 \in 1 .. Len(q) /\ r[k] = q[k + 1] /\ g[k] = f[k + 1]
                              /\ g[k - 1] = f[(k + 1) - 1]
  <2> TAKE k \in 1 .. Len(r)
  <2>1. k - 1 \in 0 .. Len(r) /\ (k - 1) + 1 = (k + 1) - 1 /\ k \in 0 .. Len(r)
    BY <1>1
  <2>2. k + 1 \in 1 .. Len(q) /\ r[k] = q[k + 1]
    BY <1>1
  <2> QED
    BY <1>2, <2>1, <2>2
<1>5. g[0] = AfterTransaction(q[1], d)
  <2>1. 1 \in 1 .. Len(q) /\ 0 \in 0 .. Len(r) /\ 1 - 1 = 0 /\ 0 + 1 = 1
    BY <1>1
  <2>2. f[1] = AfterTransaction(q[1], f[1 - 1]) /\ f[0] = d
    BY <2>1 DEF History
  <2> QED
    BY <1>2, <2>1, <2>2
<1>6. \A k \in 0 .. Len(r) : GoodRows(g[k], n)
  BY <1>2, <1>3 DEF History
<1>7. \A k \in 1 .. Len(r) : g[k] = AfterTransaction(r[k], g[k - 1]) /\ Fits(r[k], g[k - 1])
  BY <1>4 DEF History
<1>8. History(g, r, AfterTransaction(q[1], d), n)
  BY <1>1, <1>2, <1>5, <1>6, <1>7 DEF History
<1>9. ASSUME NEW k \in 1 .. Len(r), NEW m \in DOMAIN g[k - 1].mail,
             r[k].key = 0, ~Leaves(r[k], g[k - 1], m)
      PROVE  \E j \in k .. Len(r) : r[j].key = 0 /\ Touches(r[j], m)
  <2>1. PICK j \in (k + 1) .. Len(q) : q[j].key = 0 /\ Touches(q[j], m)
    BY <1>4, <1>9 DEF Dooms
  <2>2. j - 1 \in k .. Len(r) /\ r[j - 1] = q[j]
    BY <1>1
  <2> QED
    BY <2>1, <2>2
<1>10. Dooms(r, g, {})
  BY <1>9 DEF Dooms
<1>11. g[Len(r)] = f[Len(q)]
  <2>1. Len(r) \in 0 .. Len(r) /\ Len(r) + 1 = Len(q)
    BY <1>1
  <2> QED
    BY <1>2, <2>1
<1>12. \A m, row : Untouched(f, q, m, row) => Untouched(g, r, m, row)
  BY <1>2, <1>3, <1>4 DEF Untouched
<1> QED
  BY <1>8, <1>10, <1>11, <1>12 DEF g, r

-----------------------------------------------------------------------------
(* Rows that are not behind: what the queue does not write is final         *)

\* A set of numbers that is not empty has a least one.
LEMMA LeastElement ==
    ASSUME NEW T, T \subseteq Nat, T # {}
    PROVE  \E m \in T : \A k \in T : m <= k
<1>1. PICK m \in T : \A k \in T : <<k, m>> \notin OpToRel(<, Nat)
  BY WFMin, NatLessThanWellFounded, Zenon
<1>2. \A k \in T : ~(k < m)
  BY <1>1 DEF OpToRel
<1> QED
  BY <1>2

\* A set of numbers with 0 that is closed under the successor holds 0 .. n.
LEMMA Climb ==
    ASSUME NEW n \in Nat, NEW T, 0 \in T, \A k \in 1 .. n : k - 1 \in T => k \in T
    PROVE  0 .. n \subseteq T
<1> DEFINE U == (0 .. n) \ T
<1>1. SUFFICES ASSUME U # {} PROVE FALSE
  OBVIOUS
<1>2. U \subseteq Nat
  OBVIOUS
<1>3. PICK m \in U : \A k \in U : m <= k
  BY <1>1, <1>2, LeastElement
<1>4. m \in 1 .. n
  BY <1>3
<1>5. m - 1 \in 0 .. n /\ ~(m <= m - 1)
  BY <1>4
<1>6. m - 1 \in T
  BY <1>3, <1>5
<1> QED
  BY <1>3, <1>4, <1>6

\* A mail that every queued transaction leaves is the same in all rows to come.
LEMMA Chain ==
    ASSUME NEW f, NEW q, NEW d, NEW n, History(f, q, d, n), NEW m \in DOMAIN d.mail,
           \A k \in 1 .. Len(q) : KeptMail(m, d, f[k - 1]) => Leaves(q[k], f[k - 1], m)
    PROVE  \A k \in 0 .. Len(q) : KeptMail(m, d, f[k])
<1> DEFINE T == {k \in 0 .. Len(q) : KeptMail(m, d, f[k])}
<1>1. Len(q) \in Nat
  BY QueueAppend DEF History
<1>2. 0 \in T
  <2>1. KeptMail(m, d, d)
    BY DEF KeptMail
  <2> QED
    BY <1>1, <2>1 DEF History
<1>3. ASSUME NEW k \in 1 .. Len(q), k - 1 \in T PROVE k \in T
  <2>1. KeptMail(m, d, f[k - 1])
    BY <1>3
  <2>2. Leaves(q[k], f[k - 1], m) /\ m \in DOMAIN f[k - 1].mail
    BY <2>1 DEF KeptMail
  <2>3. /\ GoodRows(f[k - 1], n) /\ f[k] = AfterTransaction(q[k], f[k - 1])
        /\ Fits(q[k], f[k - 1]) /\ k \in 0 .. Len(q)
    <3>1. k - 1 \in 0 .. Len(q) /\ k \in 0 .. Len(q)
      BY <1>1
    <3> QED
      BY <3>1 DEF History
  <2>4. KeptMail(m, f[k - 1], f[k])
    BY <2>2, <2>3, KeepsMail
  <2>5. KeptMail(m, d, f[k])
    BY <2>1, <2>4, KeptTwice
  <2> QED
    BY <2>3, <2>5
<1> HIDE DEF T
<1>4. 0 .. Len(q) \subseteq T
  BY <1>1, <1>2, <1>3, Climb
<1> QED
  BY <1>4 DEF T

\* Nothing queued writes mail m: its row is final, and nothing takes its items.
LEMMA NotWritten ==
    ASSUME NEW f, NEW q, NEW d, NEW n, History(f, q, d, n), Dooms(q, f, {}),
           NEW m \in DOMAIN d.mail, \A k \in 1 .. Len(q) : ~Touches(q[k], m)
    PROVE  Untouched(f, q, m, d.mail[m])
<1>1. Len(q) \in Nat
  BY QueueAppend DEF History
<1>2. ASSUME NEW k \in 1 .. Len(q), m \in DOMAIN f[k - 1].mail
      PROVE  Leaves(q[k], f[k - 1], m)
  <2>1. CASE q[k].key = 0
    <3>1. SUFFICES ASSUME ~Leaves(q[k], f[k - 1], m) PROVE FALSE
      OBVIOUS
    <3>2. PICK j \in k .. Len(q) : Touches(q[j], m)
      BY <1>2, <2>1, <3>1 DEF Dooms
    <3>3. j \in 1 .. Len(q)
      BY <1>1
    <3> QED
      BY <3>2, <3>3
  <2>2. CASE q[k].key # 0
    <3>1. Fits(q[k], f[k - 1])
      BY DEF History
    <3> QED
      BY <1>2, <2>2, <3>1 DEF Fits, FitsOwner
  <2> QED
    BY <2>1, <2>2
<1>3. \A k \in 0 .. Len(q) : KeptMail(m, d, f[k])
  <2>1. \A k \in 1 .. Len(q) : KeptMail(m, d, f[k - 1]) => Leaves(q[k], f[k - 1], m)
    BY <1>2 DEF KeptMail
  <2> QED
    BY <2>1, Chain
<1>4. \A k \in 0 .. Len(q) : m \in DOMAIN f[k].mail /\ f[k].mail[m] = d.mail[m]
  BY <1>3 DEF KeptMail
<1>5. ASSUME NEW k \in 1 .. Len(q) PROVE Leaves(q[k], f[k - 1], m)
  <2>1. k - 1 \in 0 .. Len(q)
    BY <1>1
  <2> QED
    BY <1>2, <1>4, <2>1
<1> QED
  BY <1>4, <1>5 DEF Untouched

\* A mail nothing in the queue writes is in the last rows as in the first.
LEMMA UntouchedKept ==
    ASSUME NEW f, NEW q, NEW d, NEW n, History(f, q, d, n), NEW m, NEW row,
           Untouched(f, q, m, row)
    PROVE  KeptMail(m, d, f[Len(q)])
<1>1. Len(q) \in Nat
  BY QueueAppend DEF History
<1>2. m \in DOMAIN d.mail
  BY <1>1 DEF Untouched, History
<1>3. \A k \in 1 .. Len(q) : KeptMail(m, d, f[k - 1]) => Leaves(q[k], f[k - 1], m)
  BY DEF Untouched
<1>4. \A k \in 0 .. Len(q) : KeptMail(m, d, f[k])
  BY <1>2, <1>3, Chain
<1> QED
  BY <1>1, <1>4

\* None of p's saves and nothing of the returner about his mails is queued.
NotBehind(q, d, p) ==
    /\ \A k \in 1 .. Len(q) : q[k].key # p
    /\ \A k \in 1 .. Len(q), m \in DOMAIN d.mail :
         q[k].key = 0 /\ d.mail[m].to = p => ~Touches(q[k], m)

\* A mail of a player nothing in the queue is about is kept by the whole queue.
LEMMA BehindMail ==
    ASSUME NEW f, NEW q, NEW d, NEW n, History(f, q, d, n), Dooms(q, f, {}),
           NEW p, NotBehind(q, d, p), NEW m \in DOMAIN d.mail, d.mail[m].to = p
    PROVE  KeptMail(m, d, f[Len(q)])
<1>1. Len(q) \in Nat
  BY QueueAppend DEF History
<1>2. ASSUME NEW k \in 1 .. Len(q), KeptMail(m, d, f[k - 1])
      PROVE  Leaves(q[k], f[k - 1], m)
  <2>1. m \in DOMAIN f[k - 1].mail /\ f[k - 1].mail[m].to = p
    BY <1>2 DEF KeptMail
  <2>2. CASE q[k].key = 0
    <3>1. SUFFICES ASSUME ~Leaves(q[k], f[k - 1], m) PROVE FALSE
      OBVIOUS
    <3>2. PICK j \in k .. Len(q) : q[j].key = 0 /\ Touches(q[j], m)
      BY <2>1, <2>2, <3>1 DEF Dooms
    <3>3. j \in 1 .. Len(q)
      BY <1>1
    <3> QED
      BY <3>2, <3>3 DEF NotBehind
  <2>3. CASE q[k].key # 0
    <3>1. Fits(q[k], f[k - 1]) /\ q[k].key # p
      BY DEF History, NotBehind
    <3> QED
      BY <2>1, <2>3, <3>1 DEF Fits, FitsOwner
  <2> QED
    BY <2>2, <2>3
<1>3. \A k \in 0 .. Len(q) : KeptMail(m, d, f[k])
  BY <1>2, Chain
<1> QED
  BY <1>1, <1>3

\* Gold and inventory of a player who has nothing in the queue are kept by it.
LEMMA BehindPurse ==
    ASSUME NEW f, NEW q, NEW d, NEW n, History(f, q, d, n), NEW p \in Players,
           \A k \in 1 .. Len(q) : q[k].key # p, NEW g, NEW bg, AgreePurse(d, p, g, bg)
    PROVE  AgreePurse(f[Len(q)], p, g, bg)
<1> DEFINE T == {k \in 0 .. Len(q) : AgreePurse(f[k], p, g, bg)}
<1>1. Len(q) \in Nat
  BY QueueAppend DEF History
<1>2. 0 \in T
  BY <1>1 DEF History
<1>3. ASSUME NEW k \in 1 .. Len(q), k - 1 \in T PROVE k \in T
  <2>1. AgreePurse(f[k - 1], p, g, bg)
    BY <1>3
  <2>2. k - 1 \in 0 .. Len(q) /\ k \in 0 .. Len(q)
    BY <1>1
  <2>3. /\ GoodRows(f[k - 1], n) /\ f[k] = AfterTransaction(q[k], f[k - 1])
        /\ Fits(q[k], f[k - 1]) /\ p # q[k].key
    BY <2>2 DEF History
  <2>4. AgreePurse(f[k], p, g, bg)
    BY <2>1, <2>3, KeepsPurse
  <2> QED
    BY <2>2, <2>4
<1> HIDE DEF T
<1>4. 0 .. Len(q) \subseteq T
  BY <1>1, <1>2, <1>3, Climb
<1> QED
  BY <1>1, <1>4 DEF T

-----------------------------------------------------------------------------
(* The transactions of the handlers fit                                     *)

\* The empty sequence as a function.
LEMMA Empty == DOMAIN <<>> = {}
OBVIOUS

\* A player's key is neither that of unkeyed work nor Nobody.
LEMMA Keys == \A p \in Players : p # 0 /\ p # Nobody
BY PlayersAssumption, ItemsAssumption

\* The item of a sent mail is in the sender's inventory rows.
LEMMA ItemLeavesFits ==
    ASSUME NEW v, NEW n, GoodRows(v, n), NEW p \in Players, NEW i \in Items, v.inv[i] = p
    PROVE  LET t == ItemLeaves(p, i)
           IN  /\ t.key = p /\ Fits(t, v) /\ DOMAIN t.insMail = {}
               /\ \A m : Leaves(t, v, m)
<1> DEFINE t == ItemLeaves(p, i)
<1>1. /\ t.key = p /\ t.gold = <<>> /\ t.delInv = {i} /\ t.insInv = <<>> /\ t.delInst = {}
      /\ t.insMail = <<>> /\ t.setMail = <<>> /\ t.backMail = <<>> /\ t.endMail = {}
      /\ t.insItems = {} /\ t.delItems = {} /\ t.delItemsOf = {} /\ t.backItems = <<>>
  BY DEF ItemLeaves, Nothing
<1> HIDE DEF t
<1>2. \A m : ~Touches(t, m) /\ Leaves(t, v, m)
  BY <1>1, Empty DEF Touches, Leaves
<1>3. FitsInventory(t, v)
  BY <1>1, Empty DEF FitsInventory
<1>4. FitsMails(t, v)
  BY <1>1, Empty DEF FitsMails
<1>5. FitsItems(t, v)
  BY <1>1, Empty DEF FitsItems
<1>6. FitsOwner(t, v)
  BY <1>2 DEF FitsOwner
<1> QED
  BY <1>1, <1>2, <1>3, <1>4, <1>5, <1>6, Empty DEF Fits, t

\* The save of a purse touches no mail.
LEMMA GoldSavedFits ==
    ASSUME NEW v, NEW n, GoodRows(v, n), NEW p \in Players, NEW a
    PROVE  LET t == GoldSaved(p, a)
           IN  /\ t.key = p /\ Fits(t, v) /\ DOMAIN t.insMail = {}
               /\ \A m : Leaves(t, v, m)
<1> DEFINE t == GoldSaved(p, a)
<1>1. /\ t.key = p /\ t.gold = Only(p, a) /\ t.delInv = {} /\ t.insInv = <<>> /\ t.delInst = {}
      /\ t.insMail = <<>> /\ t.setMail = <<>> /\ t.backMail = <<>> /\ t.endMail = {}
      /\ t.insItems = {} /\ t.delItems = {} /\ t.delItemsOf = {} /\ t.backItems = <<>>
  BY DEF GoldSaved, Nothing
<1> HIDE DEF t
<1>2. \A m : ~Touches(t, m) /\ Leaves(t, v, m)
  BY <1>1, Empty DEF Touches, Leaves
<1>3. FitsInventory(t, v)
  BY <1>1, Empty DEF FitsInventory, Only
<1>4. FitsMails(t, v)
  BY <1>1, Empty DEF FitsMails
<1>5. FitsItems(t, v)
  BY <1>1, Empty DEF FitsItems
<1>6. FitsOwner(t, v)
  BY <1>2 DEF FitsOwner
<1> QED
  BY <1>1, <1>2, <1>3, <1>4, <1>5, <1>6, Empty DEF Fits, t

\* The rows after an item left p's inventory.
LEMMA ItemLeavesAfter ==
    ASSUME NEW v, NEW n, GoodRows(v, n), NEW p \in Players, NEW i \in Items,
           NEW g, NEW bg, NEW bx, Agree(v, p, g, bg, bx), i \in bg
    PROVE  LET e == AfterTransaction(ItemLeaves(p, i), v)
           IN  /\ Fits(ItemLeaves(p, i), v)
               /\ Agree(e, p, g, bg \ {i}, bx)
               /\ e.inv[i] = Nobody /\ i \in e.inst /\ \A r \in e.mitems : r.item # i
<1> DEFINE t == ItemLeaves(p, i)
           e == AfterTransaction(t, v)
<1>1. /\ t.gold = <<>> /\ t.delInv = {i} /\ t.insInv = <<>> /\ t.delInst = {}
      /\ t.insItems = {} /\ t.delItems = {} /\ t.delItemsOf = {} /\ t.backItems = <<>>
  BY DEF ItemLeaves, Nothing
<1>2. v.inv[i] = p /\ i \in v.inst /\ p # Nobody
  BY Keys DEF Agree, AgreePurse
<1>3. Fits(t, v) /\ \A m : Leaves(t, v, m)
  BY <1>2, ItemLeavesFits
<1>4. /\ e.gold = Over(t.gold, v.gold)
      /\ e.inst = (v.inst \ t.delInst) \cup DOMAIN t.insInv
      /\ e.mitems = AfterItems(t, v.mitems)
  BY <1>3, AfterFields
<1>5. \A j \in Items : e.inv[j] = IF j = i THEN Nobody ELSE v.inv[j]
  <2> TAKE j \in Items
  <2>1. /\ (j \notin DOMAIN t.insInv /\ j \in t.delInv => e.inv[j] = Nobody)
        /\ (j \notin DOMAIN t.insInv /\ j \notin t.delInv => e.inv[j] = v.inv[j])
    BY <1>3, AfterInv
  <2> HIDE DEF e, t
  <2> QED
    BY <1>1, <2>1, Empty
<1>6. AgreeBox(e, p, bx)
  <2> SUFFICES ASSUME NEW m \in DOMAIN bx PROVE AgreeMail(e, p, m, bx[m])
    BY DEF AgreeBox
  <2>1. AgreeMail(v, p, m, bx[m])
    BY DEF Agree, AgreeBox
  <2>2. m \in DOMAIN v.mail
    BY <2>1 DEF AgreeMail
  <2>3. KeptMail(m, v, e)
    BY <1>3, <2>2, KeepsMail
  <2> QED
    BY <2>1, <2>3, KeptAgrees
<1>7. e.inst = v.inst
  <2> HIDE DEF e, t
  <2> QED
    BY <1>1, <1>4, Empty
<1>8. e.gold[p] = v.gold[p]
  <2>1. p \in DOMAIN v.gold
    BY DEF GoodRows
  <2> HIDE DEF e, t
  <2> QED
    BY <1>1, <1>4, <2>1, Empty DEF Over
<1>9. \A r \in e.mitems : r.item # i
  <2> TAKE r \in e.mitems
  <2>1. PICK x \in v.mitems : r.item = x.item
    <3>1. r \notin t.insItems
      BY <1>1
    <3> QED
      BY <1>3, <3>1, AfterItem
  <2> QED
    BY <1>2, <2>1 DEF GoodRows
<1> HIDE DEF e, t
<1>10. AgreePurse(e, p, g, bg \ {i})
  <2>1. v.gold[p] = g /\ bg \subseteq Items
    BY DEF Agree, AgreePurse
  <2>2. \A j \in Items : j \in bg <=> v.inv[j] = p /\ j \in v.inst
    BY DEF Agree, AgreePurse
  <2>3. \A j \in Items : j \in bg \ {i} <=> e.inv[j] = p /\ j \in e.inst
    BY <1>2, <1>5, <1>7, <2>2
  <2> QED
    BY <1>8, <2>1, <2>3 DEF AgreePurse
<1> QED
  BY <1>2, <1>3, <1>5, <1>6, <1>7, <1>9, <1>10 DEF Agree, e, t

\* The rows after the gold of p is saved.
LEMMA GoldSavedAfter ==
    ASSUME NEW v, NEW n, GoodRows(v, n), NEW p \in Players,
           NEW g, NEW bg, NEW bx, Agree(v, p, g, bg, bx), NEW a
    PROVE  Agree(AfterTransaction(GoldSaved(p, a), v), p, a, bg, bx)
<1> DEFINE t == GoldSaved(p, a)
           e == AfterTransaction(t, v)
<1>1. /\ t.gold = Only(p, a) /\ t.delInv = {} /\ t.insInv = <<>> /\ t.delInst = {}
  BY DEF GoldSaved, Nothing
<1>2. Fits(t, v) /\ \A m : Leaves(t, v, m)
  BY GoldSavedFits
<1>3. /\ e.gold = Over(t.gold, v.gold)
      /\ e.inst = (v.inst \ t.delInst) \cup DOMAIN t.insInv
  BY <1>2, AfterFields
<1>4. \A j \in Items : e.inv[j] = v.inv[j]
  <2> TAKE j \in Items
  <2>1. (j \notin DOMAIN t.insInv /\ j \notin t.delInv => e.inv[j] = v.inv[j])
    BY <1>2, AfterInv
  <2> HIDE DEF e, t
  <2> QED
    BY <1>1, <2>1, Empty
<1>5. AgreeBox(e, p, bx)
  <2> SUFFICES ASSUME NEW m \in DOMAIN bx PROVE AgreeMail(e, p, m, bx[m])
    BY DEF AgreeBox
  <2>1. AgreeMail(v, p, m, bx[m])
    BY DEF Agree, AgreeBox
  <2>2. m \in DOMAIN v.mail
    BY <2>1 DEF AgreeMail
  <2>3. KeptMail(m, v, e)
    BY <1>2, <2>2, KeepsMail
  <2> QED
    BY <2>1, <2>3, KeptAgrees
<1> HIDE DEF e, t
<1>6. e.inst = v.inst
  BY <1>1, <1>3, Empty
<1>7. e.gold[p] = a
  BY <1>1, <1>3 DEF Over, Only
<1>8. AgreePurse(e, p, a, bg)
  BY <1>4, <1>6, <1>7 DEF Agree, AgreePurse
<1> QED
  BY <1>5, <1>8 DEF Agree, e, t

\* The mail id and its item, if it has one, are nowhere in the rows v.
Free(v, id, m) ==
    /\ id \notin DOMAIN v.mail
    /\ m.item # Nobody => /\ v.inv[m.item] = Nobody /\ m.item \in v.inst
                          /\ \A r \in v.mitems : r.item # m.item

\* A new mail whose item nobody holds fits, and its rows are the mail.
LEMMA SendMailToFits ==
    ASSUME NEW v, NEW n, GoodRows(v, n), NEW id \in Nat, NEW m \in BoxMails,
           NEW to \in Players, Free(v, id, m)
    PROVE  LET t == SendMailTo(id, m, to)
               e == AfterTransaction(t, v)
           IN  /\ t.key = 0 /\ Fits(t, v) /\ DOMAIN t.insMail = {id}
               /\ \A x \in DOMAIN v.mail : Leaves(t, v, x)
               /\ AgreeMail(e, to, id, m)
<1> DEFINE t == SendMailTo(id, m, to)
           e == AfterTransaction(t, v)
           row == [mail |-> id, item |-> m.item, to |-> to]
<1>1. /\ t.key = 0 /\ t.gold = <<>> /\ t.delInv = {} /\ t.insInv = <<>> /\ t.delInst = {}
      /\ t.insMail = Only(id, MailRow(m, to)) /\ t.setMail = <<>> /\ t.backMail = <<>>
      /\ t.endMail = {} /\ t.delItems = {} /\ t.delItemsOf = {} /\ t.backItems = <<>>
      /\ t.insItems = (IF m.item = Nobody THEN {} ELSE {row})
  BY DEF SendMailTo, Nothing
<1>2. MailRow(m, to) \in MailRows
  BY DEF MailRow, MailRows, BoxMails
<1>3. DOMAIN t.insMail = {id} /\ t.insMail[id] = MailRow(m, to)
  BY <1>1 DEF Only
<1>4. m.item # Nobody => row \in ItemRows
  BY DEF ItemRows, BoxMails
<1>5. row.item = m.item
  OBVIOUS
<1> HIDE DEF t, row
<1>6. \A x : ~Touches(t, x) /\ Leaves(t, v, x)
  BY <1>1, Empty DEF Touches, Leaves
<1>7. FitsInventory(t, v)
  BY <1>1, Empty DEF FitsInventory
<1>8. FitsMails(t, v)
  <2>1. id \notin DOMAIN v.mail
    BY DEF Free
  <2> QED
    BY <1>1, <1>2, <1>3, <2>1, Empty DEF FitsMails
<1>9. FitsItems(t, v)
  <2>1. CASE m.item = Nobody
    BY <1>1, <2>1, Empty DEF FitsItems
  <2>2. CASE m.item # Nobody
    <3>1. t.insItems = {row} /\ row \in ItemRows
      BY <1>1, <1>4, <2>2
    <3>2. v.inv[row.item] = Nobody /\ \A r \in v.mitems : r.item # row.item
      BY <1>5, <2>2 DEF Free
    <3> QED
      BY <1>1, <3>1, <3>2, Empty DEF FitsItems
  <2> QED
    BY <2>1, <2>2
<1>10. FitsOwner(t, v)
  BY <1>1 DEF FitsOwner
<1>11. Fits(t, v)
  BY <1>7, <1>8, <1>9, <1>10 DEF Fits
<1>12. id \in DOMAIN e.mail /\ e.mail[id] = MailRow(m, to)
  <2>1. /\ DOMAIN e.mail = DOMAIN t.insMail \cup DOMAIN v.mail
        /\ (\A x \in DOMAIN t.insMail : e.mail[x] = AfterRow(t, x, t.insMail[x]))
    BY <1>11, AfterMail
  <2>2. AfterRow(t, id, MailRow(m, to)) = MailRow(m, to)
    BY <1>2, <1>6, <1>8, AfterRowType
  <2> HIDE DEF e
  <2> QED
    BY <1>3, <2>1, <2>2
<1>13. m.item # Nobody => row \in e.mitems /\ m.item \in e.inst
  <2>1. t.insItems \subseteq e.mitems
    BY <1>11, AfterItem
  <2>2. e.inst = (v.inst \ t.delInst) \cup DOMAIN t.insInv
    BY <1>11, AfterFields
  <2> HIDE DEF e
  <2> QED
    BY <1>1, <2>1, <2>2 DEF Free
<1> HIDE DEF e
<1>14. AgreeMail(e, to, id, m)
  <2>1. /\ ~MailRow(m, to).deleted /\ MailRow(m, to).to = to
        /\ MailRow(m, to).money = m.money /\ MailRow(m, to).cod = m.cod
    BY DEF MailRow
  <2> QED
    BY <1>12, <1>13, <2>1 DEF AgreeMail, row
<1> QED
  BY <1>1, <1>3, <1>6, <1>11, <1>14 DEF e, t

\* The rows v hold what SaveMails needs of the box b: its changed mails may differ.
HeldMail(v, p, m, x) ==
    /\ x \in BoxMails
    /\ m \in DOMAIN v.mail
    /\ ~v.mail[m].deleted /\ v.mail[m].to = p
    /\ x.state = "unchanged" => v.mail[m].money = x.money /\ v.mail[m].cod = x.cod
    /\ x.item # Nobody => /\ [mail |-> m, item |-> x.item, to |-> p] \in v.mitems
                          /\ x.item \in v.inst

Held(v, p, b) == \A m \in DOMAIN b : HeldMail(v, p, m, b[m])

\* The transaction t saves the box b of p.
IsSave(t, p, b) ==
    /\ t.key = p /\ DOMAIN t.gold \subseteq {p}
    /\ t.delInv = {} /\ t.insMail = <<>> /\ t.backMail = <<>>
    /\ t.insItems = {} /\ t.backItems = <<>>
    /\ DOMAIN t.setMail = Marked(b, "changed")
    /\ \A m \in Marked(b, "changed") :
         t.setMail[m] = [money |-> b[m].money, cod |-> b[m].cod, has |-> b[m].has,
                         checked |-> b[m].checked, expires |-> b[m].expires]
    /\ t.delInst = {b[m].item : m \in Marked(b, "deleted")} \ {Nobody}
    /\ t.endMail = Marked(b, "deleted") /\ t.delItemsOf = Marked(b, "deleted")

\* It takes no item, or the item of a mail that has changed.
TakesOne(t, v, p, b) ==
    \/ t.insInv = <<>> /\ t.delItems = {}
    \/ \E i \in Items, m \in Marked(b, "changed") :
         /\ t.insInv = Only(i, p) /\ t.delItems = {i} /\ b[m].item = Nobody
         /\ [mail |-> m, item |-> i, to |-> p] \in v.mitems

\* The row of an item that is taken or destroyed is that of a mail of the save.
LEMMA SaveTouches ==
    ASSUME NEW v, NEW n, GoodRows(v, n), NEW p, NEW b, Held(v, p, b),
           NEW t, IsSave(t, p, b), TakesOne(t, v, p, b), NEW r \in v.mitems
    PROVE  /\ r.item \in t.delInst => r.mail \in Marked(b, "deleted") /\ b[r.mail].item = r.item
           /\ r.item \in t.delItems => r.mail \in Marked(b, "changed") /\ b[r.mail].item = Nobody
<1>1. ASSUME r.item \in t.delInst
      PROVE  r.mail \in Marked(b, "deleted") /\ b[r.mail].item = r.item
  <2>1. PICK m \in Marked(b, "deleted") : b[m].item = r.item /\ r.item # Nobody
    BY <1>1 DEF IsSave
  <2> DEFINE s == [mail |-> m, item |-> b[m].item, to |-> p]
  <2>2. m \in DOMAIN b
    BY DEF Marked
  <2>3. s \in v.mitems
    BY <2>1, <2>2 DEF Held, HeldMail
  <2>4. s.item = r.item /\ s.mail = m
    BY <2>1
  <2> HIDE DEF s
  <2>5. r = s
    BY <2>3, <2>4 DEF GoodRows
  <2> QED
    BY <2>1, <2>4, <2>5
<1>2. ASSUME r.item \in t.delItems
      PROVE  r.mail \in Marked(b, "changed") /\ b[r.mail].item = Nobody
  <2>1. PICK i \in Items, m \in Marked(b, "changed") :
          /\ t.delItems = {i} /\ b[m].item = Nobody
          /\ [mail |-> m, item |-> i, to |-> p] \in v.mitems
    BY <1>2 DEF TakesOne
  <2> DEFINE s == [mail |-> m, item |-> i, to |-> p]
  <2>2. s \in v.mitems /\ s.item = r.item /\ s.mail = m
    BY <1>2, <2>1
  <2> HIDE DEF s
  <2>3. r = s
    BY <2>2 DEF GoodRows
  <2> QED
    BY <2>1, <2>2, <2>3
<1> QED
  BY <1>1, <1>2

\* What SaveMails writes fits the rows of a box that agrees with them.
LEMMA SaveFits ==
    ASSUME NEW v, NEW n, GoodRows(v, n), NEW p \in Players, NEW b, Held(v, p, b),
           NEW t, IsSave(t, p, b), TakesOne(t, v, p, b)
    PROVE  Fits(t, v) /\ DOMAIN t.insMail = {}
<1>1. /\ DOMAIN t.insMail = {} /\ DOMAIN t.backMail = {} /\ DOMAIN t.backItems = {}
  BY Empty DEF IsSave
<1>2. ASSUME NEW i \in t.delInst PROVE i \in Items /\ v.inv[i] = Nobody
  <2>1. PICK m \in Marked(b, "deleted") : b[m].item = i /\ i # Nobody
    BY DEF IsSave
  <2>2. m \in DOMAIN b
    BY DEF Marked
  <2> DEFINE s == [mail |-> m, item |-> i, to |-> p]
  <2>3. s \in v.mitems /\ s.item = i
    BY <2>1, <2>2 DEF Held, HeldMail
  <2> HIDE DEF s
  <2>4. s.item \in Items
    BY <2>3 DEF GoodRows, ItemRows
  <2> QED
    BY <2>3, <2>4 DEF GoodRows
<1>3. ASSUME NEW i \in DOMAIN t.insInv
      PROVE  i \in Items /\ t.insInv[i] = p /\ v.inv[i] = Nobody /\ i \in t.delItems
  <2>1. t.insInv # <<>>
    BY Empty
  <2>2. PICK j \in Items, m \in Marked(b, "changed") :
          /\ t.insInv = Only(j, p) /\ t.delItems = {j}
          /\ [mail |-> m, item |-> j, to |-> p] \in v.mitems
    BY <2>1 DEF TakesOne
  <2>3. i = j /\ t.insInv[i] = p
    BY <2>2 DEF Only
  <2> DEFINE s == [mail |-> m, item |-> j, to |-> p]
  <2>4. s \in v.mitems /\ s.item = i
    BY <2>2, <2>3
  <2> HIDE DEF s
  <2>5. v.inv[i] = Nobody
    BY <2>4 DEF GoodRows
  <2> QED
    BY <2>2, <2>3, <2>5
<1>4. FitsInventory(t, v)
  BY <1>2, <1>3 DEF FitsInventory, IsSave
<1>5. FitsMails(t, v)
  <2>1. ASSUME NEW m \in DOMAIN t.setMail
        PROVE  /\ t.setMail[m].money \in Nat /\ t.setMail[m].cod \in Nat
               /\ t.setMail[m].has \in BOOLEAN /\ t.setMail[m].checked \in Checks
               /\ t.setMail[m].expires \in Terms
    <3>1. m \in Marked(b, "changed")
      BY DEF IsSave
    <3>2. b[m] \in BoxMails
      BY <3>1 DEF Marked, Held, HeldMail
    <3>3. t.setMail[m] = [money |-> b[m].money, cod |-> b[m].cod, has |-> b[m].has,
                         checked |-> b[m].checked, expires |-> b[m].expires]
      BY <3>1 DEF IsSave
    <3> QED
      BY <3>2, <3>3 DEF BoxMails
  <2> QED
    BY <1>1, <2>1 DEF FitsMails
<1>6. FitsItems(t, v)
  BY <1>1 DEF FitsItems, IsSave
<1>7. FitsOwner(t, v)
  <2>1. ASSUME NEW m \in DOMAIN v.mail, Touches(t, m) PROVE v.mail[m].to = p
    <3>1. m \in DOMAIN b
      BY <1>1, <2>1 DEF Touches, IsSave, Marked
    <3> QED
      BY <3>1 DEF Held, HeldMail
  <2>2. ASSUME NEW m \in DOMAIN v.mail, ~Touches(t, m) PROVE Leaves(t, v, m)
    <3>1. m \notin Marked(b, "changed") /\ m \notin Marked(b, "deleted")
      BY <2>2 DEF Touches, IsSave
    <3>2. \A r \in v.mitems : r.mail = m => r.item \notin t.delItems \cup t.delInst
      BY <3>1, SaveTouches
    <3> QED
      BY <2>2, <3>1, <3>2 DEF Leaves, IsSave
  <2> QED
    BY <2>1, <2>2 DEF FitsOwner, IsSave
<1> QED
  BY <1>1, <1>4, <1>5, <1>6, <1>7 DEF Fits

\* The box that stays in memory agrees with the rows after the save.
LEMMA SaveBox ==
    ASSUME NEW v, NEW n, GoodRows(v, n), NEW p \in Players, NEW b, Held(v, p, b),
           NEW t, IsSave(t, p, b), TakesOne(t, v, p, b)
    PROVE  AgreeBox(AfterTransaction(t, v), p, Saved(b))
<1> DEFINE e == AfterTransaction(t, v)
<1>1. Fits(t, v)
  BY SaveFits
<1>2. SUFFICES ASSUME NEW m \in DOMAIN Saved(b) PROVE AgreeMail(e, p, m, Saved(b)[m])
  BY DEF AgreeBox
<1> DEFINE x == b[m]
           y == Saved(b)[m]
<1>3. m \in DOMAIN b /\ m \notin Marked(b, "deleted") /\ y = [x EXCEPT !.state = "unchanged"]
  BY DEF Saved
<1>4. HeldMail(v, p, m, x)
  BY <1>3 DEF Held
<1>5. x \in BoxMails /\ m \in DOMAIN v.mail
  BY <1>4 DEF HeldMail
<1> HIDE DEF x, y
<1>6. y \in BoxMails /\ y.item = x.item /\ y.money = x.money /\ y.cod = x.cod
  BY <1>3, <1>5 DEF BoxMails
<1>7. m \in DOMAIN e.mail /\ e.mail[m] = AfterRow(t, m, v.mail[m])
  BY <1>1, <1>5, AfterMail
<1>8. /\ DOMAIN t.backMail = {} /\ DOMAIN t.backItems = {} /\ DOMAIN t.setMail = Marked(b, "changed")
      /\ m \notin t.endMail /\ m \notin t.delItemsOf
  BY <1>3, Empty DEF IsSave
<1>9. v.mail[m] \in MailRows
  BY <1>5 DEF GoodRows
<1>10. /\ ~e.mail[m].deleted /\ e.mail[m].to = p
       /\ e.mail[m].money = x.money /\ e.mail[m].cod = x.cod
  <2>1. CASE m \in Marked(b, "changed")
    <3>1. t.setMail[m].money = x.money /\ t.setMail[m].cod = x.cod
      <4>1. t.setMail[m] = [money |-> x.money, cod |-> x.cod, has |-> x.has,
                            checked |-> x.checked, expires |-> x.expires]
        BY <2>1 DEF IsSave, x
      <4> QED
        BY <4>1
    <3>2. e.mail[m] = [v.mail[m] EXCEPT !.money = t.setMail[m].money,
                                        !.cod = t.setMail[m].cod,
                                        !.has = t.setMail[m].has,
                                        !.checked = t.setMail[m].checked,
                                        !.expires = t.setMail[m].expires]
      <4> HIDE DEF e
      <4> QED
        BY <1>7, <1>8, <2>1 DEF AfterRow
    <3>3. ~v.mail[m].deleted /\ v.mail[m].to = p
      BY <1>4 DEF HeldMail
    <3> HIDE DEF e
    <3> QED
      BY <1>9, <3>1, <3>2, <3>3 DEF MailRows
  <2>2. CASE m \notin Marked(b, "changed")
    <3>1. ~Touches(t, m)
      BY <1>8, <2>2 DEF Touches
    <3>2. AfterRow(t, m, v.mail[m]) = v.mail[m]
      BY <1>1, <1>9, <3>1, AfterRowType DEF Fits
    <3>3. x.state = "unchanged"
      BY <1>3, <1>5, <2>2 DEF Marked, BoxMails, x
    <3> HIDE DEF e
    <3> QED
      BY <1>4, <1>7, <3>2, <3>3 DEF HeldMail
  <2> QED
    BY <2>1, <2>2
<1>11. ASSUME x.item # Nobody
       PROVE  [mail |-> m, item |-> x.item, to |-> p] \in e.mitems /\ x.item \in e.inst
  <2> DEFINE r == [mail |-> m, item |-> x.item, to |-> p]
  <2>1. r \in v.mitems /\ x.item \in v.inst /\ r.mail = m /\ r.item = x.item
    BY <1>4, <1>11 DEF HeldMail
  <2> HIDE DEF r
  <2>2. /\ (r.item \in t.delInst => r.mail \in Marked(b, "deleted"))
        /\ (r.item \in t.delItems => b[r.mail].item = Nobody)
    BY <2>1, SaveTouches
  <2>3. r.item \notin t.delInst /\ r.item \notin t.delItems /\ r.mail \notin t.delItemsOf
    BY <1>3, <1>8, <1>11, <2>1, <2>2 DEF x
  <2>4. r \in {z \in v.mitems : z.item \notin t.delItems /\ z.mail \notin t.delItemsOf}
    BY <2>1, <2>3
  <2>5. r \in e.mitems
    BY <1>1, <1>8, <2>4, AfterItem
  <2>6. e.inst = (v.inst \ t.delInst) \cup DOMAIN t.insInv
    BY <1>1, AfterFields
  <2> HIDE DEF e
  <2> QED
    BY <2>1, <2>3, <2>5, <2>6 DEF r
<1> HIDE DEF e
<1>12. AgreeMail(e, p, m, y)
  BY <1>6, <1>7, <1>10, <1>11 DEF AgreeMail
<1> QED
  BY <1>12 DEF e, y

\* The gold and the inventory of p after the save.
LEMMA SavePurse ==
    ASSUME NEW v, NEW n, GoodRows(v, n), NEW p \in Players, NEW b, Held(v, p, b),
           NEW t, IsSave(t, p, b), TakesOne(t, v, p, b),
           NEW g, NEW bg, AgreePurse(v, p, g, bg), NEW a, t.gold = Only(p, a)
    PROVE  AgreePurse(AfterTransaction(t, v), p, a, bg \cup t.delItems)
<1> DEFINE e == AfterTransaction(t, v)
<1>1. Fits(t, v)
  BY SaveFits
<1>2. DOMAIN t.insInv = t.delItems /\ t.delItems \subseteq Items
  BY Empty DEF TakesOne, Only
<1>3. e.gold[p] = a
  <2>1. e.gold = Over(t.gold, v.gold)
    BY <1>1, AfterFields
  <2> HIDE DEF e
  <2> QED
    BY <2>1 DEF Over, Only
<1>4. ASSUME NEW i \in Items
      PROVE  i \in bg \cup t.delItems <=> e.inv[i] = p /\ i \in e.inst
  <2>1. /\ (i \in DOMAIN t.insInv => e.inv[i] = t.key)
        /\ (i \notin DOMAIN t.insInv /\ i \notin t.delInv => e.inv[i] = v.inv[i])
    BY <1>1, AfterInv
  <2>2. e.inst = (v.inst \ t.delInst) \cup DOMAIN t.insInv
    BY <1>1, AfterFields
  <2>3. t.key = p /\ t.delInv = {} /\ p # Nobody
    BY Keys DEF IsSave
  <2>4. i \in t.delInst => v.inv[i] = Nobody
    BY <1>1 DEF Fits, FitsInventory
  <2>5. i \in bg <=> v.inv[i] = p /\ i \in v.inst
    BY DEF AgreePurse
  <2> HIDE DEF e
  <2> QED
    BY <1>2, <2>1, <2>2, <2>3, <2>4, <2>5
<1> HIDE DEF e
<1>5. AgreePurse(e, p, a, bg \cup t.delItems)
  BY <1>2, <1>3, <1>4 DEF AgreePurse
<1> QED
  BY <1>5 DEF e

\* HandleMailReturnToSender: the old mail ends.
Ended(p, m) == [Nothing EXCEPT !.key = p, !.endMail = {m}, !.delItemsOf = {m}]

\* The old row of a returned mail ends, and its item is free.
LEMMA EndedAfter ==
    ASSUME NEW v, NEW n, GoodRows(v, n), NEW p \in Players,
           NEW g, NEW bg, NEW bx, Agree(v, p, g, bg, bx), NEW m \in DOMAIN bx
    PROVE  LET t == Ended(p, m)
               e == AfterTransaction(t, v)
           IN  /\ t.key = p /\ Fits(t, v) /\ DOMAIN t.insMail = {}
               /\ Agree(e, p, g, bg, WithoutMail(bx, m))
               /\ bx[m].item # Nobody =>
                    /\ e.inv[bx[m].item] = Nobody /\ bx[m].item \in e.inst
                    /\ \A r \in e.mitems : r.item # bx[m].item
<1> DEFINE t == Ended(p, m)
           e == AfterTransaction(t, v)
<1>1. /\ t.key = p /\ t.gold = <<>> /\ t.delInv = {} /\ t.insInv = <<>> /\ t.delInst = {}
      /\ t.insMail = <<>> /\ t.setMail = <<>> /\ t.backMail = <<>> /\ t.endMail = {m}
      /\ t.insItems = {} /\ t.delItems = {} /\ t.delItemsOf = {m} /\ t.backItems = <<>>
  BY DEF Ended, Nothing
<1> HIDE DEF t
<1>2. AgreeMail(v, p, m, bx[m])
  BY DEF Agree, AgreeBox
<1>3. \A x : x # m => ~Touches(t, x) /\ Leaves(t, v, x)
  BY <1>1, Empty DEF Touches, Leaves
<1>4. Touches(t, m) /\ v.mail[m].to = p
  BY <1>1, <1>2 DEF Touches, AgreeMail
<1>5. FitsInventory(t, v) /\ FitsMails(t, v) /\ FitsItems(t, v)
  <2>1. FitsInventory(t, v)
    BY <1>1, Empty DEF FitsInventory
  <2>2. FitsMails(t, v)
    BY <1>1, Empty DEF FitsMails
  <2>3. FitsItems(t, v)
    BY <1>1, Empty DEF FitsItems
  <2> QED
    BY <2>1, <2>2, <2>3
<1>6. FitsOwner(t, v)
  BY <1>1, <1>3, <1>4 DEF FitsOwner
<1>7. Fits(t, v)
  BY <1>5, <1>6 DEF Fits
<1>8. /\ e.gold = Over(t.gold, v.gold)
      /\ e.inst = (v.inst \ t.delInst) \cup DOMAIN t.insInv
  BY <1>7, AfterFields
<1>9. \A j \in Items : e.inv[j] = v.inv[j]
  <2> TAKE j \in Items
  <2>1. (j \notin DOMAIN t.insInv /\ j \notin t.delInv => e.inv[j] = v.inv[j])
    BY <1>7, AfterInv
  <2> HIDE DEF e
  <2> QED
    BY <1>1, <2>1, Empty
<1>10. e.inst = v.inst
  <2> HIDE DEF e
  <2> QED
    BY <1>1, <1>8, Empty
<1>11. e.gold[p] = v.gold[p]
  <2>1. p \in DOMAIN v.gold
    BY DEF GoodRows
  <2> HIDE DEF e
  <2> QED
    BY <1>1, <1>8, <2>1, Empty DEF Over
<1>12. AgreePurse(e, p, g, bg)
  <2> HIDE DEF e
  <2> QED
    BY <1>9, <1>10, <1>11 DEF Agree, AgreePurse
<1>13. AgreeBox(e, p, WithoutMail(bx, m))
  <2> SUFFICES ASSUME NEW x \in DOMAIN WithoutMail(bx, m)
               PROVE  AgreeMail(e, p, x, WithoutMail(bx, m)[x])
    BY DEF AgreeBox
  <2>1. x \in DOMAIN bx /\ x # m /\ WithoutMail(bx, m)[x] = bx[x]
    BY DEF WithoutMail
  <2>2. AgreeMail(v, p, x, bx[x])
    BY <2>1 DEF Agree, AgreeBox
  <2>3. x \in DOMAIN v.mail
    BY <2>2 DEF AgreeMail
  <2>4. KeptMail(x, v, e)
    BY <1>3, <1>7, <2>1, <2>3, KeepsMail
  <2> QED
    BY <2>1, <2>2, <2>4, KeptAgrees
<1>14. ASSUME bx[m].item # Nobody
       PROVE  /\ e.inv[bx[m].item] = Nobody /\ bx[m].item \in e.inst
              /\ \A r \in e.mitems : r.item # bx[m].item
  <2> DEFINE i == bx[m].item
             s == [mail |-> m, item |-> i, to |-> p]
  <2>1. s \in v.mitems /\ i \in v.inst /\ s.item = i /\ s.mail = m
    BY <1>2, <1>14 DEF AgreeMail
  <2> HIDE DEF s, i
  <2>2. i \in Items /\ v.inv[i] = Nobody
    BY <2>1 DEF GoodRows
  <2>3. ASSUME NEW r \in e.mitems PROVE r.item # i
    <3>1. r \notin t.insItems
      BY <1>1
    <3>2. PICK x \in v.mitems : r.item = x.item /\ x.mail \notin t.delItemsOf
      BY <1>7, <3>1, AfterItem
    <3>3. x.item = i => x = s
      BY <2>1 DEF GoodRows
    <3> QED
      BY <1>1, <2>1, <3>2, <3>3
  <2> HIDE DEF e
  <2>4. e.inv[i] = Nobody /\ i \in e.inst /\ \A r \in e.mitems : r.item # i
    BY <1>9, <1>10, <2>1, <2>2, <2>3
  <2> QED
    BY <2>4 DEF i
<1>15. DOMAIN t.insMail = {}
  BY <1>1, Empty
<1> HIDE DEF e
<1>16. Agree(e, p, g, bg, WithoutMail(bx, m))
  BY <1>12, <1>13 DEF Agree
<1> QED
  BY <1>1, <1>7, <1>14, <1>15, <1>16 DEF e, t

-----------------------------------------------------------------------------
(* The statements of the returner on mail m                                 *)

ReturnerFits(t, v, m) ==
    /\ t.key = 0 /\ Fits(t, v) /\ DOMAIN t.insMail = {}
    /\ \A x \in DOMAIN v.mail : x # m => Leaves(t, v, x)

\* The returner ends the mail.
LEMMA EndMailFits ==
    ASSUME NEW v, NEW m
    PROVE  LET t == [Nothing EXCEPT !.endMail = {m}]
           IN  ReturnerFits(t, v, m) /\ Touches(t, m)
<1> DEFINE t == [Nothing EXCEPT !.endMail = {m}]
<1>1. /\ t.key = 0 /\ t.gold = <<>> /\ t.delInv = {} /\ t.insInv = <<>> /\ t.delInst = {}
      /\ t.insMail = <<>> /\ t.setMail = <<>> /\ t.backMail = <<>> /\ t.endMail = {m}
      /\ t.insItems = {} /\ t.delItems = {} /\ t.delItemsOf = {} /\ t.backItems = <<>>
  BY DEF Nothing
<1> HIDE DEF t
<1>2. \A x : x # m => Leaves(t, v, x)
  BY <1>1, Empty DEF Touches, Leaves
<1>3. FitsInventory(t, v)
  BY <1>1, Empty DEF FitsInventory
<1>4. FitsMails(t, v)
  BY <1>1, Empty DEF FitsMails
<1>5. FitsItems(t, v)
  BY <1>1, Empty DEF FitsItems
<1>6. FitsOwner(t, v)
  BY <1>1 DEF FitsOwner
<1>7. Touches(t, m) /\ DOMAIN t.insMail = {}
  BY <1>1, Empty DEF Touches
<1> QED
  BY <1>1, <1>2, <1>3, <1>4, <1>5, <1>6, <1>7 DEF Fits, ReturnerFits, t

\* The returner destroys the item.
LEMMA DelInstFits ==
    ASSUME NEW v, NEW n, GoodRows(v, n), NEW r \in v.mitems
    PROVE  LET t == [Nothing EXCEPT !.delInst = {r.item}] IN ReturnerFits(t, v, r.mail)
<1> DEFINE t == [Nothing EXCEPT !.delInst = {r.item}]
<1>1. /\ t.key = 0 /\ t.gold = <<>> /\ t.delInv = {} /\ t.insInv = <<>>
      /\ t.delInst = {r.item}
      /\ t.insMail = <<>> /\ t.setMail = <<>> /\ t.backMail = <<>> /\ t.endMail = {}
      /\ t.insItems = {} /\ t.delItems = {} /\ t.delItemsOf = {} /\ t.backItems = <<>>
  BY DEF Nothing
<1> HIDE DEF t
<1>2. \A x : x # r.mail => Leaves(t, v, x)
  <2>1. \A s \in v.mitems : s.mail # r.mail => s.item # r.item
    BY DEF GoodRows
  <2> QED
    BY <1>1, <2>1, Empty DEF Touches, Leaves
<1>3. FitsInventory(t, v)
  <2>1. r.item \in Items /\ v.inv[r.item] = Nobody
    BY DEF GoodRows, ItemRows
  <2> QED
    BY <1>1, <2>1, Empty DEF FitsInventory
<1>4. FitsMails(t, v)
  BY <1>1, Empty DEF FitsMails
<1>5. FitsItems(t, v)
  BY <1>1, Empty DEF FitsItems
<1>6. FitsOwner(t, v)
  BY <1>1 DEF FitsOwner
<1>7. DOMAIN t.insMail = {}
  BY <1>1, Empty
<1> QED
  BY <1>1, <1>2, <1>3, <1>4, <1>5, <1>6, <1>7 DEF Fits, ReturnerFits, t

\* The returner deletes the rows of the mail's item.
LEMMA DelItemsOfFits ==
    ASSUME NEW v, NEW m
    PROVE  LET t == [Nothing EXCEPT !.delItemsOf = {m}] IN ReturnerFits(t, v, m)
<1> DEFINE t == [Nothing EXCEPT !.delItemsOf = {m}]
<1>1. /\ t.key = 0 /\ t.gold = <<>> /\ t.delInv = {} /\ t.insInv = <<>> /\ t.delInst = {}
      /\ t.insMail = <<>> /\ t.setMail = <<>> /\ t.backMail = <<>> /\ t.endMail = {}
      /\ t.insItems = {} /\ t.delItems = {} /\ t.delItemsOf = {m} /\ t.backItems = <<>>
  BY DEF Nothing
<1> HIDE DEF t
<1>2. \A x : x # m => Leaves(t, v, x)
  BY <1>1, Empty DEF Touches, Leaves
<1>3. FitsInventory(t, v)
  BY <1>1, Empty DEF FitsInventory
<1>4. FitsMails(t, v)
  BY <1>1, Empty DEF FitsMails
<1>5. FitsItems(t, v)
  BY <1>1, Empty DEF FitsItems
<1>6. FitsOwner(t, v)
  BY <1>1 DEF FitsOwner
<1>7. DOMAIN t.insMail = {}
  BY <1>1, Empty
<1> QED
  BY <1>1, <1>2, <1>3, <1>4, <1>5, <1>6, <1>7 DEF Fits, ReturnerFits, t

\* The returner sends the mail back.
LEMMA BackMailFits ==
    ASSUME NEW v, NEW m, NEW a \in Players, NEW b \in Players
    PROVE  LET t == [Nothing EXCEPT !.backMail = Only(m, [from |-> a, to |-> b])]
           IN  ReturnerFits(t, v, m) /\ Touches(t, m)
<1> DEFINE t == [Nothing EXCEPT !.backMail = Only(m, [from |-> a, to |-> b])]
<1>1. /\ t.key = 0 /\ t.gold = <<>> /\ t.delInv = {} /\ t.insInv = <<>> /\ t.delInst = {}
      /\ t.insMail = <<>> /\ t.setMail = <<>> /\ t.endMail = {}
      /\ t.backMail = Only(m, [from |-> a, to |-> b])
      /\ t.insItems = {} /\ t.delItems = {} /\ t.delItemsOf = {} /\ t.backItems = <<>>
  BY DEF Nothing
<1>2. DOMAIN t.backMail = {m} /\ t.backMail[m] = [from |-> a, to |-> b]
  BY <1>1 DEF Only
<1> HIDE DEF t
<1>3. \A x : x # m => Leaves(t, v, x)
  BY <1>1, <1>2, Empty DEF Touches, Leaves
<1>4. FitsInventory(t, v)
  BY <1>1, Empty DEF FitsInventory
<1>5. FitsMails(t, v)
  <2>1. \A x \in DOMAIN t.backMail :
           t.backMail[x].from \in Players /\ t.backMail[x].to \in Players
    BY <1>2
  <2> QED
    BY <1>1, <2>1, Empty DEF FitsMails
<1>6. FitsItems(t, v)
  BY <1>1, Empty DEF FitsItems
<1>7. FitsOwner(t, v)
  BY <1>1 DEF FitsOwner
<1>8. Touches(t, m) /\ DOMAIN t.insMail = {}
  BY <1>1, <1>2, Empty DEF Touches
<1> QED
  BY <1>1, <1>3, <1>4, <1>5, <1>6, <1>7, <1>8 DEF Fits, ReturnerFits, t

\* The row of an item follows its mail to the one it was returned to.
LEMMA BackItemsFits ==
    ASSUME NEW v, NEW n, GoodRows(v, n), NEW r \in v.mitems, r.mail \in DOMAIN v.mail
    PROVE  LET t == [Nothing EXCEPT !.backItems = Only(r.item, v.mail[r.mail].to)]
           IN  ReturnerFits(t, v, r.mail) /\ \A x : Leaves(t, v, x)
<1> DEFINE t == [Nothing EXCEPT !.backItems = Only(r.item, v.mail[r.mail].to)]
<1>1. /\ t.key = 0 /\ t.gold = <<>> /\ t.delInv = {} /\ t.insInv = <<>> /\ t.delInst = {}
      /\ t.insMail = <<>> /\ t.setMail = <<>> /\ t.backMail = <<>> /\ t.endMail = {}
      /\ t.insItems = {} /\ t.delItems = {} /\ t.delItemsOf = {}
      /\ t.backItems = Only(r.item, v.mail[r.mail].to)
  BY DEF Nothing
<1>2. DOMAIN t.backItems = {r.item} /\ t.backItems[r.item] = v.mail[r.mail].to
  BY <1>1 DEF Only
<1> HIDE DEF t
<1>3. \A x : Leaves(t, v, x)
  BY <1>1, Empty DEF Touches, Leaves
<1>4. FitsInventory(t, v)
  BY <1>1, Empty DEF FitsInventory
<1>5. FitsMails(t, v)
  BY <1>1, Empty DEF FitsMails
<1>6. FitsItems(t, v)
  <2>1. ASSUME NEW s \in v.mitems, s.item \in DOMAIN t.backItems
        PROVE  s.mail \in DOMAIN v.mail /\ t.backItems[s.item] = v.mail[s.mail].to
    <3>1. s = r
      BY <1>2, <2>1 DEF GoodRows
    <3> QED
      BY <1>2, <3>1
  <2> QED
    BY <1>1, <2>1, Empty DEF FitsItems
<1>7. FitsOwner(t, v)
  BY <1>1 DEF FitsOwner
<1>8. DOMAIN t.insMail = {}
  BY <1>1, Empty
<1> QED
  BY <1>1, <1>3, <1>4, <1>5, <1>6, <1>7, <1>8 DEF Fits, ReturnerFits, t

-----------------------------------------------------------------------------
(* Committing while others play                                             *)

\* A transaction that leaves the mails of p alone keeps what p is shown.
LEMMA NowKept ==
    ASSUME NEW t, NEW d, NEW n, GoodRows(d, n), Fits(t, d), NEW p \in Players, p # t.key,
           AgreeNow(d, p),
           \A x \in DOMAIN d.mail : d.mail[x].to = p => Leaves(t, d, x)
    PROVE  AgreeNow(AfterTransaction(t, d), p)
<1>1. ASSUME NEW g, NEW bg, NEW bx, Agree(d, p, g, bg, bx)
      PROVE  Agree(AfterTransaction(t, d), p, g, bg, bx)
  <2>1. \A m \in DOMAIN bx : Leaves(t, d, m)
    <3> TAKE m \in DOMAIN bx
    <3>1. AgreeMail(d, p, m, bx[m])
      BY <1>1 DEF Agree, AgreeBox
    <3> QED
      BY <3>1 DEF AgreeMail
  <2> QED
    BY <1>1, <2>1, KeepsAgree
<1> QED
  BY <1>1 DEF AgreeNow

\* The queue q leads through f to rows that agree with the memory of W.
Sit(f, q, n, pending, W) ==
    /\ History(f, q, db, n) /\ Dooms(q, f, pending)
    /\ W \subseteq Players
    /\ \A p \in W : AgreeNow(f[Len(q)], p)

\* A mail id more.
LEMMA SitMore ==
    ASSUME NEW f, NEW q, NEW n \in Nat, NEW o \in Nat, n <= o, NEW pending, NEW W,
           Sit(f, q, n, pending, W)
    PROVE  Sit(f, q, o, pending, W)
BY HistoryMore DEF Sit

\* The last rows are well formed.
LEMMA SitRows ==
    ASSUME NEW f, NEW q, NEW n, NEW pending, NEW W, Sit(f, q, n, pending, W)
    PROVE  GoodRows(f[Len(q)], n) /\ IsQueue(q)
<1>1. IsQueue(q) /\ History(f, q, db, n)
  BY DEF Sit, History
<1>2. Len(q) \in Nat
  BY <1>1, QueueAppend
<1> QED
  BY <1>1, <1>2 DEF History

\* The returner's mail survives what leaves it.
LEMMA ReturnerKept ==
    ASSUME NEW f, NEW q, NEW n, History(f, q, db, n), NEW t, Fits(t, f[Len(q)]),
           ReturnerOK(f, q, f[Len(q)]),
           \A x \in DOMAIN f[Len(q)].mail :
             session[f[Len(q)].mail[x].to] = "offline" => Leaves(t, f[Len(q)], x)
    PROVE  ReturnerOK(Ext(f, q, t), Append(q, t), AfterTransaction(t, f[Len(q)]))
<1> SUFFICES ASSUME returner.stage # "idle", ~returner.met
             PROVE  /\ returner.row \in MailRows
                    /\ session[returner.row.to] = "offline"
                    /\ Untouched(Ext(f, q, t), Append(q, t), returner.mail, returner.row)
                    /\ returner.stage = "found" /\ returner.item # Nobody =>
                         \E r \in AfterTransaction(t, f[Len(q)]).mitems :
                            r.mail = returner.mail /\ r.item = returner.item
  BY DEF ReturnerOK
<1> DEFINE v == f[Len(q)]
           m == returner.mail
<1>1. /\ returner.row \in MailRows /\ session[returner.row.to] = "offline"
      /\ Untouched(f, q, m, returner.row)
      /\ (returner.stage = "found" /\ returner.item # Nobody =>
           \E r \in v.mitems : r.mail = m /\ r.item = returner.item)
  BY DEF ReturnerOK
<1>2. Len(q) \in 0 .. Len(q)
  <2>1. Len(q) \in Nat
    BY QueueAppend DEF History
  <2> QED
    BY <2>1
<1>3. m \in DOMAIN v.mail /\ v.mail[m] = returner.row /\ GoodRows(v, n)
  BY <1>1, <1>2 DEF Untouched, History
<1>4. Leaves(t, v, m)
  BY <1>1, <1>3
<1>5. Untouched(Ext(f, q, t), Append(q, t), m, returner.row)
  BY <1>1, <1>4, UntouchedExtend
<1>6. KeptMail(m, v, AfterTransaction(t, v))
  BY <1>3, <1>4, KeepsMail
<1>7. returner.stage = "found" /\ returner.item # Nobody =>
         \E r \in AfterTransaction(t, v).mitems :
            r.mail = m /\ r.item = returner.item
  <2> SUFFICES ASSUME returner.stage = "found", returner.item # Nobody
               PROVE  \E r \in AfterTransaction(t, v).mitems : r.mail = m /\ r.item = returner.item
    OBVIOUS
  <2>1. PICK r \in v.mitems : r.mail = m /\ r.item = returner.item
    BY <1>1
  <2>2. \E s \in AfterTransaction(t, v).mitems : s.mail = m /\ s.item = r.item
    BY <1>6, <2>1 DEF KeptMail
  <2> QED
    BY <2>1, <2>2
<1> QED
  BY <1>1, <1>5, <1>7

\* A player who is in the game commits a transaction under his key.
LEMMA SitKeyed ==
    ASSUME NEW f, NEW q, NEW n, NEW pending, NEW W, Sit(f, q, n, pending, W),
           NEW t, Fits(t, f[Len(q)]), t.key \in Players, session[t.key] # "offline",
           DOMAIN t.insMail = {}
    PROVE  /\ Sit(Ext(f, q, t), Append(q, t), n, pending, W \ {t.key})
           /\ Ext(f, q, t)[Len(Append(q, t))] = AfterTransaction(t, f[Len(q)])
           /\ ReturnerOK(f, q, f[Len(q)]) =>
                ReturnerOK(Ext(f, q, t), Append(q, t), AfterTransaction(t, f[Len(q)]))
<1> DEFINE v == f[Len(q)]
<1>1. GoodRows(v, n) /\ IsQueue(q) /\ History(f, q, db, n) /\ Dooms(q, f, pending)
  BY SitRows DEF Sit
<1>2. t.key # 0
  BY Keys
<1>3. /\ History(Ext(f, q, t), Append(q, t), db, n)
      /\ Ext(f, q, t)[Len(Append(q, t))] = AfterTransaction(t, v)
  BY <1>1, Extend
<1>4. Dooms(Append(q, t), Ext(f, q, t), pending)
  BY <1>1, <1>2, DoomsExtend
<1>5. \A x \in DOMAIN v.mail : v.mail[x].to # t.key => Leaves(t, v, x)
  BY <1>2 DEF Fits, FitsOwner
<1>6. \A p \in W \ {t.key} : AgreeNow(AfterTransaction(t, v), p)
  <2> TAKE p \in W \ {t.key}
  <2>1. p \in Players /\ p # t.key /\ AgreeNow(v, p)
    BY DEF Sit
  <2> QED
    BY <1>1, <1>5, <2>1, NowKept
<1>7. \A x \in DOMAIN v.mail : session[v.mail[x].to] = "offline" => Leaves(t, v, x)
  BY <1>5
<1>8. ReturnerOK(f, q, v) =>
                ReturnerOK(Ext(f, q, t), Append(q, t), AfterTransaction(t, v))
  BY <1>1, <1>7, ReturnerKept
<1>9. Sit(Ext(f, q, t), Append(q, t), n, pending, W \ {t.key})
  BY <1>3, <1>4, <1>6 DEF Sit
<1> QED
  BY <1>3, <1>8, <1>9

\* A transaction without a key writes no mail of W.
LEMMA SitUnkeyed ==
    ASSUME NEW f, NEW q, NEW n, NEW pending, NEW W, Sit(f, q, n, pending, W),
           NEW t, Fits(t, f[Len(q)]), t.key = 0, DOMAIN t.insMail \subseteq 1 .. n, NEW after,
           \A x \in DOMAIN f[Len(q)].mail :
             \/ Leaves(t, f[Len(q)], x)
             \/ f[Len(q)].mail[x].to \notin W /\ (x \in after \/ Touches(t, x)),
           \A x \in pending : x \in after \/ Touches(t, x)
    PROVE  /\ Sit(Ext(f, q, t), Append(q, t), n, after, W)
           /\ Ext(f, q, t)[Len(Append(q, t))] = AfterTransaction(t, f[Len(q)])
<1> DEFINE v == f[Len(q)]
<1>1. GoodRows(v, n) /\ IsQueue(q) /\ History(f, q, db, n) /\ Dooms(q, f, pending)
  BY SitRows DEF Sit
<1>2. /\ History(Ext(f, q, t), Append(q, t), db, n)
      /\ Ext(f, q, t)[Len(Append(q, t))] = AfterTransaction(t, v)
  BY <1>1, Extend
<1>3. Dooms(Append(q, t), Ext(f, q, t), after)
  BY <1>1, DoomsExtend
<1>4. \A p \in W : AgreeNow(AfterTransaction(t, v), p)
  <2> TAKE p \in W
  <2>1. p \in Players /\ p # t.key /\ AgreeNow(v, p)
    BY Keys DEF Sit
  <2> QED
    BY <1>1, <2>1, NowKept
<1>5. Sit(Ext(f, q, t), Append(q, t), n, after, W)
  BY <1>2, <1>3, <1>4 DEF Sit
<1> QED
  BY <1>2, <1>5

\* A transaction of the world that leaves every stored mail alone.
LEMMA SitNew ==
    ASSUME NEW f, NEW q, NEW n, NEW W, Sit(f, q, n, {}, W),
           NEW t, Fits(t, f[Len(q)]), t.key = 0, DOMAIN t.insMail \subseteq 1 .. n,
           \A x \in DOMAIN f[Len(q)].mail : Leaves(t, f[Len(q)], x)
    PROVE  /\ Sit(Ext(f, q, t), Append(q, t), n, {}, W)
           /\ Ext(f, q, t)[Len(Append(q, t))] = AfterTransaction(t, f[Len(q)])
           /\ ReturnerOK(f, q, f[Len(q)]) =>
                ReturnerOK(Ext(f, q, t), Append(q, t), AfterTransaction(t, f[Len(q)]))
<1>1. /\ Sit(Ext(f, q, t), Append(q, t), n, {}, W)
      /\ Ext(f, q, t)[Len(Append(q, t))] = AfterTransaction(t, f[Len(q)])
  <2>1. \A x \in DOMAIN f[Len(q)].mail :
           \/ Leaves(t, f[Len(q)], x)
           \/ f[Len(q)].mail[x].to \notin W /\ (x \in {} \/ Touches(t, x))
    OBVIOUS
  <2>2. \A x \in {} : x \in {} \/ Touches(t, x)
    OBVIOUS
  <2> QED
    BY <2>1, <2>2, SitUnkeyed
<1>2. History(f, q, db, n)
  BY DEF Sit
<1>3. ReturnerOK(f, q, f[Len(q)]) =>
        ReturnerOK(Ext(f, q, t), Append(q, t), AfterTransaction(t, f[Len(q)]))
  BY <1>2, ReturnerKept
<1> QED
  BY <1>1, <1>3

\* A mail whose rows agree may enter the box.
LEMMA BoxWith ==
    ASSUME NEW v, NEW p, NEW bx, AgreeBox(v, p, bx), NEW id, NEW m, AgreeMail(v, p, id, m)
    PROVE  AgreeBox(v, p, Over(Only(id, m), bx))
<1> SUFFICES ASSUME NEW x \in DOMAIN Over(Only(id, m), bx)
             PROVE  AgreeMail(v, p, x, Over(Only(id, m), bx)[x])
  BY DEF AgreeBox
<1>1. \/ x = id /\ Over(Only(id, m), bx)[x] = m
      \/ x \in DOMAIN bx /\ Over(Only(id, m), bx)[x] = bx[x]
  BY DEF Over, Only
<1> QED
  BY <1>1 DEF AgreeBox

\* The memory after a handler of p: everybody else has kept his, or got a mail.
LEMMA Conclude ==
    ASSUME NEW v, MemoryOK(v), NEW p \in Players, session[p] = "online",
           session' = session, loaded' = loaded, NEW w,
           \A x \in Players \ {p} : session[x] # "offline" => AgreeNow(w, x),
           \A x \in Players \ {p} :
             /\ gold'[x] = gold[x] /\ bag'[x] = bag[x]
             /\ \/ box'[x] = box[x]
                \/ /\ session[x] = "online"
                   /\ \E id, m : box'[x] = Over(Only(id, m), box[x]) /\ AgreeMail(w, x, id, m),
           Agree(w, p, gold'[p], bag'[p], box'[p])
    PROVE  MemoryOK(w)'
<1>1. ASSUME NEW x \in Players, session'[x] # "offline" PROVE AgreeNow(w, x)'
  <2>1. CASE x = p
    BY <2>1 DEF AgreeNow
  <2>2. CASE x # p
    <3>1. AgreeNow(w, x)
      BY <1>1, <2>2
    <3>2. CASE session[x] = "online"
      <4>1. Agree(w, x, gold[x], bag[x], box[x])
        BY <3>1, <3>2 DEF AgreeNow
      <4>2. gold'[x] = gold[x] /\ bag'[x] = bag[x]
        BY <2>2
      <4>3. AgreeBox(w, x, box'[x])
        <5>1. CASE box'[x] = box[x]
          BY <4>1, <5>1 DEF Agree
        <5>2. CASE \E id, m : box'[x] = Over(Only(id, m), box[x]) /\ AgreeMail(w, x, id, m)
          BY <4>1, <5>2, BoxWith DEF Agree
        <5> QED
          BY <2>2, <5>1, <5>2
      <4>4. Agree(w, x, gold'[x], bag'[x], box'[x])
        BY <4>1, <4>2, <4>3 DEF Agree
      <4> QED
        BY <3>2, <4>4 DEF AgreeNow
    <3>3. CASE session[x] # "online"
      BY <3>1, <3>3 DEF AgreeNow
    <3> QED
      BY <3>2, <3>3
  <2> QED
    BY <2>1, <2>2
<1>2. ASSUME NEW x \in Players, session'[x] # "online"
      PROVE  bag'[x] = {} /\ DOMAIN box'[x] = {}
  <2>1. x # p /\ session[x] # "online"
    BY <1>2
  <2>2. bag'[x] = bag[x] /\ box'[x] = box[x]
    BY <2>1
  <2> QED
    BY <2>1, <2>2 DEF MemoryOK
<1> QED
  BY <1>1, <1>2 DEF MemoryOK

-----------------------------------------------------------------------------
(* The handlers                                                             *)

\* The players whose memory, or what they have read, must agree with the rows.
Present == {p \in Players : session[p] # "offline"}

\* The parts of the invariant.
LEMMA GoodSit ==
    ASSUME NEW f, NEW v, Good(f, v)
    PROVE  /\ Sit(f, queue, mails, {}, Present) /\ v = f[Len(queue)]
           /\ ReturnerOK(f, queue, v) /\ GoodRows(v, mails) /\ MemoryOK(v)
           /\ Shapes /\ RequestsOK
<1>1. Sit(f, queue, mails, {}, Present)
  BY DEF Good, Sit, Present, MemoryOK
<1>2. GoodRows(f[Len(queue)], mails)
  BY <1>1, SitRows
<1> QED
  BY <1>1, <1>2 DEF Good

\* A new mail is well formed.
LEMMA NewMailType ==
    ASSUME NEW p \in Players, NEW a \in Nat, NEW c \in Nat, NEW i \in Items \cup {Nobody},
           NEW k \in Checks
    PROVE  LET m == NewMail(p, a, c, i, k)
           IN  m \in BoxMails /\ m.item = i
BY DEF NewMail, BoxMails, Terms

\* One transaction after the other, as Commit queues them.
LEMMA SendSteps ==
    ASSUME NEW f, NEW v, Good(f, v), NEW p \in Players, session[p] = "online",
           NEW r \in Wishes, MaySend(p, r), NEW m \in BoxMails, m.item = r.item,
           NEW o, o = mails + 1, NEW a
    PROVE  \E g, w :
             LET q == queue \o ((IF r.item = Nobody THEN <<>> ELSE <<ItemLeaves(p, r.item)>>)
                                \o <<SendMailTo(o, m, r.to), GoldSaved(p, a)>>)
             IN  /\ Sit(g, q, o, {}, Present \ {p}) /\ w = g[Len(q)]
                 /\ ReturnerOK(g, q, w)
                 /\ Agree(w, p, a, bag[p] \ {r.item}, box[p])
                 /\ AgreeMail(w, r.to, o, m)
<1> DEFINE T1 == ItemLeaves(p, r.item)
           T2 == SendMailTo(o, m, r.to)
           T3 == GoldSaved(p, a)
<1>1. /\ Sit(f, queue, mails, {}, Present) /\ v = f[Len(queue)]
      /\ ReturnerOK(f, queue, v) /\ GoodRows(v, mails) /\ MemoryOK(v) /\ mails \in Nat
  BY GoodSit DEF Shapes
<1>2. Agree(v, p, gold[p], bag[p], box[p])
  BY <1>1 DEF MemoryOK, AgreeNow
<1>3. r.item \in Items \cup {Nobody} /\ r.to \in Players /\ o \in Nat /\ mails <= o
      /\ o \in 1 .. o /\ o \notin 1 .. mails
  BY <1>1 DEF Wishes
<1>4. \E f1, q1, v1 :
        /\ Sit(f1, q1, mails, {}, Present \ {p}) /\ v1 = f1[Len(q1)]
        /\ ReturnerOK(f1, q1, v1)
        /\ Agree(v1, p, gold[p], bag[p] \ {r.item}, box[p])
        /\ Free(v1, o, m)
        /\ queue \o ((IF r.item = Nobody THEN <<>> ELSE <<T1>>) \o <<T2, T3>>)
             = Append(Append(q1, T2), T3)
  <2>1. CASE r.item = Nobody
    <3>1. Sit(f, queue, mails, {}, Present \ {p})
      BY <1>1 DEF Sit
    <3>2. bag[p] \ {r.item} = bag[p]
      BY <1>2, <2>1, ItemsAssumption DEF Agree, AgreePurse
    <3>3. Free(v, o, m)
      BY <1>1, <1>3, <2>1 DEF Free, GoodRows
    <3>4. queue \o ((IF r.item = Nobody THEN <<>> ELSE <<T1>>) \o <<T2, T3>>)
             = Append(Append(queue, T2), T3)
      <4> HIDE DEF T1, T2, T3
      <4>1. (IF r.item = Nobody THEN <<>> ELSE <<T1>>) \o <<T2, T3>> = <<T2, T3>>
        BY <2>1
      <4>2. IsQueue(queue)
        BY <1>1, SitRows
      <4> QED
        BY <4>1, <4>2, QueueConcat
    <3> QED
      BY <1>1, <1>2, <3>1, <3>2, <3>3, <3>4
  <2>2. CASE r.item # Nobody
    <3>1. r.item \in bag[p] /\ r.item \in Items
      BY <1>3, <2>2 DEF MaySend
    <3> DEFINE e == AfterTransaction(T1, v)
               f1 == Ext(f, queue, T1)
               q1 == Append(queue, T1)
    <3>2. /\ Fits(T1, v) /\ Agree(e, p, gold[p], bag[p] \ {r.item}, box[p])
          /\ e.inv[r.item] = Nobody /\ r.item \in e.inst
          /\ (\A x \in e.mitems : x.item # r.item)
      BY <1>1, <1>2, <3>1, ItemLeavesAfter
    <3>3. T1.key = p /\ DOMAIN T1.insMail = {}
      BY Empty DEF ItemLeaves, Nothing
    <3> HIDE DEF T1, T2, T3
    <3>4. /\ Sit(f1, q1, mails, {}, Present \ {p})
          /\ f1[Len(q1)] = e
          /\ ReturnerOK(f1, q1, e)
      <4>1. session[T1.key] # "offline" /\ T1.key \in Players
        BY <3>3
      <4> QED
        BY <1>1, <3>2, <3>3, <4>1, SitKeyed
    <3>5. o \notin DOMAIN e.mail
      <4>1. GoodRows(f1[Len(q1)], mails)
        BY <3>4, SitRows
      <4> QED
        BY <1>3, <3>4, <4>1 DEF GoodRows
    <3>6. Free(e, o, m)
      BY <3>2, <3>5 DEF Free
    <3>7. queue \o ((IF r.item = Nobody THEN <<>> ELSE <<T1>>) \o <<T2, T3>>)
             = Append(Append(q1, T2), T3)
      <4>1. (IF r.item = Nobody THEN <<>> ELSE <<T1>>) = <<T1>>
        BY <2>2
      <4>2. IsQueue(queue)
        BY <1>1, SitRows
      <4> QED
        BY <4>1, <4>2, QueueConcat
    <3> HIDE DEF e, f1, q1
    <3> QED
      BY <3>2, <3>4, <3>6, <3>7
  <2> QED
    BY <2>1, <2>2
<1>5. PICK f1, q1, v1 :
        /\ Sit(f1, q1, mails, {}, Present \ {p}) /\ v1 = f1[Len(q1)]
        /\ ReturnerOK(f1, q1, v1)
        /\ Agree(v1, p, gold[p], bag[p] \ {r.item}, box[p])
        /\ Free(v1, o, m)
        /\ queue \o ((IF r.item = Nobody THEN <<>> ELSE <<T1>>) \o <<T2, T3>>)
             = Append(Append(q1, T2), T3)
  BY <1>4
<1>6. Sit(f1, q1, o, {}, Present \ {p})
  BY <1>1, <1>3, <1>5, SitMore
<1>7. GoodRows(v1, o)
  BY <1>5, <1>6, SitRows
<1> DEFINE v2 == AfterTransaction(T2, v1)
           f2 == Ext(f1, q1, T2)
           q2 == Append(q1, T2)
<1>8. /\ T2.key = 0 /\ Fits(T2, v1) /\ DOMAIN T2.insMail = {o}
      /\ (\A x \in DOMAIN v1.mail : Leaves(T2, v1, x))
      /\ AgreeMail(v2, r.to, o, m)
  BY <1>3, <1>5, <1>7, SendMailToFits
<1> HIDE DEF T2
<1>9. /\ Sit(f2, q2, o, {}, Present \ {p}) /\ f2[Len(q2)] = v2
      /\ ReturnerOK(f2, q2, v2)
  <2>1. DOMAIN T2.insMail \subseteq 1 .. o
    BY <1>3, <1>8
  <2> QED
    BY <1>5, <1>6, <1>8, <2>1, SitNew
<1>10. Agree(v2, p, gold[p], bag[p] \ {r.item}, box[p])
  <2>1. \A x \in DOMAIN box[p] : Leaves(T2, v1, x)
    <3> TAKE x \in DOMAIN box[p]
    <3>1. AgreeMail(v1, p, x, box[p][x])
      BY <1>5 DEF Agree, AgreeBox
    <3> QED
      BY <1>8, <3>1 DEF AgreeMail
  <2>2. p # T2.key
    BY <1>8, Keys
  <2> QED
    BY <1>5, <1>7, <1>8, <2>1, <2>2, KeepsAgree
<1>11. GoodRows(v2, o)
  BY <1>9, SitRows
<1> HIDE DEF v2, f2, q2
<1> DEFINE v3 == AfterTransaction(T3, v2)
           f3 == Ext(f2, q2, T3)
           q3 == Append(q2, T3)
<1>12. /\ T3.key = p /\ Fits(T3, v2) /\ DOMAIN T3.insMail = {}
       /\ (\A x : Leaves(T3, v2, x))
  BY <1>11, GoldSavedFits
<1>13. Agree(v3, p, a, bag[p] \ {r.item}, box[p])
  BY <1>10, <1>11, GoldSavedAfter
<1> HIDE DEF T3
<1>14. /\ Sit(f3, q3, o, {}, (Present \ {p}) \ {p}) /\ f3[Len(q3)] = v3
       /\ ReturnerOK(f3, q3, v3)
  <2>1. session[T3.key] # "offline" /\ T3.key \in Players
    BY <1>12
  <2> QED
    BY <1>9, <1>12, <2>1, SitKeyed
<1>15. AgreeMail(v3, r.to, o, m)
  <2>1. o \in DOMAIN v2.mail
    BY <1>8 DEF AgreeMail
  <2>2. KeptMail(o, v2, v3)
    BY <1>11, <1>12, <2>1, KeepsMail
  <2> QED
    BY <1>8, <2>2, KeptAgrees
<1>16. (Present \ {p}) \ {p} = Present \ {p}
  OBVIOUS
<1> HIDE DEF v3, f3
<1>17. queue \o ((IF r.item = Nobody THEN <<>> ELSE <<T1>>) \o <<T2, T3>>) = q3
  BY <1>5 DEF q2
<1>18. /\ Sit(f3, q3, o, {}, Present \ {p}) /\ v3 = f3[Len(q3)]
       /\ ReturnerOK(f3, q3, v3)
       /\ Agree(v3, p, a, bag[p] \ {r.item}, box[p]) /\ AgreeMail(v3, r.to, o, m)
  BY <1>13, <1>14, <1>15, <1>16
<1> HIDE DEF q3
<1> QED
  BY <1>17, <1>18 DEF T2, T3

\* What a handler leaves behind, with the rows w its transactions lead to.
LEMMA Finish ==
    ASSUME Shapes', RequestsOK', session' = session, returner' = returner, db' = db,
           NEW g, NEW w, NEW W, Sit(g, queue', mails', {}, W), w = g[Len(queue')],
           ReturnerOK(g, queue', w), MemoryOK(w)'
    PROVE  Good(g, w)'
<1>1. History(g, queue', db', mails') /\ Dooms(queue', g, {})
  BY DEF Sit
<1>2. ReturnerOK(g, queue, w)'
  BY DEF ReturnerOK
<1> QED
  BY <1>1, <1>2 DEF Good

\* The mailboxes after SendMailTo.
LEMMA WithMailAt ==
    ASSUME NEW b, DOMAIN b = Players, NEW id, NEW m, NEW to \in Players, NEW x \in Players
    PROVE  /\ DOMAIN WithMail(b, id, m, to) = Players
           /\ x # to \/ session[to] # "online" => WithMail(b, id, m, to)[x] = b[x]
           /\ x = to /\ session[to] = "online" =>
                WithMail(b, id, m, to)[x] = Over(Only(id, m), b[x])
<1> USE DEF WithMail, IsOnline
<1>1. CASE session[to] = "online"
  BY <1>1
<1>2. CASE session[to] # "online"
  BY <1>2
<1> QED
  BY <1>1, <1>2

\* HandleSendMailCallback: the item leaves the inventory rows before the mail is
\* stored with it, and the purse is saved last.
LEMMA SendGood ==
    ASSUME NEW f, NEW v, Good(f, v), NEW p \in Players, IsOnline(p), NEW r \in Wishes,
           HandleSendMailCallback(p, r), UNCHANGED <<session, loaded, returner, db>>, RequestsOK'
    PROVE  \E g, w : Good(g, w)'
<1> DEFINE o == mails + 1
           cod == IF r.item = Nobody THEN 0 ELSE r.cod
           m == NewMail(p, r.money, cod, r.item, "sent")
           a == gold[p] - (r.money + Postage)
           q == queue \o ((IF r.item = Nobody THEN <<>> ELSE <<ItemLeaves(p, r.item)>>)
                           \o <<SendMailTo(o, m, r.to), GoldSaved(p, a)>>)
<1>1. Shapes /\ MemoryOK(v) /\ session[p] = "online"
  BY GoodSit DEF IsOnline
<1>2. r.item \in Items \cup {Nobody} /\ r.to \in Players /\ r.money \in Nat /\ cod \in Nat
  BY DEF Wishes
<1>3. m \in BoxMails /\ m.item = r.item
  BY <1>2, NewMailType DEF Checks
<1>4. /\ MaySend(p, r) /\ mails' = o
      /\ gold' = [gold EXCEPT ![p] = @ - (r.money + Postage)]
      /\ bag' = [bag EXCEPT ![p] = @ \ {r.item}]
      /\ box' = WithMail(box, o, m, r.to)
      /\ queue' = q
  BY DEF HandleSendMailCallback, Commit, SendTransactions
<1> HIDE DEF m, cod
<1>5. PICK g, w : /\ Sit(g, q, o, {}, Present \ {p}) /\ w = g[Len(q)]
                  /\ ReturnerOK(g, q, w)
                  /\ Agree(w, p, a, bag[p] \ {r.item}, box[p])
                  /\ AgreeMail(w, r.to, o, m)
  BY <1>1, <1>3, <1>4, SendSteps
<1> HIDE DEF q
<1>6. /\ DOMAIN gold = Players /\ DOMAIN bag = Players /\ DOMAIN box = Players /\ mails \in Nat
  BY <1>1 DEF Shapes
<1>7. DOMAIN box' = Players
  BY <1>2, <1>4, <1>6, WithMailAt
<1>8. Shapes'
  BY <1>1, <1>4, <1>6, <1>7 DEF Shapes
<1>9. gold'[p] = a /\ bag'[p] = bag[p] \ {r.item}
  BY <1>4, <1>6
<1>10. Agree(w, p, gold'[p], bag'[p], box'[p])
  <2>1. CASE r.to = p
    <3>1. box'[p] = Over(Only(o, m), box[p])
      BY <1>1, <1>2, <1>4, <1>6, <2>1, WithMailAt
    <3>2. AgreeBox(w, p, box'[p])
      BY <1>5, <2>1, <3>1, BoxWith DEF Agree
    <3> QED
      BY <1>5, <1>9, <3>2 DEF Agree
  <2>2. CASE r.to # p
    <3>1. box'[p] = box[p]
      BY <1>2, <1>4, <1>6, <2>2, WithMailAt
    <3> QED
      BY <1>5, <1>9, <3>1
  <2> QED
    BY <2>1, <2>2
<1>11. \A x \in Players \ {p} :
             /\ gold'[x] = gold[x] /\ bag'[x] = bag[x]
             /\ \/ box'[x] = box[x]
                \/ /\ session[x] = "online"
                   /\ \E id, y : box'[x] = Over(Only(id, y), box[x]) /\ AgreeMail(w, x, id, y)
  <2> TAKE x \in Players \ {p}
  <2>1. gold'[x] = gold[x] /\ bag'[x] = bag[x]
    BY <1>4, <1>6
  <2>2. CASE x = r.to /\ session[x] = "online"
    <3>1. box'[x] = Over(Only(o, m), box[x])
      BY <1>2, <1>4, <1>6, <2>2, WithMailAt
    <3> QED
      BY <1>5, <2>1, <2>2, <3>1
  <2>3. CASE ~(x = r.to /\ session[x] = "online")
    <3>1. box'[x] = box[x]
      BY <1>2, <1>4, <1>6, <2>3, WithMailAt
    <3> QED
      BY <2>1, <3>1
  <2> QED
    BY <2>2, <2>3
<1>12. \A x \in Players \ {p} : session[x] # "offline" => AgreeNow(w, x)
  BY <1>5 DEF Sit, Present
<1>13. MemoryOK(w)'
  BY <1>1, <1>10, <1>11, <1>12, Conclude
<1> QED
  BY <1>4, <1>5, <1>8, <1>13, Finish

\* A client asks for what it has.
LEMMA RequestType ==
    ASSUME Shapes, NEW p \in Players, bag[p] \subseteq Items, NEW r \in Requests(p)
    PROVE  r \in Wishes
BY MoneyAssumption DEF Requests, Wishes

\* A bag holds items.
LEMMA BagType ==
    ASSUME NEW v, MemoryOK(v), NEW p \in Players
    PROVE  bag[p] \subseteq Items
<1>1. CASE session[p] = "online"
  BY <1>1 DEF MemoryOK, AgreeNow, Agree, AgreePurse
<1>2. CASE session[p] # "online"
  BY <1>2 DEF MemoryOK
<1> QED
  BY <1>1, <1>2

\* HandleSendMail to an online receiver.
LEMMA SendToOnlineGood ==
    ASSUME NEW f, NEW v, Good(f, v), NEW p \in Players, SendToOnline(p)
    PROVE  \E g, w : Good(g, w)'
<1>1. PICK r \in Requests(p) : HandleSendMailCallback(p, r)
  BY DEF SendToOnline
<1>2. Shapes /\ RequestsOK /\ bag[p] \subseteq Items
  BY GoodSit, BagType
<1>3. r \in Wishes
  BY <1>2, RequestType
<1>4. RequestsOK'
  BY <1>2 DEF RequestsOK, SendToOnline
<1>5. IsOnline(p) /\ UNCHANGED <<session, loaded, returner, db>>
  BY DEF SendToOnline
<1> QED
  BY <1>1, <1>3, <1>4, <1>5, SendGood

\* A step that changes nothing the invariant speaks of.
LEMMA SameGood ==
    ASSUME NEW f, NEW v, Good(f, v), RequestsOK',
           UNCHANGED <<session, loaded, gold, bag, box, mails, returner, db, queue>>
    PROVE  \E g, w : Good(g, w)'
<1>1. Good(f, v)'
  BY DEF Good, Shapes, MemoryOK, AgreeNow, ReturnerOK
<1> QED
  BY <1>1

\* HandleSendMail to anybody else only waits.
LEMMA AskToSendGood ==
    ASSUME NEW f, NEW v, Good(f, v), NEW p \in Players, AskToSend(p)
    PROVE  \E g, w : Good(g, w)'
<1>1. PICK r \in Requests(p) : request' = [request EXCEPT ![p] = r]
  BY DEF AskToSend
<1>2. Shapes /\ RequestsOK /\ bag[p] \subseteq Items
  BY GoodSit, BagType
<1>3. r \in Wishes
  BY <1>2, RequestType
<1>4. RequestsOK'
  BY <1>1, <1>2, <1>3 DEF RequestsOK
<1>5. UNCHANGED <<session, loaded, gold, bag, box, mails, returner, db, queue>>
  BY DEF AskToSend, memory
<1> QED
  BY <1>4, <1>5, SameGood

\* The answer of its query.
LEMMA SendCallbackGood ==
    ASSUME NEW f, NEW v, Good(f, v), NEW p \in Players, SendCallback(p)
    PROVE  \E g, w : Good(g, w)'
<1>1. RequestsOK
  BY GoodSit
<1>2. request[p] \in Wishes
  BY <1>1 DEF SendCallback, RequestsOK
<1>3. RequestsOK'
  BY <1>1 DEF RequestsOK, SendCallback
<1>4. UNCHANGED <<session, loaded, returner, db>>
  BY DEF SendCallback
<1>5. CASE IsOnline(p) /\ HandleSendMailCallback(p, request[p])
  BY <1>2, <1>3, <1>4, <1>5, SendGood
<1>6. CASE UNCHANGED <<memory, mails, delivered, queue>>
  <2>1. UNCHANGED <<session, loaded, gold, bag, box, mails, returner, db, queue>>
    BY <1>4, <1>6 DEF memory
  <2> QED
    BY <1>3, <2>1, SameGood
<1> QED
  BY <1>5, <1>6 DEF SendCallback

\* ReadMail and DeleteMail change what a later save will do, not what the mail is.
LEMMA MarkedGood ==
    ASSUME NEW f, NEW v, Good(f, v), NEW p \in Players, IsOnline(p), NEW m \in DOMAIN box[p],
           NEW k \in {"changed", "deleted"},
           box' = [box EXCEPT ![p][m].state = k],
           UNCHANGED <<session, loaded, gold, bag, mails, request, returner, db, queue>>
    PROVE  \E g, w : Good(g, w)'
<1>1. /\ Sit(f, queue, mails, {}, Present) /\ v = f[Len(queue)]
      /\ ReturnerOK(f, queue, v) /\ MemoryOK(v) /\ Shapes /\ RequestsOK /\ session[p] = "online"
  BY GoodSit DEF IsOnline
<1>2. Agree(v, p, gold[p], bag[p], box[p])
  BY <1>1 DEF MemoryOK, AgreeNow
<1>3. DOMAIN box = Players
  BY <1>1 DEF Shapes
<1>4. /\ DOMAIN box' = Players
      /\ (\A x \in Players \ {p} : box'[x] = box[x])
      /\ box'[p] = [box[p] EXCEPT ![m] = [box[p][m] EXCEPT !.state = k]]
  BY <1>3
<1>5. AgreeBox(v, p, box'[p])
  <2> DEFINE y == [box[p][m] EXCEPT !.state = k]
  <2>1. AgreeMail(v, p, m, box[p][m])
    BY <1>2 DEF Agree, AgreeBox
  <2>2. box[p][m] \in BoxMails
    BY <2>1 DEF AgreeMail
  <2>3. /\ y \in BoxMails /\ y.money = box[p][m].money /\ y.cod = box[p][m].cod
        /\ y.item = box[p][m].item
    BY <2>2 DEF BoxMails
  <2> HIDE DEF y
  <2>4. AgreeMail(v, p, m, y)
    BY <2>1, <2>3 DEF AgreeMail
  <2>5. /\ DOMAIN box'[p] = DOMAIN box[p] /\ box'[p][m] = y
        /\ (\A x \in DOMAIN box[p] : x # m => box'[p][x] = box[p][x])
    <3>1. box'[p] = [box[p] EXCEPT ![m] = y]
      BY <1>4 DEF y
    <3> QED
      BY <3>1
  <2>6. \A x \in DOMAIN box[p] : AgreeMail(v, p, x, box[p][x])
    BY <1>2 DEF Agree, AgreeBox
  <2> QED
    BY <2>4, <2>5, <2>6 DEF AgreeBox
<1>6. Agree(v, p, gold'[p], bag'[p], box'[p])
  BY <1>2, <1>5 DEF Agree
<1>7. \A x \in Players \ {p} : session[x] # "offline" => AgreeNow(v, x)
  BY <1>1 DEF MemoryOK
<1>8. MemoryOK(v)'
  <2>1. \A x \in Players \ {p} :
             /\ gold'[x] = gold[x] /\ bag'[x] = bag[x]
             /\ \/ box'[x] = box[x]
                \/ /\ session[x] = "online"
                   /\ \E id, y : box'[x] = Over(Only(id, y), box[x]) /\ AgreeMail(v, x, id, y)
    BY <1>4
  <2> QED
    BY <1>1, <1>6, <1>7, <2>1, Conclude
<1>9. Shapes' /\ RequestsOK'
  BY <1>1, <1>4 DEF Shapes, RequestsOK
<1> QED
  BY <1>1, <1>8, <1>9, Finish

\* A mail is marked as read.
LEMMA ReadMailGood ==
    ASSUME NEW f, NEW v, Good(f, v), NEW p \in Players, NEW m, ReadMail(p, m)
    PROVE  \E g, w : Good(g, w)'
BY MarkedGood DEF ReadMail

\* A mail is marked as deleted, unless it asks for money.
LEMMA DeleteMailGood ==
    ASSUME NEW f, NEW v, Good(f, v), NEW p \in Players, NEW m, DeleteMail(p, m)
    PROVE  \E g, w : Good(g, w)'
<1>1. CASE box' = box
  <2>1. RequestsOK'
    BY GoodSit DEF DeleteMail, RequestsOK
  <2>2. UNCHANGED <<session, loaded, gold, bag, box, mails, returner, db, queue>>
    BY <1>1 DEF DeleteMail
  <2> QED
    BY <2>1, <2>2, SameGood
<1>2. CASE box' = [box EXCEPT ![p][m].state = "deleted"]
  BY <1>2, MarkedGood DEF DeleteMail
<1> QED
  BY <1>1, <1>2 DEF DeleteMail

\* The transactions of a handler so far lead to the rows v, with which everybody in W
\* agrees; n mails have been sent.
Stands(f, q, n, W, v) ==
    Sit(f, q, n, {}, W) /\ v = f[Len(q)] /\ ReturnerOK(f, q, v)

\* The last rows are well formed, with nothing of the memory promised yet.
LEMMA StandsRows ==
    ASSUME NEW f, NEW q, NEW n, NEW W, NEW v, Stands(f, q, n, W, v)
    PROVE  GoodRows(v, n) /\ IsQueue(q)
BY SitRows DEF Stands

\* A mail is stored.
LEMMA MailSent ==
    ASSUME NEW n \in Nat, NEW f, NEW q, NEW W, NEW v, Stands(f, q, n, W, v),
           NEW m \in BoxMails, NEW to \in Players, Free(v, n + 1, m)
    PROVE  LET t == SendMailTo(n + 1, m, to)
               w == AfterTransaction(t, v)
           IN  /\ Stands(Ext(f, q, t), Append(q, t), n + 1, W, w)
               /\ AgreeMail(w, to, n + 1, m)
<1> DEFINE o == n + 1
           t == SendMailTo(o, m, to)
           w == AfterTransaction(t, v)
           g == Ext(f, q, t)
           s == Append(q, t)
<1>1. o \in Nat /\ n <= o /\ o \in 1 .. o
  OBVIOUS
<1> HIDE DEF o
<1>2. Sit(f, q, o, {}, W) /\ v = f[Len(q)] /\ ReturnerOK(f, q, v)
  BY <1>1, SitMore DEF Stands
<1>3. GoodRows(v, o)
  BY <1>2, SitRows
<1>4. /\ t.key = 0 /\ Fits(t, v) /\ DOMAIN t.insMail = {o}
      /\ (\A x \in DOMAIN v.mail : Leaves(t, v, x))
      /\ AgreeMail(w, to, o, m)
  BY <1>1, <1>3, SendMailToFits DEF o
<1> HIDE DEF t
<1>5. /\ Sit(g, s, o, {}, W) /\ g[Len(s)] = w /\ ReturnerOK(g, s, w)
  <2>1. DOMAIN t.insMail \subseteq 1 .. o
    BY <1>1, <1>4
  <2> QED
    BY <1>2, <1>4, <2>1, SitNew
<1>6. Stands(g, s, o, W, w)
  BY <1>5 DEF Stands
<1> QED
  BY <1>4, <1>6 DEF o, t

\* Everybody agrees with the rows as before.
LEMMA MailSentAgrees ==
    ASSUME NEW v, NEW n \in Nat, GoodRows(v, n), NEW m \in BoxMails, NEW to \in Players,
           Free(v, n + 1, m), NEW p \in Players, NEW a, NEW bg, NEW bx, Agree(v, p, a, bg, bx)
    PROVE  Agree(AfterTransaction(SendMailTo(n + 1, m, to), v), p, a, bg, bx)
<1> DEFINE t == SendMailTo(n + 1, m, to)
<1>1. n + 1 \in Nat
  OBVIOUS
<1>2. /\ t.key = 0 /\ Fits(t, v) /\ \A x \in DOMAIN v.mail : Leaves(t, v, x)
  BY <1>1, SendMailToFits
<1> HIDE DEF t
<1>3. \A x \in DOMAIN bx : Leaves(t, v, x)
  <2> TAKE x \in DOMAIN bx
  <2>1. AgreeMail(v, p, x, bx[x])
    BY DEF Agree, AgreeBox
  <2> QED
    BY <1>2, <2>1 DEF AgreeMail
<1>4. p # t.key
  BY <1>2, Keys
<1>5. Agree(AfterTransaction(t, v), p, a, bg, bx)
  BY <1>2, <1>3, <1>4, KeepsAgree
<1> QED
  BY <1>5 DEF t

\* A transaction of an online player is queued.
LEMMA PlayerSaved ==
    ASSUME NEW f, NEW q, NEW n, NEW W, NEW v, Stands(f, q, n, W, v),
           NEW t, Fits(t, v), t.key \in Players, session[t.key] = "online", DOMAIN t.insMail = {}
    PROVE  Stands(Ext(f, q, t), Append(q, t), n, W \ {t.key}, AfterTransaction(t, v))
<1>1. session[t.key] # "offline"
  OBVIOUS
<1>2. Sit(f, q, n, {}, W) /\ v = f[Len(q)] /\ ReturnerOK(f, q, v)
  BY DEF Stands
<1>3. /\ Sit(Ext(f, q, t), Append(q, t), n, {}, W \ {t.key})
      /\ Ext(f, q, t)[Len(Append(q, t))] = AfterTransaction(t, v)
      /\ ReturnerOK(Ext(f, q, t), Append(q, t), AfterTransaction(t, v))
  BY <1>1, <1>2, SitKeyed
<1> QED
  BY <1>3 DEF Stands

\* A mail of somebody else is as it was.
LEMMA OthersMail ==
    ASSUME NEW v, NEW n, GoodRows(v, n), NEW t, Fits(t, v), t.key \in Players,
           NEW x, x # t.key, NEW m, NEW b, AgreeMail(v, x, m, b)
    PROVE  AgreeMail(AfterTransaction(t, v), x, m, b)
<1>1. m \in DOMAIN v.mail /\ v.mail[m].to = x
  BY DEF AgreeMail
<1>2. Leaves(t, v, m)
  <2>1. t.key # 0
    BY Keys
  <2> QED
    BY <1>1, <2>1 DEF Fits, FitsOwner
<1>3. KeptMail(m, v, AfterTransaction(t, v))
  BY <1>1, <1>2, KeepsMail
<1> QED
  BY <1>3, KeptAgrees

\* What a handler of p leaves behind: his own memory agrees, and at most one other player
\* got the mail y.
LEMMA HandlerGood ==
    ASSUME NEW f, NEW v, Good(f, v), NEW p \in Players, session[p] = "online",
           UNCHANGED <<session, loaded, request, returner, db>>,
           mails' \in Nat, DOMAIN gold' = Players, DOMAIN bag' = Players, DOMAIN box' = Players,
           NEW g, NEW w, Stands(g, queue', mails', Present \ {p}, w),
           Agree(w, p, gold'[p], bag'[p], box'[p]),
           \A x \in Players \ {p} : gold'[x] = gold[x] /\ bag'[x] = bag[x],
           NEW to, NEW id, NEW y, to # p => AgreeMail(w, to, id, y),
           \A x \in Players \ {p} :
             \/ box'[x] = box[x]
             \/ x = to /\ session[x] = "online" /\ box'[x] = Over(Only(id, y), box[x])
    PROVE  \E h, u : Good(h, u)'
<1>1. MemoryOK(v) /\ Shapes /\ RequestsOK
  BY GoodSit
<1>2. \A x \in Players \ {p} :
             /\ gold'[x] = gold[x] /\ bag'[x] = bag[x]
             /\ \/ box'[x] = box[x]
                \/ /\ session[x] = "online"
                   /\ \E k, z : box'[x] = Over(Only(k, z), box[x]) /\ AgreeMail(w, x, k, z)
  <2> TAKE x \in Players \ {p}
  <2>1. CASE box'[x] = box[x]
    BY <2>1
  <2>2. CASE x = to /\ session[x] = "online" /\ box'[x] = Over(Only(id, y), box[x])
    <3>1. AgreeMail(w, x, id, y)
      BY <2>2
    <3> QED
      BY <2>2, <3>1
  <2> QED
    BY <2>1, <2>2
<1>3. \A x \in Players \ {p} : session[x] # "offline" => AgreeNow(w, x)
  BY DEF Stands, Sit, Present
<1>4. session' = session /\ loaded' = loaded /\ returner' = returner /\ db' = db
      /\ request' = request
  OBVIOUS
<1>5. MemoryOK(w)'
  BY <1>1, <1>2, <1>3, <1>4, Conclude
<1>6. Shapes' /\ RequestsOK'
  BY <1>1, <1>4 DEF Shapes, RequestsOK
<1>7. /\ Sit(g, queue', mails', {}, Present \ {p}) /\ w = g[Len(queue')]
      /\ ReturnerOK(g, queue', w)
  BY DEF Stands
<1> QED
  BY <1>4, <1>5, <1>6, <1>7, Finish

\* The invariant, seen from one online player.
LEMMA GoodStands ==
    ASSUME NEW f, NEW v, Good(f, v), NEW p \in Players, session[p] = "online"
    PROVE  /\ Stands(f, queue, mails, Present, v) /\ GoodRows(v, mails) /\ IsQueue(queue)
           /\ Agree(v, p, gold[p], bag[p], box[p])
           /\ DOMAIN gold = Players /\ DOMAIN bag = Players /\ DOMAIN box = Players
           /\ mails \in Nat
<1>1. /\ Sit(f, queue, mails, {}, Present) /\ v = f[Len(queue)]
      /\ ReturnerOK(f, queue, v) /\ GoodRows(v, mails) /\ MemoryOK(v) /\ Shapes
  BY GoodSit
<1>2. IsQueue(queue)
  BY <1>1, SitRows
<1>3. Agree(v, p, gold[p], bag[p], box[p])
  BY <1>1 DEF MemoryOK, AgreeNow
<1> QED
  BY <1>1, <1>2, <1>3 DEF Stands, Shapes

\* HandleMailReturnToSender: the old row ends before the new mail is stored.
LEMMA SendBackGood ==
    ASSUME NEW f, NEW v, Good(f, v), NEW p \in Players, NEW m, ReturnMail(p, m),
           SendBack(p, m)
    PROVE  \E g, w : Good(g, w)'
<1>1. session[p] = "online" /\ m \in DOMAIN box[p]
  BY DEF ReturnMail, CanOpen, IsOnline
<1>2. /\ Stands(f, queue, mails, Present, v) /\ GoodRows(v, mails) /\ IsQueue(queue)
      /\ Agree(v, p, gold[p], bag[p], box[p])
      /\ DOMAIN gold = Players /\ DOMAIN bag = Players /\ DOMAIN box = Players
      /\ mails \in Nat
  BY <1>1, GoodStands
<1>3. PICK old : old = box[p][m]
  OBVIOUS
<1>4. PICK new : new = NewMail(p, old.money, 0, old.item, "returned")
  OBVIOUS
<1>5. PICK o : o = mails + 1
  OBVIOUS
<1>6. PICK E : E = Ended(p, m)
  OBVIOUS
<1>7. PICK T : T = SendMailTo(o, new, old.from)
  OBVIOUS
<1>8. PICK bp : bp = [box EXCEPT ![p] = WithoutMail(@, m)]
  OBVIOUS
<1>9. /\ mails' = o
      /\ box' = WithMail(bp, o, new, old.from)
      /\ queue' = queue \o <<E, T>>
      /\ UNCHANGED <<session, loaded, gold, bag, request, returner, db>>
  BY <1>3, <1>4, <1>5, <1>6, <1>7, <1>8 DEF ReturnMail, SendBack, Commit, Ended
<1>10. old \in BoxMails
  BY <1>1, <1>2, <1>3 DEF Agree, AgreeBox, AgreeMail
<1>11. /\ old.from \in Players /\ old.money \in Nat /\ old.item \in Items \cup {Nobody}
  BY <1>10 DEF BoxMails
<1>12. new \in BoxMails /\ new.item = old.item
  BY <1>4, <1>11 DEF NewMail, BoxMails, Checks, Terms
<1>13. PICK e : e = AfterTransaction(E, v)
  OBVIOUS
<1>14. /\ E.key = p /\ Fits(E, v) /\ DOMAIN E.insMail = {}
       /\ Agree(e, p, gold[p], bag[p], WithoutMail(box[p], m))
       /\ (old.item # Nobody => /\ e.inv[old.item] = Nobody /\ old.item \in e.inst
                               /\ \A r \in e.mitems : r.item # old.item)
  BY <1>1, <1>2, <1>3, <1>6, <1>13, EndedAfter
<1>15. Stands(Ext(f, queue, E), Append(queue, E), mails, Present \ {p}, e)
  BY <1>1, <1>2, <1>13, <1>14, PlayerSaved
<1>16. GoodRows(e, mails)
  BY <1>15, StandsRows
<1>17. Free(e, o, new)
  BY <1>2, <1>5, <1>12, <1>14, <1>16 DEF Free, GoodRows
<1>18. PICK w : w = AfterTransaction(T, e)
  OBVIOUS
<1>19. PICK g : g = Ext(Ext(f, queue, E), Append(queue, E), T)
  OBVIOUS
<1>20. /\ Stands(g, Append(Append(queue, E), T), o, Present \ {p}, w)
       /\ AgreeMail(w, old.from, o, new)
  BY <1>2, <1>5, <1>7, <1>11, <1>12, <1>15, <1>17, <1>18, <1>19, MailSent
<1>21. Agree(w, p, gold[p], bag[p], WithoutMail(box[p], m))
  BY <1>2, <1>5, <1>7, <1>11, <1>12, <1>14, <1>16, <1>17, <1>18, MailSentAgrees
<1>22. queue' = Append(Append(queue, E), T)
  BY <1>2, <1>9, QueueConcat
<1>23. /\ DOMAIN bp = Players /\ bp[p] = WithoutMail(box[p], m)
       /\ \A x \in Players \ {p} : bp[x] = box[x]
  BY <1>2, <1>8
<1>24. DOMAIN box' = Players
  BY <1>9, <1>11, <1>23, WithMailAt
<1>25. Agree(w, p, gold'[p], bag'[p], box'[p])
  <2>1. gold' = gold /\ bag' = bag
    BY <1>9
  <2>2. CASE old.from = p
    <3>1. box'[p] = Over(Only(o, new), WithoutMail(box[p], m))
      BY <1>1, <1>9, <1>11, <1>23, <2>2, WithMailAt
    <3>2. AgreeBox(w, p, box'[p])
      BY <1>20, <1>21, <2>2, <3>1, BoxWith DEF Agree
    <3> QED
      BY <1>21, <2>1, <3>2 DEF Agree
  <2>3. CASE old.from # p
    <3>1. box'[p] = WithoutMail(box[p], m)
      BY <1>9, <1>11, <1>23, <2>3, WithMailAt
    <3> QED
      BY <1>21, <2>1, <3>1
  <2> QED
    BY <2>2, <2>3
<1>26. \A x \in Players \ {p} :
         \/ box'[x] = box[x]
         \/ x = old.from /\ session[x] = "online" /\ box'[x] = Over(Only(o, new), box[x])
  BY <1>9, <1>11, <1>23, WithMailAt
<1>27. Stands(g, queue', mails', Present \ {p}, w)
  BY <1>9, <1>20, <1>22
<1>28. /\ mails' \in Nat /\ DOMAIN gold' = Players /\ DOMAIN bag' = Players
       /\ UNCHANGED <<session, loaded, request, returner, db>>
       /\ \A x \in Players \ {p} : gold'[x] = gold[x] /\ bag'[x] = bag[x]
  BY <1>2, <1>5, <1>9
<1> QED
  BY <1>1, <1>20, <1>24, <1>25, <1>26, <1>27, <1>28, HandlerGood

\* The mail is dropped: its row ends.
LEMMA DropGood ==
    ASSUME NEW f, NEW v, Good(f, v), NEW p \in Players, NEW m, ReturnMail(p, m), Drop(p, m)
    PROVE  \E g, w : Good(g, w)'
<1>1. session[p] = "online" /\ m \in DOMAIN box[p]
  BY DEF ReturnMail, CanOpen, IsOnline
<1>2. /\ Stands(f, queue, mails, Present, v) /\ GoodRows(v, mails) /\ IsQueue(queue)
      /\ Agree(v, p, gold[p], bag[p], box[p])
      /\ DOMAIN gold = Players /\ DOMAIN bag = Players /\ DOMAIN box = Players
      /\ mails \in Nat
  BY <1>1, GoodStands
<1>3. PICK E : E = Ended(p, m)
  OBVIOUS
<1>4. /\ box' = [box EXCEPT ![p] = WithoutMail(@, m)] /\ mails' = mails
      /\ queue' = queue \o <<E>>
      /\ UNCHANGED <<session, loaded, gold, bag, request, returner, db>>
  BY <1>3 DEF ReturnMail, Drop, Commit, Ended
<1>5. PICK e : e = AfterTransaction(E, v)
  OBVIOUS
<1>6. /\ E.key = p /\ Fits(E, v) /\ DOMAIN E.insMail = {}
      /\ Agree(e, p, gold[p], bag[p], WithoutMail(box[p], m))
  BY <1>1, <1>2, <1>3, <1>5, EndedAfter
<1>7. Stands(Ext(f, queue, E), Append(queue, E), mails, Present \ {p}, e)
  BY <1>1, <1>2, <1>5, <1>6, PlayerSaved
<1>8. queue' = Append(queue, E)
  BY <1>2, <1>4, QueueConcat
<1>9. /\ DOMAIN box' = Players /\ box'[p] = WithoutMail(box[p], m)
      /\ \A x \in Players \ {p} : box'[x] = box[x]
  BY <1>2, <1>4
<1>10. Stands(Ext(f, queue, E), queue', mails', Present \ {p}, e)
  BY <1>4, <1>7, <1>8
<1>11. Agree(e, p, gold'[p], bag'[p], box'[p])
  BY <1>4, <1>6, <1>9
<1>12. /\ mails' \in Nat /\ DOMAIN gold' = Players /\ DOMAIN bag' = Players
       /\ UNCHANGED <<session, loaded, request, returner, db>>
       /\ \A x \in Players \ {p} : gold'[x] = gold[x] /\ bag'[x] = bag[x]
  BY <1>2, <1>4
<1>13. PICK to : to = p
  OBVIOUS
<1>14. \A y : to # p => AgreeMail(e, to, m, y)
  BY <1>13
<1> QED
  BY <1>1, <1>9, <1>10, <1>11, <1>12, <1>14, HandlerGood

LEMMA ReturnMailGood ==
    ASSUME NEW f, NEW v, Good(f, v), NEW p \in Players, NEW m, ReturnMail(p, m)
    PROVE  \E g, w : Good(g, w)'
<1>1. SendBack(p, m) \/ Drop(p, m)
  BY DEF ReturnMail
<1> QED
  BY <1>1, SendBackGood, DropGood

\* A box in which one mail m has changed.
LEMMA HeldChanged ==
    ASSUME NEW v, NEW p, NEW bx, AgreeBox(v, p, bx), NEW m \in DOMAIN bx,
           NEW y \in BoxMails, y.state = "changed", y.item \in {Nobody, bx[m].item}
    PROVE  Held(v, p, [bx EXCEPT ![m] = y])
<1> DEFINE b == [bx EXCEPT ![m] = y]
<1>1. SUFFICES ASSUME NEW x \in DOMAIN b PROVE HeldMail(v, p, x, b[x])
  BY DEF Held
<1>2. x \in DOMAIN bx /\ AgreeMail(v, p, x, bx[x]) /\ AgreeMail(v, p, m, bx[m])
  BY DEF AgreeBox
<1>3. CASE x = m
  <2>1. b[x] = y
    BY <1>3
  <2>2. HeldMail(v, p, m, y)
    BY <1>2 DEF HeldMail, AgreeMail
  <2> QED
    BY <1>3, <2>1, <2>2
<1>4. CASE x # m
  <2>1. b[x] = bx[x]
    BY <1>2, <1>4
  <2> QED
    BY <1>2, <2>1 DEF HeldMail, AgreeMail
<1> QED
  BY <1>3, <1>4

\* The fields of SaveMails, and of the transactions made of it.
LEMMA SaveMailsIs ==
    ASSUME NEW p, NEW b
    PROVE  LET s == SaveMails(b)
               t == [s EXCEPT !.key = p]
           IN  /\ DOMAIN s = {"key", "gold", "delInv", "insInv", "delInst", "insMail", "setMail", "backMail",
                  "endMail", "insItems", "delItems", "delItemsOf", "backItems"}
               /\ t.key = p /\ t.insInv = <<>> /\ t.delItems = {} /\ t.gold = <<>>
               /\ IsSave(t, p, b)
<1> DEFINE s == SaveMails(b)
<1>1. /\ s.gold = <<>> /\ s.delInv = {} /\ s.insMail = <<>> /\ s.backMail = <<>>
      /\ s.insItems = {} /\ s.backItems = <<>> /\ s.insInv = <<>> /\ s.delItems = {}
      /\ s.setMail = [m \in Marked(b, "changed") |->
                      [money |-> b[m].money, cod |-> b[m].cod, has |-> b[m].has,
                       checked |-> b[m].checked, expires |-> b[m].expires]]
      /\ s.delInst = {b[m].item : m \in Marked(b, "deleted")} \ {Nobody}
      /\ s.endMail = Marked(b, "deleted") /\ s.delItemsOf = Marked(b, "deleted")
      /\ DOMAIN s = {"key", "gold", "delInv", "insInv", "delInst", "insMail", "setMail", "backMail",
                  "endMail", "insItems", "delItems", "delItemsOf", "backItems"}
  BY DEF SaveMails, Nothing
<1> HIDE DEF s
<1>2. IsSave([s EXCEPT !.key = p], p, b)
  BY <1>1, Empty DEF IsSave
<1>3. LET t == [s EXCEPT !.key = p]
      IN  t.key = p /\ t.insInv = <<>> /\ t.delItems = {} /\ t.gold = <<>>
  BY <1>1
<1> QED
  BY <1>1, <1>2, <1>3 DEF s

\* The transaction of HandleMailTakeMoney.
LEMMA SaveGoldIs ==
    ASSUME NEW p, NEW b, NEW a
    PROVE  LET t == SaveGoldAndMails(p, b, a)
           IN  /\ DOMAIN t = {"key", "gold", "delInv", "insInv", "delInst", "insMail", "setMail", "backMail",
                  "endMail", "insItems", "delItems", "delItemsOf", "backItems"}
               /\ t.key = p /\ t.insInv = <<>> /\ t.delItems = {} /\ t.gold = Only(p, a)
               /\ IsSave(t, p, b)
<1>1. PICK s : s = SaveMails(b)
  OBVIOUS
<1>2. /\ DOMAIN s = {"key", "gold", "delInv", "insInv", "delInst", "insMail", "setMail", "backMail",
                  "endMail", "insItems", "delItems", "delItemsOf", "backItems"}
      /\ [s EXCEPT !.key = p].insInv = <<>> /\ [s EXCEPT !.key = p].delItems = {}
      /\ IsSave([s EXCEPT !.key = p], p, b)
  BY <1>1, SaveMailsIs
<1>3. PICK t : t = [s EXCEPT !.key = p, !.gold = Only(p, a)]
  OBVIOUS
<1>4. /\ DOMAIN t = {"key", "gold", "delInv", "insInv", "delInst", "insMail", "setMail", "backMail",
                  "endMail", "insItems", "delItems", "delItemsOf", "backItems"}
      /\ t.key = p /\ t.insInv = <<>> /\ t.delItems = {} /\ t.gold = Only(p, a)
  BY <1>2, <1>3
<1>5. IsSave(t, p, b)
  <2>1. DOMAIN t.gold \subseteq {p}
    BY <1>4 DEF Only
  <2>2. /\ t.delInv = [s EXCEPT !.key = p].delInv /\ t.insMail = [s EXCEPT !.key = p].insMail
        /\ t.backMail = [s EXCEPT !.key = p].backMail
        /\ t.insItems = [s EXCEPT !.key = p].insItems
        /\ t.backItems = [s EXCEPT !.key = p].backItems
        /\ t.setMail = [s EXCEPT !.key = p].setMail /\ t.delInst = [s EXCEPT !.key = p].delInst
        /\ t.endMail = [s EXCEPT !.key = p].endMail
        /\ t.delItemsOf = [s EXCEPT !.key = p].delItemsOf
    BY <1>2, <1>3
  <2> QED
    BY <1>2, <1>4, <2>1, <2>2 DEF IsSave
<1> QED
  BY <1>1, <1>3, <1>4, <1>5 DEF SaveGoldAndMails

\* The transaction of HandleMailTakeItem.
LEMMA SaveAllIs ==
    ASSUME NEW p, NEW b, NEW a, NEW i
    PROVE  LET t == SaveAll(p, b, a, i)
           IN  /\ t.key = p /\ t.insInv = Only(i, p) /\ t.delItems = {i} /\ t.gold = Only(p, a)
               /\ IsSave(t, p, b)
<1>1. PICK s : s = SaveGoldAndMails(p, b, a)
  OBVIOUS
<1>2. /\ DOMAIN s = {"key", "gold", "delInv", "insInv", "delInst", "insMail", "setMail", "backMail",
                  "endMail", "insItems", "delItems", "delItemsOf", "backItems"}
      /\ s.key = p /\ s.gold = Only(p, a) /\ IsSave(s, p, b)
  BY <1>1, SaveGoldIs
<1>3. PICK t : t = [s EXCEPT !.insInv = Only(i, p), !.delItems = {i}]
  OBVIOUS
<1>4. /\ t.key = p /\ t.insInv = Only(i, p) /\ t.delItems = {i} /\ t.gold = Only(p, a)
      /\ t.delInv = s.delInv /\ t.insMail = s.insMail /\ t.backMail = s.backMail
      /\ t.insItems = s.insItems /\ t.backItems = s.backItems
      /\ t.setMail = s.setMail /\ t.delInst = s.delInst
      /\ t.endMail = s.endMail /\ t.delItemsOf = s.delItemsOf
  BY <1>2, <1>3
<1>5. IsSave(t, p, b)
  BY <1>2, <1>4 DEF IsSave
<1> QED
  BY <1>1, <1>3, <1>4, <1>5 DEF SaveAll

\* Purse and box are saved in one transaction.
LEMMA HandleMailTakeMoneyGood ==
    ASSUME NEW f, NEW v, Good(f, v), NEW p \in Players, NEW m, HandleMailTakeMoney(p, m)
    PROVE  \E g, w : Good(g, w)'
<1>1. session[p] = "online" /\ m \in DOMAIN box[p]
  BY DEF HandleMailTakeMoney, CanOpen, IsOnline
<1>2. /\ Stands(f, queue, mails, Present, v) /\ GoodRows(v, mails) /\ IsQueue(queue)
      /\ Agree(v, p, gold[p], bag[p], box[p])
      /\ DOMAIN gold = Players /\ DOMAIN bag = Players /\ DOMAIN box = Players
      /\ mails \in Nat
  BY <1>1, GoodStands
<1>3. PICK y : y = MoneyTaken(box[p][m])
  OBVIOUS
<1>4. PICK b : b = [box[p] EXCEPT ![m] = y]
  OBVIOUS
<1>5. PICK a : a = ModifyMoney(gold[p], box[p][m].money)
  OBVIOUS
<1>6. PICK t : t = SaveGoldAndMails(p, b, a)
  OBVIOUS
<1>7. /\ gold' = [gold EXCEPT ![p] = a]
      /\ box' = [box EXCEPT ![p] = Saved(b)]
      /\ queue' = queue \o <<t>>
      /\ UNCHANGED <<session, loaded, bag, mails, request, returner, db>>
  BY <1>1, <1>3, <1>4, <1>5, <1>6 DEF HandleMailTakeMoney, Commit
<1>8. box[p][m] \in BoxMails
  BY <1>1, <1>2 DEF Agree, AgreeBox, AgreeMail
<1>9. y \in BoxMails /\ y.state = "changed" /\ y.item = box[p][m].item
  BY <1>3, <1>8 DEF MoneyTaken, BoxMails
<1>10. Held(v, p, b)
  BY <1>1, <1>2, <1>4, <1>9, HeldChanged DEF Agree
<1>11. /\ t.key = p /\ t.delItems = {} /\ t.gold = Only(p, a)
       /\ IsSave(t, p, b) /\ TakesOne(t, v, p, b)
  BY <1>6, SaveGoldIs DEF TakesOne
<1>12. Fits(t, v) /\ DOMAIN t.insMail = {}
  BY <1>2, <1>10, <1>11, SaveFits
<1>13. PICK w : w = AfterTransaction(t, v)
  OBVIOUS
<1>14. PICK g : g = Ext(f, queue, t)
  OBVIOUS
<1>15. Stands(g, Append(queue, t), mails, Present \ {p}, w)
  BY <1>1, <1>2, <1>11, <1>12, <1>13, <1>14, PlayerSaved
<1>16. AgreeBox(w, p, Saved(b))
  BY <1>2, <1>10, <1>11, <1>13, SaveBox
<1>17. AgreePurse(w, p, a, bag[p])
  <2>1. AgreePurse(v, p, gold[p], bag[p])
    BY <1>2 DEF Agree
  <2>2. AgreePurse(w, p, a, bag[p] \cup t.delItems)
    BY <1>2, <1>10, <1>11, <1>13, <2>1, SavePurse
  <2>3. bag[p] \cup t.delItems = bag[p]
    BY <1>11
  <2> QED
    BY <2>2, <2>3
<1>18. Agree(w, p, gold'[p], bag'[p], box'[p])
  <2>1. gold'[p] = a /\ bag'[p] = bag[p] /\ box'[p] = Saved(b)
    BY <1>2, <1>7
  <2> QED
    BY <1>16, <1>17, <2>1 DEF Agree
<1>19. queue' = Append(queue, t)
  BY <1>2, <1>7, QueueConcat
<1>20. Stands(g, queue', mails', Present \ {p}, w)
  BY <1>7, <1>15, <1>19
<1>21. /\ mails' \in Nat /\ DOMAIN gold' = Players /\ DOMAIN bag' = Players
       /\ DOMAIN box' = Players
       /\ UNCHANGED <<session, loaded, request, returner, db>>
       /\ \A x \in Players \ {p} : gold'[x] = gold[x] /\ bag'[x] = bag[x]
       /\ \A x \in Players \ {p} : box'[x] = box[x]
  BY <1>2, <1>7
<1>22. p # p => AgreeMail(w, p, m, y)
  OBVIOUS
<1>23. \A x \in Players \ {p} :
             \/ box'[x] = box[x]
             \/ x = p /\ session[x] = "online" /\ box'[x] = Over(Only(m, y), box[x])
  BY <1>21
<1> QED
  BY <1>1, <1>18, <1>20, <1>21, <1>22, <1>23, HandlerGood

\* SaveAll, once the payment is on its way.
LEMMA SaveAllStands ==
    ASSUME NEW f, NEW q, NEW n, NEW W, NEW v, Stands(f, q, n, W, v),
           NEW p \in Players, session[p] = "online",
           NEW g, NEW bg, NEW bx, Agree(v, p, g, bg, bx), NEW m \in DOMAIN bx,
           NEW i, i = bx[m].item, i # Nobody,
           NEW b, b = [bx EXCEPT ![m] = ItemTaken(@)], NEW a, NEW t, t = SaveAll(p, b, a, i)
    PROVE  /\ Stands(Ext(f, q, t), Append(q, t), n, W \ {p}, AfterTransaction(t, v))
           /\ Agree(AfterTransaction(t, v), p, a, bg \cup {i}, Saved(b))
           /\ \A x, k, z : x # p /\ AgreeMail(v, x, k, z) => AgreeMail(AfterTransaction(t, v), x, k, z)
<1>1. GoodRows(v, n)
  BY StandsRows
<1>2. AgreeMail(v, p, m, bx[m]) /\ bx[m] \in BoxMails
  BY DEF Agree, AgreeBox, AgreeMail
<1>3. PICK y : y = ItemTaken(bx[m])
  OBVIOUS
<1>4. y \in BoxMails /\ y.state = "changed" /\ y.item = Nobody
  BY <1>2, <1>3 DEF ItemTaken, BoxMails
<1>5. b = [bx EXCEPT ![m] = y]
  BY <1>3
<1>6. Held(v, p, b)
  <2>1. AgreeBox(v, p, bx)
    BY DEF Agree
  <2>2. Held(v, p, [bx EXCEPT ![m] = y])
    BY <1>4, <2>1, HeldChanged
  <2> QED
    BY <1>5, <2>2
<1>7. /\ t.key = p /\ t.delItems = {i} /\ t.gold = Only(p, a) /\ t.insInv = Only(i, p)
      /\ IsSave(t, p, b)
  BY SaveAllIs
<1>8. TakesOne(t, v, p, b)
  <2>1. i \in Items /\ [mail |-> m, item |-> i, to |-> p] \in v.mitems
    BY <1>2 DEF AgreeMail, BoxMails
  <2>2. m \in Marked(b, "changed") /\ b[m].item = Nobody
    BY <1>4, <1>5 DEF Marked
  <2> QED
    BY <1>7, <2>1, <2>2 DEF TakesOne
<1>9. Fits(t, v) /\ DOMAIN t.insMail = {}
  BY <1>1, <1>6, <1>7, <1>8, SaveFits
<1>10. Stands(Ext(f, q, t), Append(q, t), n, W \ {p}, AfterTransaction(t, v))
  <2>1. t.key \in Players /\ session[t.key] = "online"
    BY <1>7
  <2>2. Stands(Ext(f, q, t), Append(q, t), n, W \ {t.key}, AfterTransaction(t, v))
    BY <1>9, <2>1, PlayerSaved
  <2> QED
    BY <1>7, <2>2
<1>11. AgreeBox(AfterTransaction(t, v), p, Saved(b))
  BY <1>1, <1>6, <1>7, <1>8, SaveBox
<1>12. AgreePurse(AfterTransaction(t, v), p, a, bg \cup {i})
  <2>1. AgreePurse(v, p, g, bg)
    BY DEF Agree
  <2>2. AgreePurse(AfterTransaction(t, v), p, a, bg \cup t.delItems)
    BY <1>1, <1>6, <1>7, <1>8, <2>1, SavePurse
  <2> QED
    BY <1>7, <2>2
<1>13. ASSUME NEW x, NEW k, NEW z, x # p, AgreeMail(v, x, k, z)
       PROVE  AgreeMail(AfterTransaction(t, v), x, k, z)
  <2>1. t.key \in Players /\ x # t.key
    BY <1>7, <1>13
  <2> QED
    BY <1>1, <1>9, <1>13, <2>1, OthersMail
<1>14. Agree(AfterTransaction(t, v), p, a, bg \cup {i}, Saved(b))
  BY <1>11, <1>12 DEF Agree
<1> QED
  BY <1>10, <1>13, <1>14

\* The payment is stored, then inventory, purse and box in one transaction.
LEMMA HandleMailTakeItemGood ==
    ASSUME NEW f, NEW v, Good(f, v), NEW p \in Players, NEW m, HandleMailTakeItem(p, m)
    PROVE  \E g, w : Good(g, w)'
<1>1. session[p] = "online" /\ m \in DOMAIN box[p]
  BY DEF HandleMailTakeItem, CanOpen, IsOnline
<1>2. /\ Stands(f, queue, mails, Present, v) /\ GoodRows(v, mails) /\ IsQueue(queue)
      /\ Agree(v, p, gold[p], bag[p], box[p])
      /\ DOMAIN gold = Players /\ DOMAIN bag = Players /\ DOMAIN box = Players
      /\ mails \in Nat
  BY <1>1, GoodStands
<1>3. PICK old : old = box[p][m]
  OBVIOUS
<1>4. PICK i : i = old.item
  OBVIOUS
<1>5. PICK b : b = [box[p] EXCEPT ![m] = ItemTaken(@)]
  OBVIOUS
<1>6. PICK a : a = gold[p] - old.cod
  OBVIOUS
<1>7. PICK o : o = mails + 1
  OBVIOUS
<1>8. PICK payment : payment = NewMail(p, old.cod, 0, Nobody, "payment")
  OBVIOUS
<1>9. PICK S : S = SendMailTo(o, payment, old.from)
  OBVIOUS
<1>10. PICK t : t = SaveAll(p, b, a, i)
  OBVIOUS
<1>11. old \in BoxMails
  BY <1>1, <1>2, <1>3 DEF Agree, AgreeBox, AgreeMail
<1>12. /\ old.from \in Players /\ old.cod \in Nat
  BY <1>11 DEF BoxMails
<1>13. payment \in BoxMails /\ payment.item = Nobody
  BY <1>8, <1>12 DEF NewMail, BoxMails, Checks, Terms
<1>14. /\ i # Nobody
       /\ mails' = IF old.cod > 0 THEN o ELSE mails
       /\ gold' = [gold EXCEPT ![p] = a]
       /\ bag' = [bag EXCEPT ![p] = @ \cup {i}]
       /\ box' = [(IF old.cod > 0 THEN WithMail(box, o, payment, old.from) ELSE box)
                     EXCEPT ![p] = Saved(b)]
       /\ queue' = queue \o ((IF old.cod > 0 THEN <<S>> ELSE <<>>) \o <<t>>)
       /\ UNCHANGED <<session, loaded, request, returner, db>>
  BY <1>3, <1>4, <1>5, <1>6, <1>7, <1>8, <1>9, <1>10 DEF HandleMailTakeItem, Commit
<1>15. /\ mails' \in Nat /\ DOMAIN gold' = Players /\ DOMAIN bag' = Players
       /\ UNCHANGED <<session, loaded, request, returner, db>>
       /\ gold'[p] = a /\ bag'[p] = bag[p] \cup {i}
       /\ \A x \in Players \ {p} : gold'[x] = gold[x] /\ bag'[x] = bag[x]
  BY <1>2, <1>7, <1>14
<1>16. CASE old.cod > 0
  <2>1. Free(v, o, payment)
    <3>1. o \notin 1 .. mails
      BY <1>2, <1>7
    <3> QED
      BY <1>2, <1>13, <3>1 DEF Free, GoodRows
  <2>2. PICK v1 : v1 = AfterTransaction(S, v)
    OBVIOUS
  <2>3. PICK f1 : f1 = Ext(f, queue, S)
    OBVIOUS
  <2>4. PICK q1 : q1 = Append(queue, S)
    OBVIOUS
  <2>5. Stands(f1, q1, o, Present, v1) /\ AgreeMail(v1, old.from, o, payment)
    BY <1>2, <1>7, <1>9, <1>12, <1>13, <2>1, <2>2, <2>3, <2>4, MailSent
  <2>6. Agree(v1, p, gold[p], bag[p], box[p])
    BY <1>2, <1>7, <1>9, <1>12, <1>13, <2>1, <2>2, MailSentAgrees
  <2>7. PICK w : w = AfterTransaction(t, v1)
    OBVIOUS
  <2>8. PICK g : g = Ext(f1, q1, t)
    OBVIOUS
  <2>9. /\ Stands(g, Append(q1, t), o, Present \ {p}, w)
        /\ Agree(w, p, a, bag[p] \cup {i}, Saved(b))
        /\ \A x, k, z : x # p /\ AgreeMail(v1, x, k, z) => AgreeMail(w, x, k, z)
    <3>1. i = box[p][m].item /\ i # Nobody
      BY <1>3, <1>4, <1>14
    <3> QED
      BY <1>1, <1>5, <1>10, <2>5, <2>6, <2>7, <2>8, <3>1, SaveAllStands
  <2>10. queue' = Append(q1, t)
    <3>1. queue' = queue \o (<<S>> \o <<t>>)
      BY <1>14, <1>16
    <3> QED
      BY <1>2, <2>4, <3>1, QueueConcat
  <2>11. Stands(g, queue', mails', Present \ {p}, w)
    BY <1>14, <1>16, <2>9, <2>10
  <2>12. old.from # p => AgreeMail(w, old.from, o, payment)
    BY <2>5, <2>9
  <2>13. PICK bw : bw = WithMail(box, o, payment, old.from)
    OBVIOUS
  <2>14. DOMAIN bw = Players
    BY <1>2, <1>12, <2>13, WithMailAt
  <2>15. box' = [bw EXCEPT ![p] = Saved(b)]
    BY <1>14, <1>16, <2>13
  <2>16. /\ DOMAIN box' = Players /\ box'[p] = Saved(b)
         /\ \A x \in Players \ {p} : box'[x] = bw[x]
    BY <2>14, <2>15
  <2>17. \A x \in Players \ {p} :
             \/ box'[x] = box[x]
             \/ x = old.from /\ session[x] = "online" /\ box'[x] = Over(Only(o, payment), box[x])
    BY <1>2, <1>12, <2>13, <2>16, WithMailAt
  <2>18. Agree(w, p, gold'[p], bag'[p], box'[p])
    BY <1>15, <2>9, <2>16
  <2>19. DOMAIN box' = Players
    BY <2>16
  <2> QED
    BY <1>1, <1>15, <2>11, <2>12, <2>17, <2>18, <2>19, HandlerGood
<1>17. CASE ~(old.cod > 0)
  <2>1. PICK w : w = AfterTransaction(t, v)
    OBVIOUS
  <2>2. PICK g : g = Ext(f, queue, t)
    OBVIOUS
  <2>3. /\ Stands(g, Append(queue, t), mails, Present \ {p}, w)
        /\ Agree(w, p, a, bag[p] \cup {i}, Saved(b))
    <3>1. i = box[p][m].item /\ i # Nobody
      BY <1>3, <1>4, <1>14
    <3> QED
      BY <1>1, <1>2, <1>5, <1>10, <2>1, <2>2, <3>1, SaveAllStands
  <2>4. queue' = Append(queue, t)
    <3>1. (IF old.cod > 0 THEN <<S>> ELSE <<>>) = <<>>
      BY <1>17
    <3>2. <<>> \o <<t>> = <<t>>
      OBVIOUS
    <3>3. queue' = queue \o <<t>>
      BY <1>14, <3>1, <3>2
    <3> QED
      BY <1>2, <3>3, QueueConcat
  <2>5. Stands(g, queue', mails', Present \ {p}, w)
    BY <1>14, <1>17, <2>3, <2>4
  <2>6. /\ DOMAIN box' = Players /\ box'[p] = Saved(b)
        /\ \A x \in Players \ {p} : box'[x] = box[x]
    BY <1>2, <1>14, <1>17
  <2>7. Agree(w, p, gold'[p], bag'[p], box'[p])
    BY <1>15, <2>3, <2>6
  <2>8. p # p => AgreeMail(w, p, o, payment)
    OBVIOUS
  <2>9. \A x \in Players \ {p} :
             \/ box'[x] = box[x]
             \/ x = p /\ session[x] = "online" /\ box'[x] = Over(Only(o, payment), box[x])
    BY <2>6
  <2> QED
    BY <1>1, <1>15, <2>5, <2>6, <2>7, <2>8, <2>9, HandlerGood
<1> QED
  BY <1>16, <1>17

\* The transactions of a logout.
LEMMA LogoutSteps ==
    ASSUME NEW f, NEW v, Good(f, v), NEW p \in Players, session[p] = "online"
    PROVE  \E g, w : Stands(g, queue \o SaveToDB(p), mails, Present \ {p}, w)
<1>1. /\ Stands(f, queue, mails, Present, v) /\ GoodRows(v, mails) /\ IsQueue(queue)
      /\ Agree(v, p, gold[p], bag[p], box[p])
  BY GoodStands
<1>2. PICK t : t = GoldSaved(p, gold[p])
  OBVIOUS
<1>3. PICK v1 : v1 = AfterTransaction(t, v)
  OBVIOUS
<1>4. t.key = p /\ Fits(t, v) /\ DOMAIN t.insMail = {}
  BY <1>1, <1>2, GoldSavedFits
<1>5. PICK f1 : f1 = Ext(f, queue, t)
  OBVIOUS
<1>6. PICK q1 : q1 = Append(queue, t)
  OBVIOUS
<1>7. Stands(f1, q1, mails, Present \ {p}, v1)
  BY <1>1, <1>3, <1>4, <1>5, <1>6, PlayerSaved
<1>8. CASE updated[p]
  <2>1. PICK b : b = box[p]
    OBVIOUS
  <2>2. PICK u : u = [SaveMails(b) EXCEPT !.key = p]
    OBVIOUS
  <2>3. Agree(v1, p, gold[p], bag[p], b)
    BY <1>1, <1>2, <1>3, <2>1, GoldSavedAfter
  <2>4. Held(v1, p, b)
    BY <2>3 DEF Agree, AgreeBox, AgreeMail, Held, HeldMail
  <2>5. u.key = p /\ IsSave(u, p, b) /\ TakesOne(u, v1, p, b)
    BY <2>2, SaveMailsIs DEF TakesOne
  <2>6. GoodRows(v1, mails)
    BY <1>7, StandsRows
  <2>7. Fits(u, v1) /\ DOMAIN u.insMail = {}
    BY <2>4, <2>5, <2>6, SaveFits
  <2>8. Stands(Ext(f1, q1, u), Append(q1, u), mails, (Present \ {p}) \ {p}, AfterTransaction(u, v1))
    BY <1>7, <2>5, <2>7, PlayerSaved
  <2>9. (Present \ {p}) \ {p} = Present \ {p}
    OBVIOUS
  <2>10. queue \o SaveToDB(p) = Append(q1, u)
    <3>1. SaveToDB(p) = <<t>> \o <<u>>
      BY <1>2, <1>8, <2>1, <2>2 DEF SaveToDB
    <3> QED
      BY <1>1, <1>6, <3>1, QueueConcat
  <2> QED
    BY <2>8, <2>9, <2>10
<1>9. CASE ~updated[p]
  <2>1. SaveToDB(p) = <<t>> \o <<>>
    BY <1>2, <1>9 DEF SaveToDB
  <2>2. <<t>> \o <<>> = <<t>>
    OBVIOUS
  <2>3. queue \o SaveToDB(p) = q1
    BY <1>1, <1>6, <2>1, <2>2, QueueConcat
  <2> QED
    BY <1>7, <2>3
<1> QED
  BY <1>8, <1>9

\* The others see nothing of a session that ends, begins or reads.
LEMMA OthersNow ==
    ASSUME NEW w, NEW x, AgreeNow(w, x), session'[x] = session[x],
           gold'[x] = gold[x], bag'[x] = bag[x], box'[x] = box[x], loaded'[x] = loaded[x]
    PROVE  AgreeNow(w, x)'
BY DEF AgreeNow

\* A logout saves what the memory says, and drops it.
LEMMA LogoutGood ==
    ASSUME NEW f, NEW v, Good(f, v), NEW p \in Players, Logout(p)
    PROVE  \E g, w : Good(g, w)'
<1>1. /\ session[p] = "online" /\ session' = [session EXCEPT ![p] = "offline"]
      /\ queue' = queue \o SaveToDB(p)
      /\ gold' = [gold EXCEPT ![p] = 0]
      /\ bag' = [bag EXCEPT ![p] = {}]
      /\ box' = [box EXCEPT ![p] = NoMails]
      /\ UNCHANGED <<loaded, mails, request, returner, db>>
  BY DEF Logout, IsOnline, Commit
<1>2. /\ Shapes /\ RequestsOK /\ MemoryOK(v)
  BY GoodSit
<1>3. PICK g, w : Stands(g, queue', mails, Present \ {p}, w)
  BY <1>1, LogoutSteps
<1>4. /\ DOMAIN gold = Players /\ DOMAIN bag = Players /\ DOMAIN box = Players
      /\ session \in [Players -> {"offline", "loading", "online"}]
  BY <1>2 DEF Shapes
<1>5. /\ session'[p] = "offline" /\ bag'[p] = {} /\ box'[p] = NoMails
      /\ \A x \in Players \ {p} : /\ session'[x] = session[x] /\ gold'[x] = gold[x]
                                  /\ bag'[x] = bag[x] /\ box'[x] = box[x]
                                  /\ loaded'[x] = loaded[x]
  BY <1>1, <1>4
<1>6. Shapes' /\ RequestsOK'
  <2>1. /\ DOMAIN gold' = Players /\ DOMAIN bag' = Players /\ DOMAIN box' = Players
        /\ session' \in [Players -> {"offline", "loading", "online"}]
    BY <1>1, <1>4
  <2> QED
    BY <1>1, <1>2, <2>1 DEF Shapes, RequestsOK
<1>7. MemoryOK(w)'
  <2>1. ASSUME NEW x \in Players, session'[x] # "offline" PROVE AgreeNow(w, x)'
    <3>1. x # p /\ session[x] # "offline"
      BY <1>5, <2>1
    <3>2. AgreeNow(w, x)
      BY <1>3, <3>1 DEF Stands, Sit, Present
    <3> QED
      BY <1>5, <3>1, <3>2, OthersNow
  <2>2. ASSUME NEW x \in Players, session'[x] # "online"
        PROVE  bag'[x] = {} /\ DOMAIN box'[x] = {}
    <3>1. CASE x = p
      BY <1>5, <3>1, Empty DEF NoMails
    <3>2. CASE x # p
      BY <1>2, <1>5, <2>2, <3>2 DEF MemoryOK
    <3> QED
      BY <3>1, <3>2
  <2> QED
    BY <2>1, <2>2 DEF MemoryOK
<1>8. ReturnerOK(g, queue, w)'
  <2>1. ReturnerOK(g, queue', w)
    BY <1>3 DEF Stands
  <2>2. \A x \in Players : session[x] = "offline" => session'[x] = "offline"
    BY <1>5
  <2>3. returner' = returner
    BY <1>1
  <2> QED
    BY <2>1, <2>2, <2>3 DEF ReturnerOK, MailRows
<1>9. History(g, queue', db', mails') /\ Dooms(queue', g, {}) /\ w = g[Len(queue')]
  BY <1>1, <1>3 DEF Stands, Sit
<1>10. Good(g, w)'
  BY <1>6, <1>7, <1>8, <1>9 DEF Good
<1> QED
  BY <1>10

\* What a login reads of a mail agrees with the rows it reads.
LEMMA LoadedAgrees ==
    ASSUME NEW n, GoodRows(db, n), NEW p \in Players, NEW m \in DOMAIN db.mail,
           db.mail[m].to = p, ~db.mail[m].deleted
    PROVE  AgreeMail(db, p, m, LoadedMail(p, m))
<1> DEFINE here == {i \in db.inst : [mail |-> m, item |-> i, to |-> p] \in db.mitems}
<1>1. PICK item : item = IF here = {} THEN Nobody ELSE CHOOSE i \in here : TRUE
  OBVIOUS
<1>2. item = Nobody \/ item \in here
  BY <1>1
<1>3. PICK row : row = db.mail[m]
  OBVIOUS
<1>4. row \in MailRows
  BY <1>3 DEF GoodRows
<1>5. PICK b : b = LoadedMail(p, m)
  OBVIOUS
<1>6. b = [from |-> row.from, money |-> row.money, cod |-> row.cod, item |-> item,
           has |-> row.has \/ item # Nobody, checked |-> row.checked,
           expires |-> row.expires, state |-> "unchanged"]
  BY <1>1, <1>3, <1>5 DEF LoadedMail
<1>7. item \in Items \cup {Nobody}
  BY <1>2 DEF GoodRows
<1>8. b \in BoxMails
  BY <1>4, <1>6, <1>7 DEF MailRows, BoxMails
<1>9. b.item = item /\ b.money = row.money /\ b.cod = row.cod
  BY <1>6
<1>10. AgreeMail(db, p, m, b)
  BY <1>2, <1>3, <1>8, <1>9 DEF AgreeMail
<1> QED
  BY <1>5, <1>10

\* Nothing that waits in the queue can change what p has read.
LEMMA LoginInOrder ==
    ASSUME IsQueue(queue), NEW p, \A t \in Queued : t.key # p, ~ReturnsQueued(p)
    PROVE  NotBehind(queue, db, p)
<1>1. \A k \in 1 .. Len(queue) : queue[k] \in Queued
  BY DEF Queued, ToSet, IsQueue
<1>2. \A k \in 1 .. Len(queue), m \in DOMAIN db.mail :
         queue[k].key = 0 /\ db.mail[m].to = p => ~Touches(queue[k], m)
  BY <1>1 DEF ReturnsQueued
<1> QED
  BY <1>1, <1>2 DEF NotBehind

\* A login with nothing in the queue about its player reads what the last rows say.
LEMMA LoginAgrees ==
    ASSUME NEW f, NEW v, Good(f, v), NEW p \in Players,
           \A t \in Queued : t.key # p, ~ReturnsQueued(p)
    PROVE  Agree(v, p, LoadRows(p).gold, LoadRows(p).bag, LoadRows(p).box)
<1>1. /\ History(f, queue, db, mails) /\ Dooms(queue, f, {}) /\ v = f[Len(queue)]
      /\ IsQueue(queue) /\ Len(queue) \in Nat
  BY QueueAppend DEF Good, History
<1>2. GoodRows(db, mails)
  BY <1>1 DEF History
<1>3. NotBehind(queue, db, p)
  BY <1>1, LoginInOrder
<1>4. PICK rows : rows = LoadRows(p)
  OBVIOUS
<1>5. /\ rows.gold = db.gold[p] /\ rows.bag = {i \in db.inst : db.inv[i] = p}
      /\ rows.box = [m \in {n \in DOMAIN db.mail : db.mail[n].to = p /\ ~db.mail[n].deleted}
                       |-> LoadedMail(p, m)]
  BY <1>4 DEF LoadRows
<1>6. AgreePurse(db, p, rows.gold, rows.bag)
  BY <1>2, <1>5 DEF AgreePurse, GoodRows
<1>7. AgreePurse(v, p, rows.gold, rows.bag)
  BY <1>1, <1>3, <1>6, BehindPurse DEF NotBehind
<1>8. AgreeBox(v, p, rows.box)
  <2>1. ASSUME NEW m \in DOMAIN rows.box PROVE AgreeMail(v, p, m, rows.box[m])
    <3>1. /\ m \in DOMAIN db.mail /\ db.mail[m].to = p /\ ~db.mail[m].deleted
          /\ rows.box[m] = LoadedMail(p, m)
      BY <1>5, <2>1
    <3>2. AgreeMail(db, p, m, LoadedMail(p, m))
      BY <1>2, <3>1, LoadedAgrees
    <3>3. KeptMail(m, db, v)
      BY <1>1, <1>3, <3>1, BehindMail
    <3> QED
      BY <3>1, <3>2, <3>3, KeptAgrees
  <2> QED
    BY <2>1 DEF AgreeBox
<1> QED
  BY <1>4, <1>7, <1>8 DEF Agree

\* The login's query: either it reads what the last rows say, or it is exposed.
LEMMA LoginReadGood ==
    ASSUME NEW f, NEW v, Good(f, v), NEW p \in Players, LoginRead(p), LoginsInOrder'
    PROVE  \E g, w : Good(g, w)'
<1>1. /\ session[p] = "offline" /\ session' = [session EXCEPT ![p] = "loading"]
      /\ loaded' = [loaded EXCEPT ![p] = LoadRows(p)]
      /\ UNCHANGED <<gold, bag, box, mails, request, db, queue>>
      /\ returner' = IF returner.stage # "idle" /\ returner.row.to = p
                       THEN [returner EXCEPT !.met = TRUE] ELSE returner
  BY DEF LoginRead, memory
<1>2. (\A t \in Queued : t.key # p) /\ ~ReturnsQueued(p)
  BY DEF LoginRead, LoginsInOrder
<1>3. /\ Shapes /\ RequestsOK /\ MemoryOK(v) /\ ReturnerOK(f, queue, v)
  BY GoodSit
<1>4. PICK rows : rows = LoadRows(p)
  OBVIOUS
<1>5. Agree(v, p, rows.gold, rows.bag, rows.box)
  BY <1>2, <1>4, LoginAgrees
<1>6. /\ DOMAIN loaded = Players /\ session \in [Players -> {"offline", "loading", "online"}]
      /\ returner \in [stage : {"idle", "listed", "asked", "found"}, mail : Nat,
                     row : MailRows \cup {Nobody}, item : Items \cup {Nobody},
                     met : BOOLEAN]
  BY <1>3 DEF Shapes
<1>7. /\ session'[p] = "loading" /\ loaded'[p] = rows
      /\ \A x \in Players \ {p} : /\ session'[x] = session[x] /\ gold'[x] = gold[x]
                                  /\ bag'[x] = bag[x] /\ box'[x] = box[x]
                                  /\ loaded'[x] = loaded[x]
  BY <1>1, <1>4, <1>6
<1>8. Shapes' /\ RequestsOK'
  <2>1. /\ DOMAIN loaded' = Players
        /\ session' \in [Players -> {"offline", "loading", "online"}]
    BY <1>1, <1>6
  <2>2. returner' \in [stage : {"idle", "listed", "asked", "found"}, mail : Nat,
                     row : MailRows \cup {Nobody}, item : Items \cup {Nobody},
                     met : BOOLEAN]
    BY <1>1, <1>6
  <2>3. returner'.stage \in {"idle", "listed", "asked", "found"}
    BY <2>2
  <2> QED
    BY <1>1, <1>3, <2>1, <2>2, <2>3 DEF Shapes, RequestsOK
<1>9. MemoryOK(v)'
  <2>1. ASSUME NEW x \in Players, session'[x] # "offline" PROVE AgreeNow(v, x)'
    <3>1. CASE x = p
      BY <1>5, <1>7, <3>1 DEF AgreeNow
    <3>2. CASE x # p
      <4>1. AgreeNow(v, x)
        BY <1>3, <1>7, <2>1, <3>2 DEF MemoryOK
      <4> QED
        BY <1>7, <3>2, <4>1, OthersNow
    <3> QED
      BY <3>1, <3>2
  <2>2. ASSUME NEW x \in Players, session'[x] # "online"
        PROVE  bag'[x] = {} /\ DOMAIN box'[x] = {}
    <3>1. session[x] # "online" /\ bag' = bag /\ box' = box
      BY <1>1, <1>7, <2>2
    <3> QED
      BY <1>3, <3>1 DEF MemoryOK
  <2> QED
    BY <2>1, <2>2 DEF MemoryOK
<1>10. ReturnerOK(f, queue, v)'
  <2>1. SUFFICES ASSUME returner'.stage # "idle", ~returner'.met
                 PROVE  /\ returner'.row \in MailRows
                        /\ session'[returner'.row.to] = "offline"
                        /\ Untouched(f, queue', returner'.mail, returner'.row)
                        /\ returner'.stage = "found" /\ returner'.item # Nobody =>
                             \E r \in v.mitems : r.mail = returner'.mail /\ r.item = returner'.item
    BY DEF ReturnerOK
  <2>2. returner' = returner /\ ~(returner.stage # "idle" /\ returner.row.to = p)
    BY <1>1, <1>6, <2>1
  <2>3. /\ returner.row \in MailRows
        /\ session[returner.row.to] = "offline"
        /\ Untouched(f, queue, returner.mail, returner.row)
        /\ (returner.stage = "found" /\ returner.item # Nobody =>
             \E r \in v.mitems : r.mail = returner.mail /\ r.item = returner.item)
    BY <1>3, <2>1, <2>2 DEF ReturnerOK
  <2>4. returner.row.to \in Players \ {p}
    BY <2>1, <2>2, <2>3 DEF MailRows
  <2> QED
    BY <1>1, <1>7, <2>2, <2>3, <2>4
<1>11. History(f, queue', db', mails') /\ Dooms(queue', f, {}) /\ v = f[Len(queue')]
  BY <1>1 DEF Good
<1>12. Good(f, v)'
  BY <1>8, <1>9, <1>10, <1>11 DEF Good
<1> QED
  BY <1>12

\* What was read becomes the memory.
LEMMA LoginFinishGood ==
    ASSUME NEW f, NEW v, Good(f, v), NEW p \in Players, LoginFinish(p)
    PROVE  \E g, w : Good(g, w)'
<1>1. /\ session[p] = "loading" /\ session' = [session EXCEPT ![p] = "online"]
      /\ gold' = [gold EXCEPT ![p] = loaded[p].gold]
      /\ bag' = [bag EXCEPT ![p] = loaded[p].bag]
      /\ box' = [box EXCEPT ![p] = loaded[p].box]
      /\ loaded' = [loaded EXCEPT ![p] = EmptyRows(p)]
      /\ UNCHANGED <<mails, request, returner, db, queue>>
  BY DEF LoginFinish
<1>2. /\ Shapes /\ RequestsOK /\ MemoryOK(v) /\ ReturnerOK(f, queue, v)
  BY GoodSit
<1>3. Agree(v, p, loaded[p].gold, loaded[p].bag, loaded[p].box)
  BY <1>1, <1>2 DEF MemoryOK, AgreeNow
<1>4. /\ DOMAIN gold = Players /\ DOMAIN bag = Players /\ DOMAIN box = Players
      /\ DOMAIN loaded = Players /\ session \in [Players -> {"offline", "loading", "online"}]
  BY <1>2 DEF Shapes
<1>5. /\ session'[p] = "online" /\ gold'[p] = loaded[p].gold /\ bag'[p] = loaded[p].bag
      /\ box'[p] = loaded[p].box
      /\ \A x \in Players \ {p} : /\ session'[x] = session[x] /\ gold'[x] = gold[x]
                                  /\ bag'[x] = bag[x] /\ box'[x] = box[x]
                                  /\ loaded'[x] = loaded[x]
  BY <1>1, <1>4
<1>6. Shapes' /\ RequestsOK'
  <2>1. /\ DOMAIN gold' = Players /\ DOMAIN bag' = Players /\ DOMAIN box' = Players
        /\ DOMAIN loaded' = Players
        /\ session' \in [Players -> {"offline", "loading", "online"}]
    BY <1>1, <1>4
  <2> QED
    BY <1>1, <1>2, <2>1 DEF Shapes, RequestsOK
<1>7. MemoryOK(v)'
  <2>1. ASSUME NEW x \in Players, session'[x] # "offline" PROVE AgreeNow(v, x)'
    <3>1. CASE x = p
      BY <1>3, <1>5, <3>1 DEF AgreeNow
    <3>2. CASE x # p
      <4>1. AgreeNow(v, x)
        BY <1>2, <1>5, <2>1, <3>2 DEF MemoryOK
      <4> QED
        BY <1>5, <3>2, <4>1, OthersNow
    <3> QED
      BY <3>1, <3>2
  <2>2. ASSUME NEW x \in Players, session'[x] # "online"
        PROVE  bag'[x] = {} /\ DOMAIN box'[x] = {}
    BY <1>2, <1>5, <2>2 DEF MemoryOK
  <2> QED
    BY <2>1, <2>2 DEF MemoryOK
<1>8. ReturnerOK(f, queue, v)'
  <2>1. \A x \in Players : session[x] = "offline" => session'[x] = "offline"
    BY <1>1, <1>5
  <2>2. returner' = returner /\ queue' = queue
    BY <1>1
  <2> QED
    BY <1>2, <2>1, <2>2 DEF ReturnerOK, MailRows
<1>9. History(f, queue', db', mails') /\ Dooms(queue', f, {}) /\ v = f[Len(queue')]
  BY <1>1 DEF Good
<1>10. Good(f, v)'
  BY <1>6, <1>7, <1>8, <1>9 DEF Good
<1> QED
  BY <1>10

\* The rows alone: nothing waits and nobody is in the world.
LEMMA CrashGood ==
    ASSUME NEW f, NEW v, Good(f, v), Crash
    PROVE  \E g, w : Good(g, w)'
<1>1. /\ session' = [p \in Players |-> "offline"]
      /\ loaded' = [p \in Players |-> EmptyRows(p)]
      /\ gold' = [p \in Players |-> 0] /\ bag' = [p \in Players |-> {}]
      /\ box' = [p \in Players |-> NoMails]
      /\ request' = [p \in Players |-> NoRequest] /\ returner' = Idle
      /\ queue' = <<>>
      /\ mails' = mails /\ db' = db
  BY DEF Crash
<1>2. /\ Shapes /\ IsQueue(queue) /\ GoodRows(db, mails)
  <2>1. IsQueue(queue) /\ Shapes
    BY DEF Good, History
  <2>2. Len(queue) \in Nat
    BY <2>1, QueueAppend
  <2> QED
    BY <2>1, <2>2 DEF Good, History
<1>3. PICK g : g = [n \in 0 .. 0 |-> db]
  OBVIOUS
<1>4. Len(<<>>) = 0 /\ IsQueue(<<>>)
  BY DEF IsQueue
<1>5. History(g, queue', db', mails')
  BY <1>1, <1>2, <1>3, <1>4 DEF History
<1>6. Dooms(queue', g, {})
  BY <1>1, <1>4 DEF Dooms
<1>7. PICK w : w = g[Len(queue')]
  OBVIOUS
<1>8. MemoryOK(w)'
  <2>1. \A x \in Players : session'[x] = "offline" /\ bag'[x] = {} /\ DOMAIN box'[x] = {}
    BY <1>1, Empty DEF NoMails
  <2> QED
    BY <2>1 DEF MemoryOK
<1>9. /\ returner'.stage = "idle"
      /\ returner' \in [stage : {"idle", "listed", "asked", "found"}, mail : Nat,
                     row : MailRows \cup {Nobody}, item : Items \cup {Nobody},
                     met : BOOLEAN]
  BY <1>1 DEF Idle
<1>10. Shapes' /\ RequestsOK' /\ ReturnerOK(g, queue, w)'
  <2>1. ReturnerOK(g, queue, w)'
    BY <1>9 DEF ReturnerOK
  <2>2. RequestsOK'
    BY <1>1 DEF RequestsOK
  <2>3. Shapes'
    BY <1>1, <1>2, <1>9 DEF Shapes
  <2> QED
    BY <2>1, <2>2, <2>3
<1>11. Good(g, w)'
  BY <1>5, <1>6, <1>7, <1>8, <1>10 DEF Good
<1> QED
  BY <1>11

\* Time passes.
LEMMA DeliverGood ==
    ASSUME NEW f, NEW v, Good(f, v), NEW m, Deliver(m)
    PROVE  \E g, w : Good(g, w)'
<1>1. RequestsOK'
  BY GoodSit DEF Deliver, RequestsOK
<1>2. UNCHANGED <<session, loaded, gold, bag, box, mails, returner, db, queue>>
  BY DEF Deliver, memory
<1> QED
  BY <1>1, <1>2, SameGood

\* With one worker the transactions are applied in the order of the queue.
LEMMA ExecuteGood ==
    ASSUME NumWorkers = 1, NEW f, NEW v, Good(f, v), NEW k \in Workers, Execute(k)
    PROVE  \E g, w : Good(g, w)'
<1>1. /\ History(f, queue, db, mails) /\ Dooms(queue, f, {}) /\ v = f[Len(queue)]
      /\ IsQueue(queue)
  BY DEF Good, History
<1>2. Len(queue) \in Nat /\ DOMAIN queue = 1 .. Len(queue)
  <2>1. Len(queue) \in Nat
    BY <1>1, QueueAppend
  <2> QED
    BY <1>1, <2>1 DEF IsQueue
<1>3. PICK n \in DOMAIN queue :
         /\ Route(queue[n]) = k
         /\ \A j \in 1 .. n - 1 : Route(queue[j]) # k
         /\ db' = AfterTransaction(queue[n], db)
         /\ queue' = RemoveAt(queue, n)
  BY DEF Execute
<1>4. \A j \in 1 .. Len(queue) : Route(queue[j]) = 0
  <2> TAKE j \in 1 .. Len(queue)
  <2>1. queue[j].key \in Players \cup {0}
    BY <1>1 DEF History, Fits, FitsInventory
  <2>2. queue[j].key \in Nat
    <3>1. \A p \in Players : p \in Nat
      BY PlayersAssumption
    <3>2. PICK x : x = queue[j].key
      OBVIOUS
    <3>3. x \in Nat
      BY <2>1, <3>1, <3>2
    <3> QED
      BY <3>2, <3>3
  <2> QED
    BY <2>2 DEF Route
<1>5. k = 0
  BY DEF Workers
<1>6. n = 1
  BY <1>2, <1>3, <1>4, <1>5
<1>7. PICK g : g = [j \in 0 .. Len(queue) - 1 |-> f[j + 1]]
  OBVIOUS
<1>8. PICK r : r = RemoveAt(queue, 1)
  OBVIOUS
<1>9. /\ History(g, r, AfterTransaction(queue[1], db), mails)
      /\ Dooms(r, g, {})
      /\ g[Len(r)] = f[Len(queue)]
      /\ \A m, row : Untouched(f, queue, m, row) => Untouched(g, r, m, row)
  <2>1. 1 \in DOMAIN queue
    BY <1>3, <1>6
  <2> QED
    BY <1>1, <1>7, <1>8, <2>1, Shift
<1>10. /\ queue' = r /\ db' = AfterTransaction(queue[1], db)
       /\ UNCHANGED <<session, loaded, gold, bag, box, mails, request, returner>>
  BY <1>3, <1>6, <1>8 DEF Execute, memory
<1>11. /\ Shapes /\ RequestsOK /\ MemoryOK(v) /\ ReturnerOK(f, queue, v)
  BY GoodSit
<1>12. Shapes' /\ RequestsOK' /\ MemoryOK(v)'
  BY <1>10, <1>11 DEF Shapes, RequestsOK, MemoryOK, AgreeNow
<1>13. ReturnerOK(g, queue, v)'
  BY <1>9, <1>10, <1>11 DEF ReturnerOK
<1>14. History(g, queue', db', mails') /\ Dooms(queue', g, {}) /\ v = g[Len(queue')]
  BY <1>1, <1>9, <1>10
<1>15. Good(g, v)'
  BY <1>12, <1>13, <1>14 DEF Good
<1> QED
  BY <1>15

\* A step of the returner changes no memory.
LEMMA ReturnerGood ==
    ASSUME NEW f, NEW v, Good(f, v), NEW g, NEW w,
           UNCHANGED <<session, loaded, gold, bag, box, mails, request, db>>,
           Sit(g, queue', mails, {}, Present), w = g[Len(queue')],
           returner' \in [stage : {"idle", "listed", "asked", "found"}, mail : Nat,
                          row : MailRows \cup {Nobody}, item : Items \cup {Nobody},
                          met : BOOLEAN],
           ReturnerOK(g, queue, w)'
    PROVE  \E h, u : Good(h, u)'
<1>1. Shapes /\ RequestsOK /\ MemoryOK(v)
  BY GoodSit
<1>2. Shapes' /\ RequestsOK'
  <2>1. returner'.stage \in {"idle", "listed", "asked", "found"}
    OBVIOUS
  <2> QED
    BY <1>1, <2>1 DEF Shapes, RequestsOK
<1>3. MemoryOK(w)'
  <2>1. ASSUME NEW x \in Players, session'[x] # "offline" PROVE AgreeNow(w, x)'
    <3>1. AgreeNow(w, x)
      BY <2>1 DEF Sit, Present
    <3> QED
      BY <3>1 DEF AgreeNow
  <2>2. ASSUME NEW x \in Players, session'[x] # "online"
        PROVE  bag'[x] = {} /\ DOMAIN box'[x] = {}
    BY <1>1, <2>2 DEF MemoryOK
  <2> QED
    BY <2>1, <2>2 DEF MemoryOK
<1>4. History(g, queue', db', mails') /\ Dooms(queue', g, {})
  BY DEF Sit
<1>5. Good(g, w)'
  BY <1>2, <1>3, <1>4 DEF Good
<1> QED
  BY <1>5

\* The returner finds a mail: untouched, or its receiver was met.
LEMMA ReturnOrDeleteOldMailsGood ==
    ASSUME NEW f, NEW v, Good(f, v), ReturnOrDeleteOldMails
    PROVE  \E g, w : Good(g, w)'
<1>1. PICK m \in delivered \cap DOMAIN db.mail :
         returner' = [stage |-> "listed", mail |-> m, row |-> db.mail[m],
                      item |-> Nobody,
                      met |-> \/ session[db.mail[m].to] # "offline"
                              \/ \E t \in Queued : Touches(t, m)]
  BY DEF ReturnOrDeleteOldMails
<1>2. /\ UNCHANGED <<session, loaded, gold, bag, box, mails, request, db>> /\ queue' = queue
  BY DEF ReturnOrDeleteOldMails, memory
<1>3. /\ Sit(f, queue, mails, {}, Present) /\ v = f[Len(queue)]
      /\ Shapes /\ RequestsOK
  BY GoodSit
<1>4. /\ History(f, queue, db, mails) /\ Dooms(queue, f, {}) /\ IsQueue(queue)
  BY <1>3, SitRows DEF Sit
<1>5. GoodRows(db, mails)
  <2>1. Len(queue) \in Nat
    BY <1>4, QueueAppend
  <2> QED
    BY <1>4, <2>1 DEF History
<1>6. m \in Nat /\ db.mail[m] \in MailRows
  <2>1. mails \in Nat
    BY <1>3 DEF Shapes
  <2> QED
    BY <1>5, <2>1 DEF GoodRows
<1>7. PICK met : met = (\/ session[db.mail[m].to] # "offline"
                        \/ \E t \in Queued : Touches(t, m))
  OBVIOUS
<1>8. met \in BOOLEAN
  BY <1>7
<1>9. PICK row : row = db.mail[m]
  OBVIOUS
<1>10. returner' = [stage |-> "listed", mail |-> m, row |-> row, item |-> Nobody, met |-> met]
  BY <1>1, <1>7, <1>9
<1>11. returner' \in [stage : {"idle", "listed", "asked", "found"}, mail : Nat,
                          row : MailRows \cup {Nobody}, item : Items \cup {Nobody},
                          met : BOOLEAN]
  BY <1>6, <1>8, <1>9, <1>10
<1>12. /\ returner'.stage = "listed" /\ returner'.mail = m /\ returner'.row = row
       /\ returner'.met = met
  BY <1>10
<1>13. ~met => session[row.to] = "offline" /\ Untouched(f, queue, m, row)
  <2>1. SUFFICES ASSUME ~met PROVE session[row.to] = "offline" /\ Untouched(f, queue, m, row)
    OBVIOUS
  <2>2. session[row.to] = "offline" /\ \A t \in Queued : ~Touches(t, m)
    BY <1>7, <1>9, <2>1
  <2>3. \A k \in 1 .. Len(queue) : queue[k] \in Queued
    BY <1>4 DEF Queued, ToSet, IsQueue
  <2>4. \A k \in 1 .. Len(queue) : ~Touches(queue[k], m)
    BY <2>2, <2>3
  <2> QED
    BY <1>4, <1>9, <2>2, <2>4, NotWritten
<1>14. ReturnerOK(f, queue, v)'
  <2>1. row \in MailRows /\ session' = session /\ queue' = queue
    BY <1>2, <1>6, <1>9
  <2> QED
    BY <1>12, <1>13, <2>1 DEF ReturnerOK
<1>15. Sit(f, queue', mails, {}, Present) /\ v = f[Len(queue')]
  BY <1>2, <1>3
<1> QED
  BY <1>2, <1>11, <1>14, <1>15, ReturnerGood

\* The returner finds the item, which is still the mail's.
LEMMA FindMailItemGood ==
    ASSUME NEW f, NEW v, Good(f, v), FindMailItem
    PROVE  \E g, w : Good(g, w)'
<1> DEFINE items == {r.item : r \in {x \in db.mitems : x.mail = returner.mail}}
<1>1. PICK i \in IF items = {} THEN {Nobody} ELSE items :
         returner' = [returner EXCEPT !.stage = "found", !.item = i]
  BY Zenon DEF FindMailItem
<1>2. /\ UNCHANGED <<session, loaded, gold, bag, box, mails, request, db>> /\ queue' = queue
      /\ returner.stage = "asked"
  BY DEF FindMailItem, memory
<1>3. /\ Sit(f, queue, mails, {}, Present) /\ v = f[Len(queue)]
      /\ Shapes /\ RequestsOK /\ ReturnerOK(f, queue, v)
  BY GoodSit
<1>4. /\ History(f, queue, db, mails) /\ IsQueue(queue)
  BY <1>3, SitRows DEF Sit
<1>5. GoodRows(db, mails)
  <2>1. Len(queue) \in Nat
    BY <1>4, QueueAppend
  <2> QED
    BY <1>4, <2>1 DEF History
<1>6. i # Nobody => \E r \in db.mitems : r.mail = returner.mail /\ r.item = i
  BY <1>1
<1>7. i \in Items \cup {Nobody}
  BY <1>5, <1>6 DEF GoodRows, ItemRows
<1>8. returner \in [stage : {"idle", "listed", "asked", "found"}, mail : Nat,
                    row : MailRows \cup {Nobody}, item : Items \cup {Nobody}, met : BOOLEAN]
  BY <1>3 DEF Shapes
<1> HIDE DEF items
<1>9. /\ returner' \in [stage : {"idle", "listed", "asked", "found"}, mail : Nat,
                        row : MailRows \cup {Nobody}, item : Items \cup {Nobody},
                        met : BOOLEAN]
      /\ returner'.mail = returner.mail /\ returner'.row = returner.row
      /\ returner'.met = returner.met /\ returner'.item = i
  BY <1>1, <1>7, <1>8
<1>10. ReturnerOK(f, queue, v)'
  <2>1. SUFFICES ASSUME ~returner'.met
                 PROVE  /\ returner'.row \in MailRows
                        /\ session'[returner'.row.to] = "offline"
                        /\ Untouched(f, queue', returner'.mail, returner'.row)
                        /\ (returner'.item # Nobody =>
                             \E r \in v.mitems : r.mail = returner'.mail /\ r.item = returner'.item)
    BY DEF ReturnerOK
  <2>2. /\ returner.row \in MailRows
        /\ session[returner.row.to] = "offline"
        /\ Untouched(f, queue, returner.mail, returner.row)
    BY <1>2, <1>3, <1>9, <2>1 DEF ReturnerOK
  <2>3. KeptMail(returner.mail, db, v)
    BY <1>3, <1>4, <2>2, UntouchedKept
  <2>4. i # Nobody => \E r \in v.mitems : r.mail = returner.mail /\ r.item = i
    BY <1>6, <2>3 DEF KeptMail
  <2> QED
    BY <1>2, <1>9, <2>2, <2>4
<1>11. Sit(f, queue', mails, {}, Present) /\ v = f[Len(queue')]
  BY <1>2, <1>3
<1> QED
  BY <1>2, <1>9, <1>10, <1>11, ReturnerGood

\* The returner stops without having written anything, or goes on to ask for the item.
LEMMA ReturnerWaits ==
    ASSUME NEW f, NEW v, Good(f, v),
           UNCHANGED <<session, loaded, gold, bag, box, mails, request, db>>, queue' = queue,
           returner' = Idle \/ (returner.stage = "listed"
                                /\ returner' = [returner EXCEPT !.stage = "asked"])
    PROVE  \E g, w : Good(g, w)'
<1>1. /\ Sit(f, queue, mails, {}, Present) /\ v = f[Len(queue)]
      /\ Shapes /\ ReturnerOK(f, queue, v)
  BY GoodSit
<1>2. returner \in [stage : {"idle", "listed", "asked", "found"}, mail : Nat,
                    row : MailRows \cup {Nobody}, item : Items \cup {Nobody}, met : BOOLEAN]
  BY <1>1 DEF Shapes
<1>3. returner' \in [stage : {"idle", "listed", "asked", "found"}, mail : Nat,
                     row : MailRows \cup {Nobody}, item : Items \cup {Nobody}, met : BOOLEAN]
  <2>1. CASE returner' = Idle
    BY <2>1 DEF Idle
  <2>2. CASE returner' = [returner EXCEPT !.stage = "asked"]
    BY <1>2, <2>2
  <2> QED
    BY <2>1, <2>2
<1>4. ReturnerOK(f, queue, v)'
  <2>1. CASE returner' = Idle
    BY <2>1 DEF ReturnerOK, Idle
  <2>2. CASE returner.stage = "listed" /\ returner' = [returner EXCEPT !.stage = "asked"]
    <3>1. /\ returner'.stage = "asked" /\ returner'.mail = returner.mail
          /\ returner'.row = returner.row /\ returner'.met = returner.met
      BY <1>2, <2>2
    <3> QED
      BY <1>1, <2>2, <3>1 DEF ReturnerOK
  <2> QED
    BY <2>1, <2>2
<1>5. Sit(f, queue', mails, {}, Present) /\ v = f[Len(queue')]
  BY <1>1
<1> QED
  BY <1>3, <1>4, <1>5, ReturnerGood

Alone(m) == {m}

\* One statement of the returner on mail m, which is nobody's who is present: what it
\* takes out of m is to be ended by a later one...
LEMMA StatementPends ==
    ASSUME NEW f, NEW q, NEW n, NEW pending, NEW W, Sit(f, q, n, pending, W),
           NEW v, v = f[Len(q)], NEW m, \A x \in pending : x = m, NEW t, ReturnerFits(t, v, m),
           m \in DOMAIN v.mail => v.mail[m].to \notin W
    PROVE  /\ Sit(Ext(f, q, t), Append(q, t), n, Alone(m), W)
           /\ AfterTransaction(t, v) = Ext(f, q, t)[Len(Append(q, t))]
<1> DEFINE after == Alone(m)
<1>1. /\ t.key = 0 /\ Fits(t, f[Len(q)]) /\ DOMAIN t.insMail = {}
      /\ \A x \in DOMAIN v.mail : x # m => Leaves(t, f[Len(q)], x)
  BY DEF ReturnerFits
<1>2. DOMAIN t.insMail \subseteq 1 .. n
  BY <1>1
<1>3. m \in after \/ Touches(t, m)
  BY DEF Alone
<1> HIDE DEF after
<1>4. \A x \in DOMAIN f[Len(q)].mail :
             \/ Leaves(t, f[Len(q)], x)
             \/ f[Len(q)].mail[x].to \notin W /\ (x \in after \/ Touches(t, x))
  BY <1>1, <1>3
<1>5. \A x \in pending : x \in after \/ Touches(t, x)
  BY <1>3
<1>6. /\ Sit(Ext(f, q, t), Append(q, t), n, after, W)
      /\ AfterTransaction(t, v) = Ext(f, q, t)[Len(Append(q, t))]
  BY <1>1, <1>2, <1>4, <1>5, SitUnkeyed
<1> QED
  BY <1>6 DEF after

\* ...which writes the mail itself.
LEMMA StatementSits ==
    ASSUME NEW f, NEW q, NEW n, NEW pending, NEW W, Sit(f, q, n, pending, W),
           NEW v, v = f[Len(q)], NEW m, \A x \in pending : x = m, NEW t, ReturnerFits(t, v, m),
           m \in DOMAIN v.mail => v.mail[m].to \notin W, Touches(t, m)
    PROVE  /\ Sit(Ext(f, q, t), Append(q, t), n, {}, W)
           /\ AfterTransaction(t, v) = Ext(f, q, t)[Len(Append(q, t))]
<1> DEFINE after == {}
<1>1. /\ t.key = 0 /\ Fits(t, f[Len(q)]) /\ DOMAIN t.insMail = {}
      /\ \A x \in DOMAIN v.mail : x # m => Leaves(t, f[Len(q)], x)
  BY DEF ReturnerFits
<1>2. DOMAIN t.insMail \subseteq 1 .. n
  BY <1>1
<1>3. m \in after \/ Touches(t, m)
  OBVIOUS
<1> HIDE DEF after
<1>4. \A x \in DOMAIN f[Len(q)].mail :
             \/ Leaves(t, f[Len(q)], x)
             \/ f[Len(q)].mail[x].to \notin W /\ (x \in after \/ Touches(t, x))
  BY <1>1, <1>3
<1>5. \A x \in pending : x \in after \/ Touches(t, x)
  BY <1>3
<1>6. /\ Sit(Ext(f, q, t), Append(q, t), n, after, W)
      /\ AfterTransaction(t, v) = Ext(f, q, t)[Len(Append(q, t))]
  BY <1>1, <1>2, <1>4, <1>5, SitUnkeyed
<1> QED
  BY <1>6 DEF after

\* The row of a mail that a transaction does not write.
LEMMA RowStays ==
    ASSUME NEW t, NEW d, NEW n, GoodRows(d, n), Fits(t, d), NEW m \in DOMAIN d.mail, ~Touches(t, m)
    PROVE  LET e == AfterTransaction(t, d)
           IN  m \in DOMAIN e.mail /\ e.mail[m] = d.mail[m]
<1>1. LET e == AfterTransaction(t, d)
      IN  m \in DOMAIN e.mail /\ e.mail[m] = AfterRow(t, m, d.mail[m])
  BY AfterMail
<1>2. AfterRow(t, m, d.mail[m]) = d.mail[m]
  BY AfterRowType DEF Fits, GoodRows
<1> QED
  BY <1>1, <1>2

\* The mail the returner is about to write is as it was read, and its receiver away.
LEMMA ReturnerReads ==
    ASSUME NEW f, NEW v, Good(f, v), returner.stage # "idle", ~returner.met
    PROVE  /\ Sit(f, queue, mails, {}, Present) /\ v = f[Len(queue)] /\ IsQueue(queue)
           /\ GoodRows(v, mails)
           /\ returner.mail \in DOMAIN v.mail /\ v.mail[returner.mail] = returner.row
           /\ returner.row \in MailRows /\ returner.row.to \notin Present
           /\ (returner.stage = "found" /\ returner.item # Nobody =>
                 \E r \in v.mitems : r.mail = returner.mail /\ r.item = returner.item)
<1>1. /\ Sit(f, queue, mails, {}, Present) /\ v = f[Len(queue)]
      /\ GoodRows(v, mails) /\ ReturnerOK(f, queue, v)
  BY GoodSit
<1>2. IsQueue(queue) /\ Len(queue) \in Nat
  BY <1>1, SitRows, QueueAppend
<1>3. /\ returner.row \in MailRows
      /\ session[returner.row.to] = "offline"
      /\ Untouched(f, queue, returner.mail, returner.row)
      /\ (returner.stage = "found" /\ returner.item # Nobody =>
            \E r \in v.mitems : r.mail = returner.mail /\ r.item = returner.item)
  BY <1>1 DEF ReturnerOK
<1>4. Len(queue) \in 0 .. Len(queue)
  BY <1>2
<1>5. returner.mail \in DOMAIN v.mail /\ v.mail[returner.mail] = returner.row
  BY <1>1, <1>3, <1>4 DEF Untouched
<1>6. returner.row.to \notin Present
  BY <1>3 DEF Present
<1> QED
  BY <1>1, <1>2, <1>3, <1>5, <1>6

\* The returner has written what it had to.
LEMMA ReturnerDone ==
    ASSUME NEW f, NEW v, Good(f, v), NEW g, NEW w,
           UNCHANGED <<session, loaded, gold, bag, box, mails, request, db>>, returner' = Idle,
           Sit(g, queue', mails, {}, Present), w = g[Len(queue')]
    PROVE  \E h, u : Good(h, u)'
<1>1. returner' \in [stage : {"idle", "listed", "asked", "found"}, mail : Nat,
                     row : MailRows \cup {Nobody}, item : Items \cup {Nobody}, met : BOOLEAN]
  BY DEF Idle
<1>2. ReturnerOK(g, queue, w)'
  BY DEF ReturnerOK, Idle
<1> QED
  BY <1>1, <1>2, ReturnerGood

\* The returner does not process online players, and statements about a mail whose
\* receiver was met and has left are recorded as crossed.
LEMMA NotMet ==
    ASSUME LoginsInOrder', NotOnline(returner.row.to), exposed' = exposed \cup Crossing
    PROVE  ~returner.met
BY DEF LoginsInOrder, Crossing, NotOnline

\* A mail without an item ends.
LEMMA OldMailsReturnerGood ==
    ASSUME NEW f, NEW v, Good(f, v), OldMailsReturner, LoginsInOrder'
    PROVE  \E g, w : Good(g, w)'
<1>1. /\ UNCHANGED <<session, loaded, gold, bag, box, mails, request, db>>
      /\ returner.stage = "listed"
  BY DEF OldMailsReturner, memory
<1>2. CASE queue' = queue /\ (returner' = Idle \/ returner' = [returner EXCEPT !.stage = "asked"])
  BY <1>1, <1>2, ReturnerWaits
<1>3. CASE /\ returner' = Idle
           /\ Commit(<<[Nothing EXCEPT !.endMail = {returner.mail}]>>)
           /\ NotOnline(returner.row.to) /\ exposed' = exposed \cup Crossing
  <2>1. ~returner.met
    BY <1>3, NotMet
  <2>2. PICK m : m = returner.mail
    OBVIOUS
  <2>3. PICK t : t = [Nothing EXCEPT !.endMail = {m}]
    OBVIOUS
  <2>4. /\ Sit(f, queue, mails, {}, Present) /\ v = f[Len(queue)] /\ IsQueue(queue)
        /\ m \in DOMAIN v.mail /\ v.mail[m].to \notin Present
    BY <1>1, <2>1, <2>2, ReturnerReads
  <2>5. ReturnerFits(t, v, m) /\ Touches(t, m)
    BY <2>3, EndMailFits
  <2>6. PICK g : g = Ext(f, queue, t)
    OBVIOUS
  <2>7. Sit(g, Append(queue, t), mails, {}, Present)
    <3>1. \A x \in {} : x = m
      OBVIOUS
    <3> QED
      BY <2>4, <2>5, <2>6, <3>1, StatementSits
  <2>8. queue' = Append(queue, t)
    <3>1. queue' = queue \o <<t>>
      BY <1>3, <2>2, <2>3 DEF Commit
    <3> QED
      BY <2>4, <3>1, QueueConcat
  <2>9. PICK w : w = g[Len(queue')]
    OBVIOUS
  <2>10. Sit(g, queue', mails, {}, Present)
    BY <2>7, <2>8
  <2> QED
    BY <1>1, <1>3, <2>9, <2>10, ReturnerDone
<1> QED
  BY <1>2, <1>3 DEF OldMailsReturner

\* The item and the mail are destroyed.
LEMMA DestroyedSits ==
    ASSUME NEW f, NEW q, NEW n, Sit(f, q, n, {}, Present), NEW v, v = f[Len(q)],
           NEW m \in DOMAIN v.mail, v.mail[m].to \notin Present,
           NEW r \in v.mitems, r.mail = m
    PROVE  \E g : Sit(g, Append(Append(Append(q, [Nothing EXCEPT !.delInst = {r.item}]),
                                       [Nothing EXCEPT !.delItemsOf = {m}]),
                                [Nothing EXCEPT !.endMail = {m}]), n, {}, Present)
<1>1. GoodRows(v, n)
  BY SitRows
<1>2. PICK t1 : t1 = [Nothing EXCEPT !.delInst = {r.item}]
  OBVIOUS
<1>3. PICK t2 : t2 = [Nothing EXCEPT !.delItemsOf = {m}]
  OBVIOUS
<1>4. PICK t3 : t3 = [Nothing EXCEPT !.endMail = {m}]
  OBVIOUS
<1>5. ReturnerFits(t1, v, m)
  BY <1>1, <1>2, DelInstFits
<1>6. ~Touches(t1, m) /\ ~Touches(t2, m)
  BY <1>2, <1>3, Empty DEF Touches, Nothing
<1>7. PICK f1 : f1 = Ext(f, q, t1)
  OBVIOUS
<1>8. PICK q1 : q1 = Append(q, t1)
  OBVIOUS
<1>9. PICK v1 : v1 = AfterTransaction(t1, v)
  OBVIOUS
<1>10. Sit(f1, q1, n, Alone(m), Present) /\ v1 = f1[Len(q1)]
  <2>1. v.mail[m].to \notin Present
    OBVIOUS
  <2>2. PICK none : none = {}
    OBVIOUS
  <2>3. Sit(f, q, n, none, Present) /\ \A x \in none : x = m
    BY <2>2
  <2>4. /\ Sit(Ext(f, q, t1), Append(q, t1), n, Alone(m), Present)
        /\ AfterTransaction(t1, v) = Ext(f, q, t1)[Len(Append(q, t1))]
    BY <1>5, <2>1, <2>3, StatementPends
  <2> QED
    BY <1>7, <1>8, <1>9, <2>4
<1>11. m \in DOMAIN v1.mail /\ v1.mail[m] = v.mail[m]
  BY <1>1, <1>5, <1>6, <1>9, RowStays DEF ReturnerFits
<1>12. ReturnerFits(t2, v1, m)
  BY <1>3, DelItemsOfFits
<1>13. PICK f2 : f2 = Ext(f1, q1, t2)
  OBVIOUS
<1>14. PICK q2 : q2 = Append(q1, t2)
  OBVIOUS
<1>15. PICK v2 : v2 = AfterTransaction(t2, v1)
  OBVIOUS
<1>16. Sit(f2, q2, n, Alone(m), Present) /\ v2 = f2[Len(q2)]
  <2>1. \A x \in Alone(m) : x = m
    BY DEF Alone
  <2>2. m \in DOMAIN v1.mail => v1.mail[m].to \notin Present
    BY <1>11
  <2> QED
    BY <1>10, <1>12, <1>13, <1>14, <1>15, <2>1, <2>2, StatementPends
<1>17. m \in DOMAIN v2.mail /\ v2.mail[m] = v.mail[m]
  <2>1. GoodRows(v1, n)
    BY <1>10, SitRows
  <2> QED
    BY <1>6, <1>11, <1>12, <1>15, <2>1, RowStays DEF ReturnerFits
<1>18. ReturnerFits(t3, v2, m) /\ Touches(t3, m)
  BY <1>4, EndMailFits
<1>19. Sit(Ext(f2, q2, t3), Append(q2, t3), n, {}, Present)
  <2>1. Touches(t3, m)
    BY <1>18
  <2>2. \A x \in Alone(m) : x = m
    BY DEF Alone
  <2>3. m \in DOMAIN v2.mail => v2.mail[m].to \notin Present
    BY <1>17
  <2> QED
    BY <1>16, <1>18, <2>1, <2>2, <2>3, StatementSits
<1> QED
  BY <1>2, <1>3, <1>4, <1>8, <1>14, <1>19

BackMail(m, row) == [Nothing EXCEPT !.backMail = Only(m, [from |-> row.to, to |-> row.from])]

BackItem(i, row) == [Nothing EXCEPT !.backItems = Only(i, row.from)]

\* The mail goes back, and then its item.
LEMMA BackSits ==
    ASSUME NEW f, NEW q, NEW n, Sit(f, q, n, {}, Present), NEW v, v = f[Len(q)],
           NEW m \in DOMAIN v.mail, NEW row, row = v.mail[m], row \in MailRows,
           row.to \notin Present
    PROVE  /\ \E g : Sit(g, Append(q, BackMail(m, row)), n, {}, Present)
           /\ \A r \in v.mitems : r.mail = m =>
                \E g : Sit(g, Append(Append(q, BackMail(m, row)), BackItem(r.item, row)),
                           n, {}, Present)
<1>1. GoodRows(v, n)
  BY SitRows
<1>2. PICK t : /\ t = BackMail(m, row)
              /\ t = [Nothing EXCEPT !.backMail = Only(m, [from |-> row.to, to |-> row.from])]
  BY DEF BackMail
<1>3. row.to \in Players /\ row.from \in Players
  BY DEF MailRows
<1>4. ReturnerFits(t, v, m) /\ Touches(t, m)
  <2>1. t = [Nothing EXCEPT !.backMail = Only(m, [from |-> row.to, to |-> row.from])]
    BY <1>2
  <2> QED
    BY <1>3, <2>1, BackMailFits
<1>5. PICK f1 : f1 = Ext(f, q, t)
  OBVIOUS
<1>6. PICK q1 : q1 = Append(q, t)
  OBVIOUS
<1>7. PICK v1 : v1 = AfterTransaction(t, v)
  OBVIOUS
<1>8. Sit(f1, q1, n, {}, Present) /\ v1 = f1[Len(q1)]
  <2>1. (\A x \in {} : x = m) /\ v.mail[m].to \notin Present
    OBVIOUS
  <2> QED
    BY <1>4, <1>5, <1>6, <1>7, <2>1, StatementSits
<1>9. Fits(t, v)
  BY <1>4 DEF ReturnerFits
<1>10. m \in DOMAIN v1.mail /\ v1.mail[m].to = row.from
  <2>1. m \in DOMAIN v1.mail /\ v1.mail[m] = AfterRow(t, m, row)
    BY <1>1, <1>7, <1>9, AfterMail
  <2>2. /\ t.setMail = <<>> /\ t.endMail = {}
        /\ t.backMail = Only(m, [from |-> row.to, to |-> row.from])
    BY <1>2 DEF Nothing
  <2>3. m \in DOMAIN t.backMail /\ t.backMail[m].to = row.from /\ m \notin DOMAIN t.setMail
    BY <2>2, Empty DEF Only
  <2>4. AfterRow(t, m, row) = [row EXCEPT !.from = t.backMail[m].from, !.to = t.backMail[m].to,
                                 !.cod = 0, !.checked = "returned", !.expires = "second"]
    BY <2>2, <2>3 DEF AfterRow
  <2> QED
    BY <2>1, <2>3, <2>4 DEF MailRows
<1>11. GoodRows(v1, n)
  BY <1>8, SitRows
<1>12. ASSUME NEW r \in v.mitems, r.mail = m
       PROVE  \E g : Sit(g, Append(q1, [Nothing EXCEPT !.backItems = Only(r.item, row.from)]),
                         n, {}, Present)
  <2>1. r \in v1.mitems
    <3>1. t.delItems = {} /\ t.delItemsOf = {} /\ t.backItems = <<>>
      BY <1>2 DEF Nothing
    <3>2. r.item \notin t.delItems /\ r.mail \notin t.delItemsOf /\ r.item \notin DOMAIN t.backItems
      BY <3>1, Empty
    <3> QED
      BY <1>1, <1>7, <1>9, <3>2, AfterItem
  <2>2. PICK u : u = [Nothing EXCEPT !.backItems = Only(r.item, v1.mail[r.mail].to)]
    OBVIOUS
  <2>3. ReturnerFits(u, v1, r.mail) /\ \A x : Leaves(u, v1, x)
    BY <1>10, <1>11, <1>12, <2>1, <2>2, BackItemsFits
  <2>4. u.key = 0 /\ Fits(u, v1) /\ DOMAIN u.insMail = {}
    BY <2>3 DEF ReturnerFits
  <2>5. Sit(Ext(f1, q1, u), Append(q1, u), n, {}, Present)
    <3>1. DOMAIN u.insMail \subseteq 1 .. n
      BY <2>4
    <3>2. \A x \in DOMAIN f1[Len(q1)].mail : Leaves(u, f1[Len(q1)], x)
      BY <1>8, <2>3
    <3> QED
      BY <1>8, <2>4, <3>1, <3>2, SitNew
  <2>6. u = [Nothing EXCEPT !.backItems = Only(r.item, row.from)]
    BY <1>10, <1>12, <2>2
  <2> QED
    BY <2>5, <2>6
<1>13. \A r \in v.mitems : r.mail = m =>
         \E g : Sit(g, Append(q1, BackItem(r.item, row)), n, {}, Present)
  BY <1>12 DEF BackItem
<1>14. q1 = Append(q, BackMail(m, row))
  BY <1>2, <1>6
<1> QED
  BY <1>8, <1>13, <1>14

\* ... and with the item it still holds.
LEMMA BackItemSits ==
    ASSUME NEW f, NEW q, NEW n, Sit(f, q, n, {}, Present), NEW v, v = f[Len(q)],
           NEW m \in DOMAIN v.mail, NEW row, row = v.mail[m], row \in MailRows,
           row.to \notin Present, NEW r \in v.mitems, r.mail = m
    PROVE  \E g : Sit(g, Append(Append(q, BackMail(m, row)), BackItem(r.item, row)),
                      n, {}, Present)
  BY BackSits

\* The same for the statements of the returner.
LEMMA QueueConcatMore ==
    ASSUME NEW q, IsQueue(q), NEW a, NEW b, NEW c
    PROVE  /\ q \o (<<>> \o <<a>>) = Append(q, a)
           /\ q \o (<<a>> \o <<>>) = Append(q, a)
           /\ q \o (<<a, b>> \o <<c>>) = Append(Append(Append(q, a), b), c)
<1>1. <<>> \o <<a>> = <<a>> /\ <<a>> \o <<>> = <<a>>
  OBVIOUS
<1>2. PICK S : q \in Seq(S)
  BY DEF IsQueue
<1> DEFINE T == S \cup {a, b, c}
<1>3. q \in Seq(T)
  BY <1>2
<1>4. a \in T /\ b \in T /\ c \in T
  OBVIOUS
<1> HIDE DEF T
<1>5. <<a, b>> \in Seq(T) /\ <<c>> \in Seq(T) /\ Append(Append(q, a), b) \in Seq(T)
  BY <1>3, <1>4
<1>6. q \o (<<a, b>> \o <<c>>) = (q \o <<a, b>>) \o <<c>>
  BY <1>3, <1>5, ConcatAssociative
<1>7. q \o <<a, b>> = Append(Append(q, a), b)
  BY QueueConcat
<1>8. \A s \in Seq(T), x \in T : s \o <<x>> = Append(s, x)
  OBVIOUS
<1> QED
  BY <1>1, <1>4, <1>5, <1>6, <1>7, <1>8, QueueConcat

\* The statements of the returner, one transaction each, fit one after the other.
LEMMA SingleMailReturnerSteps ==
    ASSUME NEW f, NEW v, Good(f, v), returner.stage = "found", ~returner.met
    PROVE  \E g : Sit(g, queue \o ReturnerStatements(returner.mail, returner.row, returner.item),
                      mails, {}, Present)
<1>1. PICK m : m = returner.mail
  OBVIOUS
<1>2. PICK row : row = returner.row
  OBVIOUS
<1>3. PICK i : i = returner.item
  OBVIOUS
<1>4. /\ Sit(f, queue, mails, {}, Present) /\ v = f[Len(queue)] /\ IsQueue(queue)
      /\ GoodRows(v, mails)
      /\ m \in DOMAIN v.mail /\ v.mail[m] = row
      /\ row \in MailRows /\ row.to \notin Present
      /\ (i # Nobody => \E r \in v.mitems : r.mail = m /\ r.item = i)
  BY <1>1, <1>2, <1>3, ReturnerReads
<1> DEFINE D == [Nothing EXCEPT !.delInst = {i}]
           O == [Nothing EXCEPT !.delItemsOf = {m}]
           E == [Nothing EXCEPT !.endMail = {m}]
           B == [Nothing EXCEPT !.backMail = Only(m, [from |-> row.to, to |-> row.from])]
           I == [Nothing EXCEPT !.backItems = Only(i, row.from)]
<1>5. ReturnerStatements(m, row, i) =
        IF row.checked \in {"payment", "returned"}
        THEN (IF i = Nobody THEN <<>> ELSE <<D, O>>) \o <<E>>
        ELSE <<B>> \o (IF i = Nobody THEN <<>> ELSE <<I>>)
  BY DEF ReturnerStatements
<1>6. CASE row.checked \in {"payment", "returned"} /\ i = Nobody
  <2>1. ReturnerFits(E, v, m) /\ Touches(E, m)
    BY EndMailFits
  <2> HIDE DEF D, O, E, B, I
  <2>2. \A x \in {} : x = m
    OBVIOUS
  <2>3. Sit(Ext(f, queue, E), Append(queue, E), mails, {}, Present)
    BY <1>4, <2>1, <2>2, StatementSits
  <2>4. ReturnerStatements(m, row, i) = <<>> \o <<E>>
    BY <1>5, <1>6
  <2>5. queue \o ReturnerStatements(m, row, i) = Append(queue, E)
    BY <1>4, <2>4, QueueConcatMore
  <2> QED
    BY <1>1, <1>2, <1>3, <2>3, <2>5
<1>7. CASE row.checked \in {"payment", "returned"} /\ i # Nobody
  <2>1. PICK r \in v.mitems : r.mail = m /\ r.item = i
    BY <1>4, <1>7
  <2>2. PICK g : Sit(g, Append(Append(Append(queue, D), O), E), mails, {}, Present)
    BY <1>4, <2>1, DestroyedSits
  <2> HIDE DEF D, O, E, B, I
  <2>3. ReturnerStatements(m, row, i) = <<D, O>> \o <<E>>
    BY <1>5, <1>7
  <2>4. queue \o ReturnerStatements(m, row, i) = Append(Append(Append(queue, D), O), E)
    BY <1>4, <2>3, QueueConcatMore
  <2> QED
    BY <1>1, <1>2, <1>3, <2>2, <2>4
<1>8. CASE row.checked \notin {"payment", "returned"} /\ i = Nobody
  <2>1. PICK g : Sit(g, Append(queue, B), mails, {}, Present)
    <3>1. B = BackMail(m, row)
      BY DEF BackMail
    <3>2. \E g : Sit(g, Append(queue, BackMail(m, row)), mails, {}, Present)
      BY <1>4, BackSits
    <3> QED
      BY <3>1, <3>2
  <2> HIDE DEF D, O, E, B, I
  <2>2. ReturnerStatements(m, row, i) = <<B>> \o <<>>
    BY <1>5, <1>8
  <2>3. queue \o ReturnerStatements(m, row, i) = Append(queue, B)
    BY <1>4, <2>2, QueueConcatMore
  <2> QED
    BY <1>1, <1>2, <1>3, <2>1, <2>3
<1>9. CASE row.checked \notin {"payment", "returned"} /\ i # Nobody
  <2>1. PICK r \in v.mitems : r.mail = m /\ r.item = i
    BY <1>4, <1>9
  <2>2. PICK g : Sit(g, Append(Append(queue, BackMail(m, row)), BackItem(r.item, row)),
                     mails, {}, Present)
    <3> HIDE DEF D, O, E, B, I
    <3>1. r \in v.mitems /\ r.mail = m
      BY <2>1
    <3> QED
      BY <1>4, <3>1, BackItemSits
  <2>3. B = BackMail(m, row) /\ I = BackItem(r.item, row)
    BY <2>1 DEF BackMail, BackItem
  <2>4. Sit(g, Append(Append(queue, B), I), mails, {}, Present)
    BY <2>2, <2>3
  <2> HIDE DEF D, O, E, B, I
  <2>5. ReturnerStatements(m, row, i) = <<B>> \o <<I>>
    BY <1>5, <1>9
  <2>6. queue \o ReturnerStatements(m, row, i) = Append(Append(queue, B), I)
    BY <1>4, <2>5, QueueConcat
  <2> QED
    BY <1>1, <1>2, <1>3, <2>4, <2>6
<1> QED
  BY <1>6, <1>7, <1>8, <1>9

\* SingleMailReturner ends the mail with its item, or sends both back.
LEMMA SingleMailReturnerGood ==
    ASSUME NEW f, NEW v, Good(f, v), SingleMailReturner, LoginsInOrder'
    PROVE  \E g, w : Good(g, w)'
<1>1. /\ UNCHANGED <<session, loaded, gold, bag, box, mails, request, db>>
      /\ returner.stage = "found" /\ returner' = Idle
  BY DEF SingleMailReturner, memory
<1>2. CASE queue' = queue
  BY <1>1, <1>2, ReturnerWaits
<1>3. CASE /\ Commit(ReturnerStatements(returner.mail, returner.row, returner.item))
           /\ NotOnline(returner.row.to) /\ exposed' = exposed \cup Crossing
  <2>1. ~returner.met
    BY <1>3, NotMet
  <2>2. queue' = queue \o ReturnerStatements(returner.mail, returner.row, returner.item)
    BY <1>3 DEF Commit
  <2>3. PICK g : Sit(g, queue', mails, {}, Present)
    BY <1>1, <2>1, <2>2, SingleMailReturnerSteps
  <2>4. PICK w : w = g[Len(queue')]
    OBVIOUS
  <2> QED
    BY <1>1, <2>3, <2>4, ReturnerDone
<1> QED
  BY <1>2, <1>3 DEF SingleMailReturner

-----------------------------------------------------------------------------
(* The invariant                                                            *)

\* At first every item is in an inventory.
LEMMA FirstOwners == FirstOwner \in [Items -> Players]
<1>1. PICK p : p \in Players
  BY PlayersAssumption
<1>2. [i \in Items |-> p] \in [Items -> Players]
  BY <1>1
<1>3. \E g \in [Items -> Players] : TRUE
  BY <1>2
<1> QED
  BY <1>3 DEF FirstOwner

\* The first state, whose queue is empty.
LEMMA InitGood ==
    ASSUME Init
    PROVE  \E f, v : Good(f, v)
<1>1. /\ session = [p \in Players |-> "online"]
      /\ db.gold = [p \in Players |-> InitialGold] /\ db.inv = FirstOwner
      /\ db.inst = Items /\ db.mail = NoMails /\ db.mitems = {}
      /\ gold = [p \in Players |-> InitialGold]
      /\ bag = [p \in Players |-> {i \in Items : FirstOwner[i] = p}]
      /\ box = [p \in Players |-> NoMails]
      /\ loaded = [p \in Players |-> EmptyRows(p)]
      /\ mails = 0 /\ request = [p \in Players |-> NoRequest] /\ returner = Idle
      /\ queue = <<>>
  BY DEF Init
<1>2. DOMAIN db.mail = {}
  BY <1>1, Empty DEF NoMails
<1>3. GoodRows(db, mails)
  <2>1. db.inv \in [Items -> Players \cup {Nobody}]
    BY <1>1, FirstOwners
  <2> QED
    BY <1>1, <1>2, <2>1 DEF GoodRows
<1>4. PICK f : f = [n \in 0 .. 0 |-> db]
  OBVIOUS
<1>5. Len(<<>>) = 0 /\ IsQueue(<<>>)
  BY DEF IsQueue
<1>6. History(f, queue, db, mails)
  BY <1>1, <1>3, <1>4, <1>5 DEF History
<1>7. Dooms(queue, f, {})
  BY <1>1, <1>5 DEF Dooms
<1>8. db = f[Len(queue)]
  BY <1>1, <1>4, <1>5
<1>9. MemoryOK(db)
  <2>1. ASSUME NEW p \in Players PROVE session[p] = "online" /\ AgreeNow(db, p)
    <3>1. gold[p] = InitialGold /\ db.gold[p] = InitialGold
      BY <1>1
    <3>2. bag[p] = {i \in Items : db.inv[i] = p}
      BY <1>1
    <3>3. AgreePurse(db, p, gold[p], bag[p])
      BY <1>1, <3>1, <3>2 DEF AgreePurse
    <3>4. DOMAIN box[p] = {}
      BY <1>1, Empty DEF NoMails
    <3>5. AgreeBox(db, p, box[p])
      BY <3>4 DEF AgreeBox
    <3>6. session[p] = "online"
      BY <1>1
    <3> QED
      BY <3>3, <3>5, <3>6 DEF AgreeNow, Agree
  <2> QED
    BY <2>1 DEF MemoryOK
<1>10. /\ returner.stage = "idle"
       /\ returner \in [stage : {"idle", "listed", "asked", "found"}, mail : Nat,
                        row : MailRows \cup {Nobody}, item : Items \cup {Nobody},
                        met : BOOLEAN]
  BY <1>1 DEF Idle
<1>11. Shapes /\ RequestsOK /\ ReturnerOK(f, queue, db)
  <2>1. Shapes
    BY <1>1, <1>10 DEF Shapes
  <2>2. RequestsOK
    BY <1>1 DEF RequestsOK
  <2>3. ReturnerOK(f, queue, db)
    BY <1>10 DEF ReturnerOK
  <2> QED
    BY <2>1, <2>2, <2>3
<1>12. Good(f, db)
  BY <1>6, <1>7, <1>8, <1>9, <1>11 DEF Good
<1> QED
  BY <1>12

\* What has happened stays recorded.
LEMMA ExposedGrows ==
    ASSUME [Next]_vars
    PROVE  exposed \subseteq exposed'
<1>1. CASE UNCHANGED vars
  BY <1>1 DEF vars
<1>2. ASSUME NEW p \in Players, SendToOnline(p) \/ AskToSend(p) \/ SendCallback(p) \/ Logout(p)
                                \/ LoginFinish(p)
      PROVE  exposed' = exposed
  BY <1>2 DEF SendToOnline, AskToSend, SendCallback, Logout, LoginFinish
<1>3. ASSUME NEW p \in Players, LoginRead(p) PROVE exposed \subseteq exposed'
  BY <1>3 DEF LoginRead
<1>4. ASSUME NEW p \in Players, NEW m \in MailIds,
             ReadMail(p, m) \/ DeleteMail(p, m) \/ ReturnMail(p, m)
             \/ HandleMailTakeMoney(p, m) \/ HandleMailTakeItem(p, m)
      PROVE  exposed' = exposed
  BY <1>4 DEF ReadMail, DeleteMail, ReturnMail, HandleMailTakeMoney, HandleMailTakeItem
<1>5. ASSUME NEW m \in MailIds, Deliver(m) PROVE exposed' = exposed
  BY <1>5 DEF Deliver
<1>6. CASE ReturnOrDeleteOldMails \/ FindMailItem
  <2>1. ASSUME ReturnOrDeleteOldMails PROVE exposed' = exposed
    BY <2>1 DEF ReturnOrDeleteOldMails
  <2>2. ASSUME FindMailItem PROVE exposed' = exposed
    BY <2>2, Zenon DEF FindMailItem
  <2> QED
    BY <1>6, <2>1, <2>2
<1>7. CASE OldMailsReturner
  BY <1>7 DEF OldMailsReturner
<1>8. CASE SingleMailReturner
  BY <1>8 DEF SingleMailReturner
<1>9. ASSUME NEW k \in Workers, Execute(k) PROVE exposed' = exposed
  BY <1>9 DEF Execute
<1>10. CASE Crash
  BY <1>10 DEF Crash
<1> QED
  BY <1>1, <1>2, <1>3, <1>4, <1>5, <1>6, <1>7, <1>8, <1>9, <1>10 DEF Next

\* Every step keeps the invariant; a worker's only because there is no other.
LEMMA NextGood ==
    ASSUME NumWorkers = 1, NEW f, NEW v, Good(f, v), LoginsInOrder', Next
    PROVE  \E g, w : Good(g, w)'
<1>1. CASE \E p \in Players : SendToOnline(p)
  BY <1>1, SendToOnlineGood
<1>2. CASE \E p \in Players : AskToSend(p)
  BY <1>2, AskToSendGood
<1>3. CASE \E p \in Players : SendCallback(p)
  BY <1>3, SendCallbackGood
<1>4. CASE \E p \in Players : Logout(p)
  BY <1>4, LogoutGood
<1>5. CASE \E p \in Players : LoginRead(p)
  BY <1>5, LoginReadGood
<1>6. CASE \E p \in Players : LoginFinish(p)
  BY <1>6, LoginFinishGood
<1>7. CASE \E p \in Players, m \in MailIds : ReadMail(p, m)
  BY <1>7, ReadMailGood
<1>8. CASE \E p \in Players, m \in MailIds : DeleteMail(p, m)
  BY <1>8, DeleteMailGood
<1>9. CASE \E p \in Players, m \in MailIds : ReturnMail(p, m)
  BY <1>9, ReturnMailGood
<1>10. CASE \E p \in Players, m \in MailIds : HandleMailTakeMoney(p, m)
  BY <1>10, HandleMailTakeMoneyGood
<1>11. CASE \E p \in Players, m \in MailIds : HandleMailTakeItem(p, m)
  BY <1>11, HandleMailTakeItemGood
<1>12. CASE \E m \in MailIds : Deliver(m)
  BY <1>12, DeliverGood
<1>13. CASE ReturnOrDeleteOldMails
  BY <1>13, ReturnOrDeleteOldMailsGood
<1>14. CASE OldMailsReturner
  BY <1>14, OldMailsReturnerGood
<1>15. CASE FindMailItem
  BY <1>15, FindMailItemGood
<1>16. CASE SingleMailReturner
  BY <1>16, SingleMailReturnerGood
<1>17. CASE \E k \in Workers : Execute(k)
  BY <1>17, ExecuteGood
<1>18. CASE Crash
  BY <1>18, CrashGood
<1> QED
  BY <1>1, <1>2, <1>3, <1>4, <1>5, <1>6, <1>7, <1>8, <1>9, <1>10, <1>11, <1>12, <1>13,
     <1>14, <1>15, <1>16, <1>17, <1>18 DEF Next

\* With one worker, and until a login overtakes the queued writes of its player
\* or the returner (LoginRead, SingleMailReturner), the queued transactions of the
\* handlers lead from the rows to the memory of every player who is online or
\* logging in.
THEOREM MailInvariant ==
    ASSUME NumWorkers = 1
    PROVE  Spec => []IInv
<1>1. Init => IInv
  BY InitGood DEF IInv
<1>2. IInv /\ [Next]_vars => IInv'
  <2>1. SUFFICES ASSUME IInv, [Next]_vars, LoginsInOrder' PROVE \E g, w : Good(g, w)'
    BY DEF IInv
  <2>2. LoginsInOrder
    BY <2>1, ExposedGrows DEF LoginsInOrder
  <2>3. PICK f, v : Good(f, v)
    BY <2>1, <2>2 DEF IInv
  <2>4. CASE UNCHANGED vars
    <3>1. UNCHANGED <<session, loaded, gold, bag, box, mails, returner, db, queue, request>>
      BY <2>4 DEF vars, memory
    <3>2. RequestsOK'
      BY <2>3, <3>1, GoodSit DEF RequestsOK
    <3> QED
      BY <2>3, <3>1, <3>2, SameGood
  <2>5. CASE Next
    BY <2>1, <2>3, <2>5, NextGood
  <2> QED
    BY <2>1, <2>4, <2>5
<1> QED
  BY <1>1, <1>2, PTL DEF Spec

-----------------------------------------------------------------------------
(* What follows from it                                                     *)

\* A set whose elements are all equal.
LEMMA AtMostOne ==
    ASSUME NEW S, \A x, y \in S : x = y
    PROVE  Cardinality(S) <= 1
<1>1. CASE S = {}
  BY <1>1, FS_EmptySet
<1>2. CASE S # {}
  <2>1. PICK x : x \in S
    BY <1>2
  <2>2. S = {x}
    BY <2>1
  <2> QED
    BY <2>2, FS_Singleton
<1> QED
  BY <1>1, <1>2

\* With an empty queue the last rows are the rows.
LEMMA RowsAgreeFollows ==
    ASSUME IInv
    PROVE  RowsAgree
<1>1. SUFFICES ASSUME Quiet, LoginsInOrder, NEW p \in Players, IsOnline(p)
      PROVE /\ db.gold[p] = gold[p]
            /\ \A i \in Items : i \in bag[p] => db.inv[i] = p /\ i \in db.inst
            /\ \A i \in Items : db.inv[i] = p /\ i \in db.inst => i \in bag[p]
            /\ \A m \in DOMAIN box[p] : box[p][m].state # "deleted" => MailAgrees(p, m)
  BY DEF RowsAgree
<1>2. PICK f, v : Good(f, v)
  BY <1>1 DEF IInv
<1>3. /\ History(f, queue, db, mails) /\ v = f[Len(queue)] /\ MemoryOK(v) /\ IsQueue(queue)
  BY <1>2 DEF Good, History
<1>4. Len(queue) = 0
  <2>1. Len(queue) \in Nat /\ DOMAIN queue = 1 .. Len(queue)
    <3>1. Len(queue) \in Nat
      BY <1>3, QueueAppend
    <3> QED
      BY <1>3, <3>1 DEF IsQueue
  <2>2. ~(1 \in DOMAIN queue)
    BY <1>1 DEF Quiet, Queued, ToSet
  <2> QED
    BY <2>1, <2>2
<1>5. v = db
  BY <1>3, <1>4 DEF History
<1>6. Agree(db, p, gold[p], bag[p], box[p])
  BY <1>1, <1>3, <1>5 DEF MemoryOK, AgreeNow, IsOnline
<1>7. ASSUME NEW m \in DOMAIN box[p] PROVE MailAgrees(p, m)
  <2>1. AgreeMail(db, p, m, box[p][m])
    BY <1>6 DEF Agree, AgreeBox
  <2> QED
    BY <2>1 DEF AgreeMail, MailAgrees
<1> QED
  BY <1>6, <1>7 DEF Agree, AgreePurse

\* Two places of the memory would be two places of the last rows.
LEMMA ItemOnceFollows ==
    ASSUME IInv
    PROVE  ItemOnce
<1>1. SUFFICES ASSUME LoginsInOrder, NEW i \in Items PROVE Cardinality(Holders(i)) <= 1
  BY DEF ItemOnce
<1>2. PICK f, v : Good(f, v)
  BY <1>1 DEF IInv
<1>3. GoodRows(v, mails) /\ MemoryOK(v)
  BY <1>2, GoodSit
<1>4. i # Nobody
  BY ItemsAssumption
<1>5. ASSUME NEW p \in Players, i \in bag[p] PROVE v.inv[i] = p
  <2>1. session[p] = "online"
    BY <1>3, <1>5 DEF MemoryOK
  <2> QED
    BY <1>3, <1>5, <2>1 DEF MemoryOK, AgreeNow, Agree, AgreePurse
<1>6. ASSUME NEW p \in Players, NEW m \in DOMAIN box[p], box[p][m].item = i
      PROVE  [mail |-> m, item |-> i, to |-> p] \in v.mitems
  <2>1. session[p] = "online"
    BY <1>3, <1>6 DEF MemoryOK
  <2>2. Agree(v, p, gold[p], bag[p], box[p])
    BY <1>3, <2>1 DEF MemoryOK, AgreeNow
  <2>3. AgreeMail(v, p, m, box[p][m])
    BY <2>2 DEF Agree, AgreeBox
  <2> QED
    BY <1>4, <1>6, <2>3 DEF AgreeMail
<1>7. ASSUME NEW h \in Holders(i)
      PROVE  \/ \E p \in Players : h = <<p, 0>> /\ v.inv[i] = p
             \/ \E p \in Players, m \in MailIds :
                  h = <<p, m>> /\ [mail |-> m, item |-> i, to |-> p] \in v.mitems
  <2>1. CASE h \in {<<p, 0>> : p \in {q \in Players : i \in bag[q]}}
    BY <1>5, <2>1
  <2>2. CASE h \in {k \in Players \X MailIds :
                      k[2] \in DOMAIN box[k[1]] /\ box[k[1]][k[2]].item = i}
    <3>1. PICK p \in Players, m \in MailIds : h = <<p, m>>
      BY <2>2
    <3>2. m \in DOMAIN box[p] /\ box[p][m].item = i
      BY <2>2, <3>1
    <3> QED
      BY <1>6, <3>1, <3>2
  <2> QED
    BY <1>7, <2>1, <2>2 DEF Holders
<1>8. \A r \in v.mitems : r.item = i => v.inv[i] = Nobody
  BY <1>3 DEF GoodRows
<1>9. \A p, m : [mail |-> m, item |-> i, to |-> p] \in v.mitems => v.inv[i] = Nobody
  <2> TAKE p, m
  <2>1. PICK r : r = [mail |-> m, item |-> i, to |-> p]
    OBVIOUS
  <2>2. r.item = i
    BY <2>1
  <2> QED
    BY <1>8, <2>1, <2>2
<1>10. ASSUME NEW p, NEW m, NEW q, NEW n,
              [mail |-> m, item |-> i, to |-> p] \in v.mitems,
              [mail |-> n, item |-> i, to |-> q] \in v.mitems
       PROVE  p = q /\ m = n
  <2>1. PICK r : r = [mail |-> m, item |-> i, to |-> p]
    OBVIOUS
  <2>2. PICK s : s = [mail |-> n, item |-> i, to |-> q]
    OBVIOUS
  <2>3. r.item = s.item /\ r.mail = m /\ r.to = p /\ s.mail = n /\ s.to = q
    BY <2>1, <2>2
  <2>4. r \in v.mitems /\ s \in v.mitems
    BY <1>10, <2>1, <2>2
  <2>5. r = s
    BY <1>3, <2>3, <2>4 DEF GoodRows
  <2> QED
    BY <2>3, <2>5
<1>11. ASSUME NEW h \in Holders(i), NEW k \in Holders(i) PROVE h = k
  <2>1. \/ \E p \in Players : h = <<p, 0>> /\ v.inv[i] = p
        \/ \E p \in Players, m \in MailIds :
             h = <<p, m>> /\ [mail |-> m, item |-> i, to |-> p] \in v.mitems
    BY <1>7
  <2>2. \/ \E p \in Players : k = <<p, 0>> /\ v.inv[i] = p
        \/ \E p \in Players, m \in MailIds :
             k = <<p, m>> /\ [mail |-> m, item |-> i, to |-> p] \in v.mitems
    BY <1>7
  <2> QED
    BY <1>9, <1>10, <2>1, <2>2, Keys
<1>12. PICK S : S = Holders(i)
  OBVIOUS
<1> QED
  BY <1>11, <1>12, AtMostOne

\* The rows themselves are the first of the queue.
LEMMA NoRowTwiceFollows ==
    ASSUME IInv
    PROVE  NoRowTwice
<1>1. SUFFICES ASSUME LoginsInOrder, NEW i \in Items PROVE Cardinality(RowHolders(i)) <= 1
  BY DEF NoRowTwice
<1>2. PICK f, v : Good(f, v)
  BY <1>1 DEF IInv
<1>3. GoodRows(db, mails)
  <2>1. History(f, queue, db, mails) /\ IsQueue(queue)
    BY <1>2 DEF Good, History
  <2>2. Len(queue) \in Nat
    BY <2>1, QueueAppend
  <2> QED
    BY <2>1, <2>2 DEF History
<1>4. ASSUME NEW h \in RowHolders(i)
      PROVE  \/ db.inv[i] # Nobody /\ h = <<"inventory", db.inv[i]>>
             \/ \E r \in db.mitems : r.item = i /\ h = <<"mail", r.mail>>
  BY <1>4 DEF RowHolders
<1>5. \A r, s \in db.mitems : r.item = i /\ s.item = i => r = s
  BY <1>3 DEF GoodRows
<1>6. \A r \in db.mitems : r.item = i => db.inv[i] = Nobody
  BY <1>3 DEF GoodRows
<1>7. ASSUME NEW h \in RowHolders(i), NEW k \in RowHolders(i) PROVE h = k
  <2>1. \/ db.inv[i] # Nobody /\ h = <<"inventory", db.inv[i]>>
        \/ \E r \in db.mitems : r.item = i /\ h = <<"mail", r.mail>>
    BY <1>4
  <2>2. \/ db.inv[i] # Nobody /\ k = <<"inventory", db.inv[i]>>
        \/ \E r \in db.mitems : r.item = i /\ k = <<"mail", r.mail>>
    BY <1>4
  <2> QED
    BY <1>5, <1>6, <2>1, <2>2
<1>8. PICK S : S = RowHolders(i)
  OBVIOUS
<1> QED
  BY <1>7, <1>8, AtMostOne

\* Once the queued writes are applied, the gold, the inventory and the mails of an
\* online player are in the rows as they are in memory: the saves of MailHandler.cpp
\* write all that the handlers change.  With one worker, for any number of players,
\* items and mails.
THEOREM MailRowsAgree ==
    ASSUME NumWorkers = 1
    PROVE  Spec => []RowsAgree
<1>1. IInv => RowsAgree
  BY RowsAgreeFollows
<1> QED
  BY <1>1, MailInvariant, PTL

\* No item is in two bags, two mailboxes or one of each, whatever HandleSendMail,
\* HandleMailReturnToSender, HandleMailTakeItem, the returner of expired mail, logins
\* and logouts do with it.  With one worker, for any number of them.
THEOREM MailItemOnce ==
    ASSUME NumWorkers = 1
    PROVE  Spec => []ItemOnce
<1>1. IInv => ItemOnce
  BY ItemOnceFollows
<1> QED
  BY <1>1, MailInvariant, PTL

\* At no moment, so after no crash, do character_inventory and the live mails of
\* mail_items hold an item twice: each handler of MailHandler.cpp and SendMailTo
\* commit what takes the item away before what gives it.  With one worker.
THEOREM MailNoRowTwice ==
    ASSUME NumWorkers = 1
    PROVE  Spec => []NoRowTwice
<1>1. IInv => NoRowTwice
  BY NoRowTwiceFollows
<1> QED
  BY <1>1, MailInvariant, PTL
=============================================================================
