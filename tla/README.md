# Verification of the Tortoise-WoW server core

TLA+ models of the concurrent and asynchronous core of this server (a MaNGOS
descendant in C++): the thread pools that update maps, the asynchronous
database, the sessions through which clients and modules log characters in, and
the two protocols by which players exchange items and money, mail and trade,
over the rows that persist them.
TLC checks the models on small instances; TLAPS proves their safety properties
for every value of the constants (all invariants but one, see section 4).
`PROJECT.json` maps every definition to source lines, lists the runs, a mutation of the code for every property, the findings
and the hazards the properties are aimed at.

Check a run with `tlc -config X.cfg M`, a proof module with `tlapm M.tla`.
Paths below are relative to `src/src/`.

## 1. The system

| Part | State | Operations | What is hard |
|---|---|---|---|
| `shared/ThreadPool` | workload, atomic index, generation, count of active workers, one future per batch | construct, start, `processWorkload`, `operator<<`, clear, destroy; workers wait, claim, run, leave | the join of a batch, workers that wake late, exceptions, destruction while a batch runs |
| `shared/MapTaskExecutor.h` | bounded queue, worker threads, futures of a group | construct (thread start may fail), `Submit` with inline fallback, `MapTaskJoin::Get`, `Stop` | captured map data must outlive its tasks; full queue; stop against submit |
| `shared/Database` (asynchronous) | one shared and three per-thread lanes, delay threads, result queue | `Execute`, `DelayQuery*`, `CommitTransaction`, `ProcessRequests`, callbacks, `StopServer` | order per serial id, starvation by priority, shutdown with operations in flight |
| `SqlTransaction`, MySQL connection | statements, attempt, connection, the server's transaction | begin, statements, commit, rollback, replay after a deadlock, reconnect | lost connections in the middle, ambiguous commits, replays |
| `SqlResultQueue` | two lanes of callbacks, burst counter | `Add`, `Update` under a portion and a time budget | starvation of the normal lane |
| `game/HeadlessSessionMgr`, login in `CharacterHandler`, `WorldSession`, `World` | pending and active headless sessions, deferred stops, the client's session, lingering sessions, login queries in flight, Players | start, stop, defer, promote, update, reclaim, ban, login, disconnect, shutdown | queries that come back after everything has changed; a client and a module wanting the same character |
| `game/Mail`, `MailHandler`, `MasterPlayer`, the mail returner of `ObjectMgr` | mailboxes of online players, purses and inventories, mail rows, requests and returns in flight | send, read, delete, return, take money, take item (with cash on delivery), save, log out and in, expire | memory and rows apart, several transactions per handler, lanes of different workers, queries that answer late, crashes |
| `TradeHandler`, `TradeData`, `Player` | two trade windows that face each other, accept flags, modification times | begin, set money, items and spells, clear, accept, unaccept, cancel, exchange | a change between two acceptances, inventories without room, items that leave while they are offered |

They interact as follows. The world thread runs the loop `World::Update`:
sessions and headless sessions (`UpdateSessions`), maps (`MapManager::Update`,
which publishes batches to `ThreadPool` objects; a map in turn hands cell
discovery and object updates to `MapTaskExecutor`), results of asynchronous
queries (`UpdateResultQueue`), module callbacks (`WorldScript::OnUpdate`).
Everything that persists goes through the asynchronous database: a Player's save
is one `SqlTransaction` with the character's guid as serial id; a login is a
query holder with the same serial id whose callback runs on the world thread
out of the `SqlResultQueue`. Mail and trade change the memory of the world at
once and send what they changed to the rows in transactions: keyed by a player's
guid where they save him, without a key where a new mail is stored.

Not modelled, with reasons, are the components with status `not_modelled` in
`PROJECT.json`: game rules (players, units, items, spells, AI, movement,
scripts), content (pools, events), pure I/O (sockets, logs, HTTP, Discord,
dumps, updater), third-party code, and the protocols still planned (section 7).

## 2. Modules

`MCx.tla` only extends `x` for TLC (with a symmetry set where one is used).
Operators introduced by `Fault:` are not part of a specification: each is a
plausible slip in the code, used to see that a property notices it.

### ThreadPool
A critical section under `m_mutex` is an action; the part of `RunWorker` without
the lock is one action per atomic access (`Fetch`, `Test`, `RaiseFailed`) or
callable (`Execute`). `Wake`/`SpuriousWake` make the condition variables
explicit. The constructor's modes are chosen by `Init`, the queue (`multi`) by
`StartWorkers`, as in the code. `Publish` is the common part of the two `processWorkload` overloads,
`Destroy`/`DestructorStep` the destructor. A callable is identified by the
generation it was queued in, so stale work can be seen. `ran`, `threw` and
`published` are history.

### MapTaskExecutor
`StartWorker`/`Constructed` (with a thread that cannot start), `StopRequest`,
`StopNotify`, `StopJoin`; per owner `BeginGroup`, `Submit`, `NotifyOne`,
`RunInline`, `Submitted`, `Get`, and `Unwind` for `~MapTaskJoin`; per worker
`Take` and `Run`.

### DelayedWork and AsyncDatabase
`DelayedWork` is what the asynchronous side promises: an accepted operation is
executed at most once, in the order of acceptance within its order class, and
its callback applied once, after it. `AsyncDatabase` is the detailed system:
routing to lanes, the three capped loops of `ProcessRequests` (`phase`, `quota`),
polling threads, results, and `StopServer` step by step down to the destruction
of the bodies. `Promise == INSTANCE DelayedWork WITH ...` in it maps the history
of accepted, executed and applied operations to the abstract variables, and
`KeepsPromise` is the abstract specification as a property. `OrderClass` says
which operations the lanes keep in order: the serial id of an operation, and no
class for work of high priority and for reads without a key.

### SqlTransaction
One `Execute` on a connection that may be live, dead or without a handle. The
MySQL server is external: `open`, `pending` and `durable` are its state; it
answers any command with success, an error, a deadlock or the loss of the
connection before or after carrying the command out. `CommandFails` and the
repetition of a plain statement on a new connection follow `HandleMySQLError`.
A transaction command on a null handle is undefined in the client library; the
process is taken to end there (`pc = "undefined"`).

### SqlResultQueue
Only the lengths of the lanes matter. Each lane has a lock of its own, so one
turn of `Update`'s loop is up to three steps, between which the delay threads
may `Add`: `PickNormal` (the counter is due: reset it and read the normal lane)
or `PickPriority`, then `TryPriority`, then `TryNormal`; the callback that is
found is executed in the step that finds it. `Leave` is the end of the portion
or of the time budget.

### HeadlessSessions
All actions run on the world thread and are atomic; what interleaves is their
order, and the login holders that come back at any later time. A headless
session is its request token. `pending` and `active` are the manager's two maps,
`loading` the sessions with `m_playerLoading`, `deferred`/`depth` the deferral
scopes, `owner`/`where` the session of a Player and whether it is in the world,
`current`/`login`/`closed` the account's session in `World::m_sessions`,
`disconnected` the lingering ones. `Start`, `StartPrepared`, `Stop`,
`BeginStopDeferral`, `EndStopDeferral`, `HandleLoginCallback`, `PromotePending`,
`Update`, `BanAccount` (with `StopForAccount`), `Shutdown` and
`ReclaimForNetwork` (inside `HandlePlayerLogin`) are the manager's operations;
`HandlePlayerLoginOpcode`, `HandlePlayerLogin`, `AddSession`, `CloseSocket`,
`UpdateClosed`, `ExpireDisconnected`, `NetworkLogout` the client's side. A loop
over all entries is one action that updates the maps as a whole.
`StartPrepared` contains its synchronous callback: after `ValidateStart` the only
outcomes are a loaded Player and a failed `LoadFromDB`. Inside a deferral scope
only module calls happen (and a ban or a lock may run out);
`docs/CORE_SYSTEMS_GUIDE.md:1045` excludes `StopForAccount` there. The hook
`OnBotLoginYield` is external: it does nothing or stops the session.

### Mail
The memory (`gold`, `bag`, `box`, `updated`) and the rows (`db`) are separate. A
transaction is a record of the statements it holds (`Nothing` holds none);
`Commit` appends it to `queue`, and `Execute` of a worker takes the first
transaction that `Route` gives to this worker, which is the routing and the order
of the lanes of `AsyncDatabase`; it applies the transaction, or rolls it back when
the primary key of `character_inventory` refuses an insertion. A handler is one
action with everything it does: `HandleSendMailCallback` charges the sender,
takes the item, puts the mail into the box of an online receiver and commits up
to three transactions in the order of the code; `ReturnMail` sends the mail back
(`SendBack`) or, when its sender is a hardcore character by then (`Hardcore`), lets
it vanish (`Drop`).
A query separates two actions:
`AskToSend`/`SendCallback`, `LoginRead`/`LoginFinish`, and the four steps of the
returner, `ReturnOrDeleteOldMails`, `OldMailsReturner`, `FindMailItem`,
`SingleMailReturner`. `Crash` drops memory and queue, and keeps the rows.
`exposed` is history: `stale` after a login that read the rows while a save of
the same player was queued; `crossed` when the returner commits statements about
a mail whose receiver was there, or had writes to it queued, since the returner
read its row (`returner.met`), and is not in the world now, so that "Do not
process online players!" does not stop it, or when a login reads the rows while such
statements are queued; `crash` after a crash. Refusals that depend on what the
model does not hold (faction, level, spam, scripts, text of the mail) are
requests that may be refused.

### Trade
`trade[p]` is `Player::m_trade`; `fresh` says whether `m_lastModificationTime`
is this second (`Tick` ends it), because the code compares whole seconds.
`HandleAcceptTrade` is the whole opcode with its early returns: too soon, not
enough money, a script that refuses (`Refuse`), first acceptance (`Accepted`),
second one (`Exchange` with `moveItems`, `ModifyMoney` and the two saves).
`MaxCount` limits how many items of a template a player may own. `CanStoreItems`
counts room for all incoming items together and holds each of them against its
limit alone (`CanTakeMore`), as the code does, so a store in `moveItems` may still
fail. `MoveSlot` has that fallback: both traders take back what they gave in this
slot (`TakenBack`); the list of positions is reused, so what comes back may come
with a copy (`StoreItem` clones for every position but the last), and without room
it is lost, with its row left in place (`limbo`). A save has its player's guid as
key; `Route` gives it to worker `key % NumWorkers`, `Execute` of a worker applies
the first of its own, and `Applied` finds a row by its item alone, as the
statements do. `BeginTrade` opens both windows. `TradeCancel` stands for all its callers (logout, teleport, death,
busy, ignore). `Elsewhere` is what other handlers of a trader may do to his
money and his items in mid-trade. `seen`, `stirred` and `deal` are history: the
offers a player accepted, who changed the window in this second, and the
exchange of the last step.

## 3. Runs

| Run | Bounds | Shows |
|---|---|---|
| `threadpool` | 2 threads, shared index or strides, 2 batches of up to 3 callables; AT_NEXT_WORKLOAD and UPPON_COMPLETION, NONE and LOG | a completed future means that every worker has left (`JoinsAllWorkers`), nothing runs twice, a future with a value means that everything published for it ran and nothing stale (`CompletionIsHonest`), the workload never changes under a reader; batches complete, the destructor returns |
| `map_task_executor` | 2 owners, 0 to 2 threads, groups of 2, queue of 1 | no owner leaves before its tasks, no task runs twice, a released owner has had everything it submitted executed, and its whole group if the join reported no failure (`ExecutedOnce`); destruction drains, nobody waits for ever |
| `async_database` | 2 threads, 3 operations, caps of 1 | refinement of `DelayedWork`; `HaltDelayThread` executes what it had accepted; no query loses its callback |
| `async_database_live` | 2 operations | accepted work is executed, `StopServer` returns |
| `sql_transaction` | 3 statements, 3 attempts, 2 lost connections | the answer of `Execute` is true of the database, a replay applies nothing twice, the connection is left clean, `Execute` ends |
| `sql_result_queue` | burst limit 4, portion 3, 3 waiting | the normal lane does not starve, overtaking is bounded |
| `headless_sessions` | 2 characters, 2 requests, 1 login, 2 connections, nesting 2 | no Player without a session (`EveryPlayerIsOwned`), bans reach every headless session, a headless login never meets a client's, deferred stops are applied as asked, no late holder revives a stopped request |
| `headless_live` | 1 character, 2 requests, 1 login, 2 connections | logins settle, stranded Players are stopped |
| `mail` | 2 players, 1 item, 2 mails, 1 login, 1 worker, 3 transactions waiting, 1 crash | once the writes are applied, rows and memory agree (`RowsAgree`); no item is held twice in memory (`ItemOnce`) or, at any moment and so after any crash, in the rows (`NoRowTwice`); no order of the steps creates money (`MoneyNotCreated`) |
| `trade` | 2 players with inventories of 2 and 4, 5 items and 2 possible copies, a template limited to 2, 1 spell, 2 slots, 1 coin each, 2 deals or other events, 4 saves waiting, 1 worker | a deal is about exactly the offers both accepted (`DealAsAccepted`); it gives each what the other offered and still has, unless a limit admits each item and not all, and even then takes nothing else from anybody (`DealConserves`); it reaches the rows of both (`TradeRowsAgree`) |

Two runs expect a violation; each is a finding in `PROJECT.json`:

| Run | Disagreement |
|---|---|
| `keyed_read_after_write` | a priority login query overtakes an earlier save with the same serial id |
| `mail_lanes` | with two workers, the save of a receiver who took the money of a mail is applied before the unkeyed INSERT of that mail, which then keeps its money in the rows |

**Bounds.** They are small where the code is symmetric in the bounded thing. Two
workers are enough for a worker that is late while another leaves; two batches
for one that wakes in the next batch; three callables for an index beyond the
workload. Caps of 1 make every loop of `ProcessRequests` end by its cap, and
three operations give one in a lane, one held and one in another lane. Two lost
connections allow one inside the transaction and one in the rollback. Two
headless requests give an old holder and its successor, or a session for each
character; two connections give a replaced session. The properties of
`headless_sessions` were also checked with two logins (5.2 million states) and,
for one character, with three requests and two logins (1.8 million).

In `mail`, two mails (`MaxMails`) give a mail and its return or its payment; the
sums are 1 so that postage, gift and price compete for a purse of 2, which is
also the cap. `MaxQueued`, the transactions waiting for all workers, is 3
because one handler commits up to three
transactions; a handler waits while its transactions do not fit, so the bound
only removes longer backlogs. `MaxLogins` of 1 gives a player who leaves and
comes back to what was sent, returned or expired meanwhile. The constraint
`LoginsInOrder` stops the search where a login overtook a save or the returner:
all four properties have it, or more, as a premise and it stays false for ever,
so nothing they say is lost. The constraint `CrashStopsExpiry` keeps the returner
idle after a crash; without it the same properties hold (2.5 million states), and
all but `MoneyNotCreated`, which does not speak of behaviours with a crash, are
proved without it. Player 2 is hardcore: what player 1 sent goes back when it is
returned, what player 2 sent, his returns with the item included, vanishes. The
other choices of `Hardcore` were checked as well. With one worker every save of a player is in order;
`mail_lanes` is the same instance with two. In `trade`, player 1
owns two items of a template limited to two and has no free slot; player 2 owns a
third and two items without a limit and has one. Each of the two limited items
passes `CanStoreItems` and both together do not fit the limit, so the fallback
happens: the second comes back, comes back with its copy, or is lost, by what
player 2 gives in the two slots; and every exchange needs the room that the given
items leave. `MaxEvents` of 2 gives two deals, or a deal before or after a loss, a
gain or a crash; `MaxQueued` of 4 lets the second deal be made while both saves of
the first wait, so that an item is traded over and back in the queue. `Copy` bounds
the copies to one of each of the two items that can be copied here. The constraint
`FewInWindows` limits what lies in the windows: four things at first; after one
event two traded items or one other thing (money, a spell, an item that is not
traded); after two nothing, since no deal can follow. The symmetry `Twins`
exchanges the two limited items of player 1 (with their copies) and the two
unlimited ones.

Deadlock checking is off in `HeadlessSessions`, where the server stops for good,
and in `Mail`, where the bounds on mails and logins end a behaviour.

**Fairness.** Weak fairness of every worker thread's step, of the destructor and
of the owners (the operating system schedules runnable threads; a mutex is held
for one action). In `AsyncDatabase` also of `Update`, which the world thread
calls every tick, and of `StopServer`'s steps. `SqlResultQueue` assumes that
`Update` is called again. In `HeadlessSessions` module callbacks come and go, so
the result queue, `PromotePending` and `Update` are disabled again and again
while a scope is open: strong fairness says that the world loop, which visits
all of them every tick, does so however many callbacks it runs, and that a
callback leaves its outermost scope. No client, module, ban, lock or logout request is ever
assumed to act.

## 4. Proofs

| Module | Theorems | Argument |
|---|---|---|
| `ThreadPoolProofs` | `TypeCorrect`, `JoinsAllWorkersTheorem`, `WorkIsImmutableTheorem`, `RunsOnceTheorem`, `CompletionIsHonestTheorem` | `JoinInv`, `HonestInv` |
| `MapTaskExecutorProofs` | `CapturesAreSafe`, `TasksRunOnce`, `NothingLeftBehind` | `ExecutorInv` |
| `AsyncDatabaseProofs` | `HaltIsComplete`, `CallbacksAreNotLost`, `ImplementsDelayedWork` | `DatabaseInv` |
| `SqlTransactionProofs` | `AllOrNothingTheorem`, `ConnectionLeftCleanTheorem`, `AppliedAtMostOnceTheorem` | `TxInv`, `OnceInv` |
| `SqlResultQueueProofs` | `ResultQueueTypeCorrect`, `OvertakingBoundedTheorem` | `ResultInv` |
| `HeadlessSessionsProofs` | `PlayersAreOwned`, `LoginsAreAlone`, `BanIsComplete`, `DeletionsHold`, `DeferredStopsAreApplied`, `StopsAreFinal` | `SessionsInv` |
| `MailProofs` | `MailInvariant`, `MailRowsAgree`, `MailItemOnce`, `MailNoRowTwice` | `IInv` (of `Mail`) |
| `TradeProofs` | `WindowsFaceEachOther`, `DealAsAcceptedHolds`, `DealConservesHolds`, `TradeRowsAgreeHolds` | `IInv`, `Stock`, `Settled` |

Each inductive invariant was first checked by TLC on the run's instance. The
recurring pattern is that a property about one moment (a future is completed, a
queue is empty, the database has stopped) needs an invariant that accounts for
everything that is on its way to that moment.

*ThreadPool.* That a completed future means no worker is inside the batch is not
inductive: it needs to know what `m_active` counts. `ActiveCountsOwing` says that
it is the number of participants that have not seen the current generation or
are still busy in it; `BusyIsCurrent`, `SeenIsPast` and `StoppedIsFresh` tie the
workers' local generation to the pool's, `FuturesMatch` the futures to `m_status`.
The last worker to leave then finds exactly itself owing. Assumptions: `Size`,
the bounds and the modes have their types; nothing bounds the number of threads,
callables or batches. `HonestInv` accounts for the callables: an index that was
drawn, from the shared counter or on a worker's stride, is held by one worker,
has run once, or was dropped by a failure (`Claims`, `Draws`); a worker that
goes on to leave has found no index left for it (`Through`); the workload keeps
its size while it is read (`Sized`); `m_failed` and the future tell of an
exception exactly when there was one (`Failures`); unless the mode is `NEVER`,
old callables are gone before new ones are queued (`FreshInv`). When all have
left, everything below the size of the batch is drawn: for the shared counter
because it is past the end, for a `MultiQueue` because the strides of all
workers cover every index once (the lemmas on strides, which need a little
division). `RunsOnceTheorem` and `CompletionIsHonestTheorem` follow, for both
kinds of queue.

*MapTaskExecutor.* Where a task is (not submitted, in the queue, with a worker,
inline with its owner, ready) has to agree with its future (`Placed`), and it
must not be in two places (`HeldOnce`, `QueuedOnce`); with them `RunsMatch`, a
future is ready exactly when its task was executed once, is inductive. `JoinKnows`
(a released owner reports a value exactly when every future of its group has one)
and `SilentBefore` (only a join reports) then give `ExecutedOnce`. `OwnerKnows` says that a released owner has seen all
futures it has submitted, which with `Placed` gives `CapturesOutliveTasks`.
`DestructionDrains` needs `Attended` (a nonempty queue has a worker that can be
joined, even when later threads failed to start) and `ExitsLast` (a worker
leaves only from an empty queue after the stop). Nothing bounds the owners,
threads, groups or the queue.

*AsyncDatabase.* `Placed` and `Known`: what was accepted is executed, in a lane
or in the hands of a body. `Ordered`: an order class has one lane, the lane one
body, and both hold increasing positions of `accepted`; this is why an
operation executed late cannot follow a younger one of its class, and with it
every step of `AsyncDatabase` is a step of `DelayedWork` or none
(`ImplementsDelayedWork`, by one lemma per action). `Control` says who may run
a body at each stage of `StopServer`; without it two callers of one
`ProcessRequests` could reorder a lane. `Emptied` follows the last, idle
`ProcessRequests` of each destructor through the lanes it has passed: that is
what makes `HaltPreservesAccepted` true although the lanes are emptied one
after the other. `Delivered` ties results to executed queries for
`NoCallbackLost`. Nothing bounds workers, serial ids, caps or operations.

*SqlTransaction.* `LoopInv` relates the counters to the place in `Execute`,
`OpenInv` says when a transaction can be open, and `ProgressInv` that, as long
as all tables are InnoDB and no statement was repeated on a new connection, the
pending statements are exactly the first `at - 1` and nothing is durable before
the commit. The exception, a statement repeated on a new connection, is real:
see section 5. `OnceInv`, with the same exception, is for tables of any engine:
each statement before the current one was applied at most once, durably or in
the open transaction, and the current one not yet; a replay starts with nothing
durable, because only a transaction on InnoDB tables alone is replayed.

*SqlResultQueue.* `OvertakingBounded` needs that `overtaken` never exceeds the
burst counter while a lane is being read and is at most one ahead of it before
a pick (`OvertakingCounted`), and that somebody waits while it is positive. The
bound `BurstLimit` is reached, not `BurstLimit - 1`: the turn of the normal lane
may find it empty and be spent just before a normal and a priority result arrive.

*HeadlessSessions.* `Registry` says what a request token is: it is issued once,
has at most one entry, pending or active, and belongs to one character. Every
handler but `Start` and `StartPrepared` is `Calm`: it moves or removes entries
and makes none, so a token without an entry never gets one back
(`StopsAreFinal`), whenever its login holder returns. `Scopes` ties a deferred
stop to the entry it was asked for and remembers that it does not save when the
character was deleted (`DeletionsHold`, `DeferredStopsAreApplied`). `Owned` is
`EveryPlayerIsOwned` with its second part, that a session has one Player,
without counting; it needs `HeadlessLoginIsAlone`, because a client's login that
met a headless one would leave a Player behind, and that again needs the
registry. Nothing bounds characters, requests, logins, sockets or nesting.

*Mail.* Rows and memory disagree nearly always, because the writes of a handler
wait in the queue; the invariant therefore speaks of the rows to come. `History`
says that f[n] are the rows after the first n transactions of the queue, that
all of them are well formed and hold no item twice (`GoodRows`), and that each
transaction finds what its handler believed when it queued it (`Fits`: the item
it inserts is in no inventory, the mail it stores is new, a keyed one writes only
mails of its player), so that none fails. `MemoryOK` says that the last of these
rows, v, agree with the memory of everybody who is online, and with what
everybody who is loading has read. One lemma per handler appends its transactions
one at a time (`SitNew`, `StatementSits` and `Stands` are the shapes of one such
step); `Execute` drops f[0], which is right because the one worker applies the
queue in order. `RowsAgree` is `MemoryOK` with an empty queue, `ItemOnce` is
`GoodRows` of v through `MemoryOK`, and `NoRowTwice` is `GoodRows` of f[0].

Two actors read f[0] and not v. A login does; `LoginAgrees` says that it gets
what v would give, if no transaction of its player and no statement of the
returner on one of his mails is queued. For that the item of a mail must not
vanish while its row looks untouched: the returner destroys an item two
transactions before it ends the mail, and `Dooms` says that what it takes out of
a mail it also ends later in the queue. The returner itself acts on rows it read
three steps before: `ReturnerOK` says that, unless it met the receiver, nothing
in the queue writes its mail and the item it has found is still there. That it
does not go on about an online receiver is its own guard (`NotOnline`). It was the
proof of this step that made `returner.met` necessary: without it TLC finds, with
three mails, a receiver who logs in, takes the item, mails it on and logs out
while the returner waits for its answer, and whose item is then destroyed
(section 5).

The theorems have the premise `NumWorkers = 1`, the default of
`Database.WorkerThreads` (`mangosd/Master.cpp:813`). It is necessary: with two
workers `mail_lanes` violates `RowsAgree`. The distributed configuration sets 4
for the characters, so the theorems say what the code guarantees with the default
and the run says what is lost with the distributed value. `NoRowTwice` needs the
premise too: on the instance of `mail_lanes` TLC refutes it after a mail is sent and
one transaction applied, when the worker of the unkeyed INSERT is ahead of the one
that removes the item from the sender's inventory. Beyond that nothing
bounds players, items, mails, logins, money or the queue.

*Trade.* `IInv` is `WindowsOK(trade, stirred)`: the windows have their types;
`Paired`, an open window faces an open window that faces it back; `AllSee`, who
has accepted still sees the offers he accepted; `Marks`, a window stirred in
this second is marked on both sides. All four are needed. `AllSee` carries the
first acceptance to the second; it rests on `Paired`, because every setter
withdraws the acceptance of "the trader's window", which is the right one only
if the windows face each other; and that nothing was changed in this second
needs `Marks`, since the code tests only the accepting player's own time. The
lemma `TwoWindows` reduces a change to the two windows it touches, and one lemma
per operation of `TradeData` (`SetMoneyClears`, `SetSpellClears`,
`SetItemClears`, ...) says that it withdraws both acceptances or changes
nothing.

`Stock` accounts for what is owned, with any number of workers. `Spread`: no item
lies in two slots of a window. `Apart`: nobody owns what another owns, in memory
(`bag` and `limbo` together) and in the rows. For `DealConserves`, the lemma `Moved`
says that `moveItems` gives each exactly what the other gives if the limits admit
all of it. It is proved by the least slot where that fails: `Spread` makes the item
of a slot new, so what was moved before it is smaller than the whole, for which
`CanStoreItems` has found room (`Fits`) and the limits have room (`LimitsShrink`).
When they do not admit it, `MovedAnyway` follows the fallback in the same way: `Way`
says what the two may own after the first n slots (what they kept, what these slots
offered, and copies), within their room (`RoomKept`), and `Together` that a slot is
exchanged whole or not at all.

`Settled` is `Leads(queue, rows, Memory)`: there is a sequence of rows that begins
with the present ones, of which each follows from the one before by the next
waiting save, and that ends with what memory says (`Trace`), items in `limbo`
included, because nothing deletes their rows. A handler extends it by its saves
(`SaveQueued`, with `DealSaves` for the two of a deal and `OtherSave` for the rest),
a worker drops its first element (`SaveApplied`); with an empty queue it is
`TradeRowsAgree`. The last needs that saves are applied in the order of the queue,
so `TradeRowsAgreeHolds` has the premise `NumWorkers = 1`. As with mail that is the
default (`mangosd/Master.cpp:813`) and not the distributed value of 4, and it is
necessary: with two workers TLC refutes `TradeRowsAgree` on the instance of
`trade`, see section 5. The other theorems hold for any number of workers, and
nothing bounds players, items, limits, spells, slots, room, money or saves.

The assumptions on the constants are the named `ASSUME`s of the modules, which
TLC evaluates in the runs.

**Only model-checked:** all liveness (the prover has no ENABLED), and
`MoneyNotCreated` of `Mail`: it compares sums over all purses and mails, which
`SumFunction` defines by a fold, and how such a sum changes with one of its terms
needs an induction over the set that the provers cannot do. The `TypeOK` of `ThreadPool` is checked and proved; that of
`SqlResultQueue`, `MapTaskExecutor`, `AsyncDatabase` and `HeadlessSessions` is
proved, alone or as a part of the inductive invariant; that of `SqlTransaction`
documents the variables and is not part of a run.

## 5. Limits of the models

- Memory is sequentially consistent. In the modelled files only diagnostics use
  `memory_order_relaxed`.
- `AsyncDatabase`: the keep-alive ping is left out, and so is the start-up, in
  which asynchronous execution is not allowed yet and a caller executes his
  statements himself (`shared/Database/Database.cpp:573`); a call that races with
  `m_threadsBodies.clear()` reads freed memory and is excluded.
- `SqlTransaction`: multi-statement requests, queries and conversions are left
  out.
- `HeadlessSessions`: one account; the contents and the age of the rows in a
  login holder, `characters.online`, the deletion of characters, packets and the
  session queue are left out. A banned client may still connect in the model,
  which only allows more.
- `Mail`: the transaction by which a returned mail saves its item for the new
  owner (`game/Mail/Mail.cpp:262`) writes `item_instance` only, of which the model
  has no row. Left out are senders that were deleted, the cap of 100 mails, anonymous mail, mail templates,
  text items, the second expiry of a returned mail, the returner at start-up,
  mass mail, and handlers that interleave inside one another (`CMSG_SEND_MAIL`
  runs on the thread of the sender's map and pushes into the receiver's mailbox,
  which has no lock, `game/Protocol/Opcodes.cpp:624`).
- `Trade`: stacks that merge, bags that hold only some kinds of items and what a
  spell cast on an item does to it are data of the inventory and not in the model:
  an item takes one slot, and any slot will do. An offer is the guids in the
  window (`OfferOf`); the partner's client shows only the items that are still in
  the inventory (`TradeHandler.cpp:100`).
- `Database::getQueryConnection` is not modelled: its counter reaches the
  wrap-around, where the index becomes negative, after 2^31 synchronous queries.

Behaviours the models show, or that were read in the code next to them, which
no property forbids:

- An operation accepted after `HaltDelayThread` has set `m_numAsyncWorkers = 0`
  and before `m_pAsyncConn` is deleted returns true and is never executed
  (`shared/Database/Database.cpp:268`).
- A plain statement that loses its connection in mid-transaction is repeated on
  the new connection, outside the transaction the server has rolled back; the
  rest becomes durable and `Execute` returns true
  (`shared/Database/DatabaseMysql.cpp:367`; `reissued` in the model). A failed
  reconnection leaves a null handle that the transaction commands do not test
  (line 381).
- `HandlePlayerLoginOpcode` reads the headless state before the yield hook of a
  module and uses it after it; if the hook stopped the session, the client's
  login fails and has to be repeated (`game/Handlers/CharacterHandler.cpp:321`,
  347).
- Players that linger without a socket when the server stops keep the save of
  their disconnection (`game/World.cpp:234`); a headless entry left behind by an
  immediate logout sets `characters.online = 0` for a character a client has
  taken over (`game/HeadlessSessionMgr.cpp:191`); `WorldSession::Update` may
  erase the entry of `m_sessions` that `UpdateSessions` iterates over
  (`game/World.cpp:4023`).
- A crash between the transactions of one handler keeps the money of a mail in
  both places (`game/Handlers/MailHandler.cpp:536`) or saves one trader only
  (`game/Handlers/TradeHandler.cpp:576`); items are not duplicated by it in the
  mail model (`NoRowTwice`).
- A player whose rows are read but who is not in the world yet is not found by
  the mail returner (`game/ObjectMgr.cpp:4881`): the mail goes back and is in his
  mailbox all the same (`crossed` in the model).
- The mail returner asks whether the receiver is online (`game/ObjectMgr.cpp:4881`)
  and not whether he was since its queries: of a mail that was returned before, he
  may log in, take the item, mail it on and log out, and the returner then deletes
  the `item_instance` of an item that lies in another mail (`crossed` too; no
  document says what should happen).
- With several workers the saves of two traders are applied in either order. An
  item that is traded over and back while the saves wait, or traded before the
  INSERT of its row, may leave its row with the wrong player
  (`shared/Database/Database.cpp:645`); TLC finds this on the instance of `trade`
  with two workers.
- Two items of a limited template pass `CanStoreItems` one by one
  (`game/Objects/Player.cpp:11741`), and the second cannot be stored after both
  were removed. The fallback (`game/Handlers/TradeHandler.cpp:222`) gives both items
  of the slot back, with a second copy where the list of positions already held one,
  or loses them until the next login, when the row they have kept gives them back
  (`limbo` and `Copy` in the model).
- When an offered item leaves the inventory, the partner's acceptance stands and
  he gets what is left (`game/Objects/Player.cpp:541`); a spell put into the
  window does not mark `m_lastModificationTime` (`Player.cpp:605`).
- Money above `MAX_MONEY_AMOUNT` is cut off (`Player.cpp:16483`).

## 6. Properties that make the planned components correct

| Component | State and operations | Properties |
|---|---|---|
| Login with stale rows (`HeadlessSessions` over `AsyncDatabase`) | version of the rows, saves in a lane, holders | a loaded Player has the last accepted save |
| Map phases (`MapManager`, `Map`) | phase, delayed teleports, relocations, atomic cursor | no Player is in two maps or in none; no relocated unit is dropped when the time limit hits |
| Loot rolls (`Group`) | votes, timer, members | an item is given exactly once, whatever members leave |
| LFT | queue, offers, answers, timeouts | a player is in one offer or group; an offer ends |
| Auction over `Mail` | bids, buyout, expiry, cancellation | money and items are conserved over every order |
| Guild bank | limits, deferred save | limits hold; a crash loses no item |
| Shop | balance, pending answers | a purchase is charged once and delivered or refunded |
| Battleground queue | invitations, timers | a player is in one match; invitations end |
| Instance binds | resets, binds | no bind to a deleted instance |
| `realmd` | protocol state of a connection | no realm list before a proof |

## 7. Plan

1. Done: `ThreadPool`, `MapTaskExecutor`, `DelayedWork` and `AsyncDatabase`,
   `SqlTransaction`, `SqlResultQueue`, `HeadlessSessions`, `Mail`, `Trade`;
   proofs about all of them.
2. Extend: saves and row versions composed with `HeadlessSessions` and the lanes
   of `AsyncDatabase`; the map phases and relocation batches over an abstract
   batch promise that `ThreadPool` implements; the auction house over `Mail`;
   loot rolls; LFT; shop; battleground queue; `realmd`.
3. Prove: `MoneyNotCreated` for `Mail`, over sums given by a recursive function
   on mail ids and players instead of a fold, if a prover for induction becomes
   available.
