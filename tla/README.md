# A TLA+ verification of the gundrak world server

gundrak is a TrinityCore 3.3.5 world server with its authentication server and its
database layer, in C++. This directory holds TLA+ specifications of the parts of
it where threads, connections, queues and clients meet, the TLC configurations that
check them on small instances, and theorems about them with proofs for TLAPS.

Every definition is a translation of the source; `PROJECT.json` says of which lines.
Paths below are relative to `src/src/`.

## 1. The system

### Threads

A worldserver process (`server/worldserver/Main.cpp`) consists of

* the **world thread**, `WorldUpdateLoop` -> `World::Update`: every tick it lets the
  sessions that network threads handed over into the world, updates all sessions
  (the handlers of the packets that are not map-bound), updates all maps, and runs
  the callbacks of finished queries;
* **network threads** (`shared/Networking`), each with an asio service, which accept,
  decrypt, authenticate and close sockets, and push packets into sessions;
* **database workers**, `WorkerThreads` for each of the three databases, which
  execute queued SQL operations;
* **map update threads**, `MapUpdate.Threads`, which update maps in parallel while the
  world thread waits for them;
* the console, remote access and SOAP threads, whose commands are queued for the
  world thread, a freeze detector, and the logging strand.

They share: three `DatabaseWorkerPool`s and their queues, `World::addSessQueue`,
`MapUpdater`'s queue and counter, each session's packet queue, each socket's write
queue, the loggers' queue, and the free list of instance ids.

### Inventory

| Component | State it keeps | Operations | What is hard | What makes it correct |
|---|---|---|---|---|
| Work queue (`common/Threading/ProducerConsumerQueue.h`) | queue, shutdown flag, blocked consumers | Push, Pop, WaitAndPop, Cancel | notify_one reaches one thread, which may be late; spurious wakeups | no lost wakeup; nothing handed out twice |
| Asynchronous database workers (`database/Database/DatabaseWorker*`, `DatabaseLoader.cpp`) | connections, a thread each, a shared queue | Open, a second Open, Enqueue, worker loop, Close, destructor | thread older than its connection; join in a destructor; cancelling a queue others use | each operation once, on an open connection; Close returns; what is accepted is executed |
| SQL transactions (`Transaction.cpp`, `MySQLConnection.cpp`) | statements, position, errno, retry count, retry lock, the server's session | ExecuteTransaction, both retry loops, `_HandleMySQLErrno` | deadlocks with other connections; a connection lost between two statements | atomic, executed once, truly reported |
| Synchronous connections (`DatabaseWorkerPool.cpp` GetFreeConnection, KeepAlive) | one mutex per connection | try-lock round robin, unlock | spins for a free connection | exclusion; a caller gets one in the end |
| Query callbacks (`QueryCallback*.cpp`, `QueryHolder.cpp`) | a future and a chain of callbacks per query | WithCallback, WithChainingCallback, ProcessReadyQueries | callbacks that add callbacks while the list is walked; owners that die first | each callback once, in the chain's order, on its owner's thread |
| Map update threads (`game/Maps/MapUpdater.cpp`, `MapManager.cpp`, `MapInstanced.cpp`) | queue, pending counter, base maps, instances | schedule_update, wait, update_finished, deactivate, Update of all maps, creation and destruction | requests that schedule requests, instances deleted during the tick, shutdown order | the world thread goes on only when nobody updates; one update per map and tick |
| Instance ids and saves (`MapManager.cpp`, `game/Instances`, `Player.cpp`, `Group.cpp`) | id bitmap, next id, saves, binds of players and groups, two tables, reset queue | GenerateInstanceId, FreeInstanceId, AddInstanceSave, binding, entering, leaving, every reset | ids freed by map threads; ids freed while the map lives; save, map, binds, rows and id die at different times | an id belongs to one instance; binds and saves agree; resets spare permanent binds and occupied maps |
| World sessions and login queue (`game/World/World.cpp`, `game/Server`) | m_sessions, m_QueuedPlayer, addSessQueue, m_disconnects, limit; per session: socket, character, flags | authentication, arrival, replacement, queueing, admission, update, kick, deletion | sessions deleted while several containers point to them; unsigned counts taken before removals; twice-called removal | no dangling pointer; nobody forgotten; limit and order of the queue hold |
| Sockets (`shared/Networking`, `game/Server/WorldSocket.cpp`) | closed and closing flags, write queue, the threads' socket lists | accept, read, write, DelayedCloseSocket, CloseSocket | close from another thread than the owner's; short and refused writes; the session deleted while a handler runs | packets whole and in order; a refused client is closed; no use of a deleted session |
| Authentication server (`authserver`) | protocol status, realm list | challenge, proof, reconnect, realm list | queries outstanding between packets | only the proper order of packets gets through |
| World process (`worldserver`) | stop flag, exit code, freeze counter | start, loop, shutdown, commands | order of the shutdown | all is saved before the pools close |
| LockedQueue, MPSCQueue | a list, lock-free in the second | enqueue, dequeue | a lock-free push is visible late | no element is lost or doubled |
| Timers and events (`common/Utilities`) | event lists | AddEvent, KillAllEvents, Update | events that change the list that runs them | each event runs or is aborted once |
| Maps, grids, transports | grid states, object lists to move and remove | load, unload, AddObjectToRemoveList, DelayedUpdate | lists changed while they are walked | no object of an unloaded grid is updated |
| Dungeon finder | queues, proposals, role checks, boots | join, leave, proposal answers, timeouts | many players' answers and timeouts in any order | a player is in one queue state |
| Battlegrounds, arenas | queues, invitations, events | join, invite, accept, remove events | invitation that expires while accepted | team sizes; nobody in two games |
| Groups and loot rolls | members, leader, rolls | invite, remove, disband, vote, timeout | members that leave during a roll | one winner for an item |
| Trade, mail, auctions | both traders' slots and flags, mails, bids | offer, accept, cancel, exchange; send, take, bid, expire | offers that change after the other has accepted; items and money of two owners in one transaction; limits and full bags | what was accepted is what is given; conservation of items and money |
| Guilds, petitions, calendar | members, ranks, bank | bank rights, withdrawals | daily limits | nobody withdraws beyond the rank's limit |
| Players, creatures, items; combat, spells, movement, AI, scripts; remaining world services; common libraries; tools | game data and content | | size of the data, not control | outside of what is modelled |

### How they interact

A login goes through most of it. A network thread reads `CMSG_AUTH_SESSION`, asks the
login database (workers, callbacks), makes a `WorldSession`, asks for its permissions,
and puts it into `addSessQueue`. The world thread takes it out in
`World::UpdateSessions`, deletes an older session of the account, lets the new one in
or queues it, and initialises it with another query, whose callback runs in the
session's own update. A packet of the client asks for a character; its query holder's
callback puts the player into a map. The maps are updated by the map threads, during
which sessions' map-bound packets run. A logout or a closed socket saves the character
in a transaction (worker, retries) and ends in `RemoveQueuedPlayer`, which may let the
next player of the queue in. At shutdown `KickAll` and a last `UpdateSessions` save
everybody, the maps are unloaded and their threads joined, and then the pools close.

## 2. Modules

| Module | Models | Lines of control |
|---|---|---|
| `ProducerConsumerQueue` | the queue under one lock, with the condition variable as the set of blocked consumers | each method an action fragment that its users conjoin |
| `DatabaseWorkers` (extends the queue) | the asynchronous half of a pool: main thread, workers, callers | `stage[w]` is the connection in the main thread's calls, `pc[w]` the thread in `WorkerThread` |
| `AsyncExecution` | what the pool promises | implemented by `DatabaseWorkers` |
| `SQLTransactions` | one execution of each transaction with retries, errors and reconnections; the MySQL sessions are external | `pc[c]` is the statement that connection c executes next |
| `AtomicTransactions` | atomicity, for what no fault has struck | implemented by `SQLTransactions` |
| `MapUpdater` (extends the queue) | the tick, the workers, creation and destruction of maps, shutdown | `world` is the world thread's place, `pc[w]` the worker's |
| `MapTicks` | what `MapManager::Update` promises the game | implemented by `MapUpdater` |
| `WorldSessions` | sessions from authentication to deletion and the login queue | `stage[s]` is where a session is, `todo` the accounts UpdateSessions has still to visit |
| `InstanceIds` | the bitset of instance ids with its hint, freed by map threads without a lock | each method a fragment that `Instances` conjoins |
| `Instances` (extends the ids) | instance maps, saves, binds of players and of a group, the tables, entering, leaving and the resets | `world` is one record, each call an operator from record to record, each handler an action |
| `MPSCQueue` | the lock-free queue of outgoing packets | the exchange and the store of an Enqueue are separate steps |
| `WorldSocket` (extends the queue) | one connection: network thread, senders, client, session | `step` is where the network thread is, `query` the answer it waits for |
| `PacketStream` | what a client sees of the packets | implemented by `WorldSocket` |
| `Trade` | trade between players: offers, acceptances, exchange, saving, restart | `trade[p]` is `m_trade`; one action for each handler and each way `HandleAcceptTradeOpcode` returns |
| `DataLemmas` | facts about sequences without repetitions, and about folds and sums over finite sets | used by the proofs of `DatabaseWorkers`, `MapUpdater`, `WorldSessions` and `Trade` |
| `DatabaseWorkersProofs`, `SQLTransactionsProofs`, `MapUpdaterProofs`, `WorldSessionsProofs`, `InstancesProofs`, `WorldSocketProofs`, `TradeProofs` | theorems | section 5 |
| `MCSQLTransactions`, `MCMapUpdater`, `MCWorldSessions`, `MCInstances`, `MCWorldSocket`, `MCTrade` | instances for TLC (`DatabaseWorkers` needs none) | |

An operator whose comment begins with `Mutant:` is a faulty version of the operator that
follows it. No specification uses it; it is what a property has been tried against.

### Queue and database workers

All methods of the queue hold its mutex, so each is one step; only the wait in
`WaitAndPop` gives it away, so a consumer that finds nothing enters `waiting`
(`BlockOn`) and leaves it by a notification, a spurious wakeup or Cancel, after which
it evaluates the loop's condition again (`Receive`, `ReceiveNothing`). A consumer that
was notified and has not run yet is simply one that is not in `waiting`: another one
may take the element first.

`DatabaseWorkers` follows the life of a pool: `Open` makes the connections one by
one, each with a running thread before it is connected; a failure destroys those
made so far; the loader may then create the database and open the same pool again
(`OpenAgain`); `Close` destroys each connection (token, Cancel, join, mysql_close),
and the destructor of the pool cancels the queue once more. Callers enqueue only
while the pool is open. The steps inside a destructor are separate actions, because
the thread runs between them.

### Transactions

An action is the answer of the server to one statement (START TRANSACTION, a statement of the
transaction, ROLLBACK, COMMIT) and what the client makes of it: success; a deadlock, answered
to a statement or to COMMIT (only if another session holds locks); an error, answered to any
of the four; a lost connection (with the statement executed or not); `std::abort`, which ends
the process, after a parse error or when statements cannot be prepared again. The loops of
`TransactionTask::Execute` and `DirectCommitTransaction` repeat the call after a
deadlock, the first under a lock. `_HandleMySQLErrno` tries to reconnect
`MaxAttempts` times, then aborts the process; after an unexpected errno it gives up
with a null handle.

The answers to START TRANSACTION, ROLLBACK and COMMIT are not looked at, as in the code
(`Fail`). Two histories say for which transactions that matters. `struck` has those whose
connection was lost between START TRANSACTION and the answer to COMMIT, and those whose START
TRANSACTION was refused (their statements commit one by one) or whose ROLLBACK was (what they
left behind is committed by the next START TRANSACTION of the connection). `ignored` has all
for which one of the three was answered with an error: a transaction whose COMMIT was refused is
rolled back by the server and reported executed. Everything that is said of transactions in
the database holds for all that are not struck, those with a refused COMMIT included; what is
said of reports ("executed") leaves out those in `ignored`.

### Map updater

A request is identified with its map. The update of an instanceable base map visits
its instances and schedules or destroys each (`ScheduleInstance`, `UnloadInstance`),
in the worker. The increment of `pending_requests` and the Push are one step because
`schedule_update` holds the lock over both and `wait` needs the lock to see the
counter; a worker that took the request early would need it too before anybody can
tell the difference. Maps are created between the ticks and in `DelayedUpdate`.
With `MapUpdate.Threads = 0` the world thread updates the maps itself; that case has
no interleaving and is not modelled.

### World sessions

`WorldSessions` has one action for each handler: the two callbacks at the end of the
authentication, the closing of a socket at any time, the three ways `AddSession_` ends
(new, replacing, refused because the older session's character is loading), the
handlers and callbacks that change what a session is, the two ways a session's update
ends, the kicks, and the change of the player limit. `RemoveQueuedPlayer` is one operator that
returns what is left of the queue and who was admitted: like the code it takes the
count of active sessions before it looks for the session, corrects it only if the
session was not queued, and is called twice for a session that is removed.
`init` separates the moment a player is let out of the queue from the moment the
callback clears `m_inQueue`.

Packets are reduced to login and logout; what a login loads is not modelled.
A deleted session object is used again, so that reconnections never run out.

### Instances

`InstanceIds` is the bitset with its hint. The world thread generates ids; it frees one
when an instance is reset, and the map threads free those of battlegrounds they destroy.
They take no lock, so that `FreeInstanceIds(B)` lets any of the writes be lost but the
last, of the hint and of the bits. `issued` is a history of what was given out.

`Instances` adds all that hangs on an id. A save is deleted when its last bind goes and
its map is empty (`UnloadIfEmpty`), a map when its unload timer runs out, rows when a reset
or an unbinding deletes them, and the id is free again when a reset event comes due. Entering a
dungeon takes several steps: the teleport, the client's answer (`Arrive`), the choice of
the instance (`Destination`, `CreateInstanceForPlayer`), and `AddPlayerToMap`, which checks the choice against the
binds once more. A player in transit is still linked to the map he leaves. The
two rows of a player for two saves of one dungeon, an INSERT that fails because a row
is there and an UPDATE that finds none are as the SQL makes them. `sound` becomes false
where an `ASSERT` or one of the checks that log an error would fail.

A login into an instance puts the player into its map also when the save was reset meanwhile:
`Player::LoadFromDB` (17437-17441) then moves him to the entrance, which is the target of the
trigger that `GetMapEntranceTrigger` finds for this same map, so that he is in the instance all the
same, at another place of it. Only a map without such a trigger would send him home.

### Connections

`WorldSocket` follows one connection. The network thread's update is cut into the steps
between which another thread can act: begin, each packet that is dequeued into the buffer,
the end of it, `Socket::Update`, each write, the ready queries. A write is whole, short,
refused or would block; a message without bytes is popped like an error, as in
`HandleQueue`. `CloseSocket` is split at its exchange, because the thread that comes
second returns at once and may delete the session before the first has reached
`OnClose`. `sending[t]` and `link[t]` are a sender between its look at `IsOpen`, its
exchange and its store. The answers to the three queries of the authentication run in
the update, before the session is known to other threads. The queue is `MPSCQueue`,
whose items are at the same time its nodes.

`World.cpp:296` says "Still there is race condition in WorldSession* being used in the Sockets".
What the model shows of it is this. Handlers of packets use the session under
`_worldSessionLock` and test the pointer. `LoadSessionPermissionsCallback` (610-616) uses it without the
lock, but before anybody else knows the session, and it is still the socket's
(`SessionIsNotUsedAfterFree`). Between the exchange in `CloseSocket` and `OnClose` the socket may
still have a session that is already deleted, but the thread that is there does nothing with it but
to forget it. One use is left: a duplicate CMSG_AUTH_SESSION (`WorldSocket.cpp:339-345`)
only tries to get the lock, and calls `GetPlayerInfo` without a test. When the world
thread has closed the socket since the read was completed and has been through `OnClose`, the pointer is
null there (`DuplicateAuthSession`, whose second alternative ends in the step "crashed").
`WorldSocket.h:90` says "accessing WorldSession is not threadsafe, only do it when holding
_worldSessionLock", which 344 keeps and 598-615 do not.

The session here and in `WorldSessions` is the same object seen from its two sides:
`WorldSessions` has of the connection that it closes at any time, `WorldSocket` has of the world
that it sends, kicks, lets go of the socket and deletes the session in some order.

### Trade

The handlers run one at a time. `trade[p]` holds the trader, slots (the last one, which
is not traded, included), gold, whether a spell is pending for the trader's
last slot, and the acceptance. `HandleAcceptTradeOpcode` is split by its returns:
`AcceptAndWait` (refused by distance, money or an item, or the other has not accepted),
`SpellFails`, `DoesNotFit` and `Exchange`; the acceptance is set before the checks,
and like the code some of these leave it set. `Exchange` removes all items, stores them
slot by slot with `moveItems`, pays with `ModifyMoney`, deletes both TradeData and hands the saves of
both players to the database in one transaction. Where one of a pair of items cannot be stored, both go
back to their owners; the list of positions then still holds the place found for the
other item, and `StoreItem` puts a copy there (`ReturnItem`, `CloneItem`).
In between, stacks are used up and destroyed, money is spent, and players are saved alone.

`CommitTransaction` only enqueues a save. `saves` is what waits for the workers, and each element
has the players and items whose rows it writes and what the tables hold when all
up to it have been executed. `ExecuteTransaction` executes one of the first `Workers` of
them, because each worker has taken one and they finish in any order; `db` is what the tables hold.
The process may die at any moment: it restarts from `db`, and what waits is lost. So an item
that somebody has need not be stored with that player yet. What is promised, and checked, is that an
exchange is never split: `TradesAreDurable` speaks of the tables as they are and as they
will be after each save that waits, and a restart takes back whole exchanges only.

This rests on one worker for the character database, the default of `worldserver.conf.dist`
(113-123). With two, TLC refutes `TradesAreDurable`: an older save of one trader, still in the hands of one
worker, is executed after the save of the exchange by the other. No document promises
otherwise, so that this is no finding; it is the assumption `Workers = 1` of the theorems. That a
transaction takes effect as a whole and is executed at all is the subject of `SQLTransactions`: a
save that is given up after an error or too many deadlocks is not modelled here. A save writes the rows of all items
a player has, where the code writes those that have changed: with one worker the others
are already so.

Distance, binding, tradeability and `CheckCast` are left open: they refuse or not.
A stack is not merged with another, and limited kinds are not stackable.

## 3. What is checked

| Run | Instance | Shows |
|---|---|---|
| `database_workers` | 3 workers, 3 operations, auto setup | no lost wakeup, no overtaking in the queue, calls only on open connections, implements `AsyncExecution` with one owner and one fate for each operation; accepted operations are executed if the first Open succeeded, Close ends |
| `database_autosetup` | 2 workers, 2 operations, auto setup | violation: finding 1 |
| `sql_transactions` | 2 asynchronous connections and a synchronous one; transactions of 2 and 1 statements; every kind of fault at every statement, one lost connection; 2 retries, 2 attempts | whatever the server answers, a fault harms only the transaction it struck; `AtomicTransactions` implemented (whole, once, for good); `ResultIsTrue`; every transaction is settled |
| `sql_atomicity` | an asynchronous and a synchronous connection, the same transactions, lost connections only | violation: finding 2 |
| `map_updater` | 3 threads, 2 base maps, 3 instances of one of them | exact counter, sound requests, `MapTicks` implemented, ticks and shutdown end |
| `instances` | 2 players who may form a group, a dungeon and a raid, 2 ids, 2 visits, 2 battlegrounds; symmetric players; 88 thousand states | no id given out before it is freed, binds match saves, no assertion fails, nobody in a map that unloads, occupied maps are spared by players and groups |
| `instances_permanent` | the same players, the raid alone, 1 id, 3 visits | violation: finding 3 |
| `world_sessions` | 3 accounts, 4 sessions (one account reconnects), one place, no tolerance | live pointers, sound queue, limit, no idle place, order of the queue |
| `world_sessions_live` | 2 accounts, 3 sessions; the limit changes between none and 1; one account skips the queue; two updates of grace; 89 thousand states | closed sessions are counted down and removed while the limit changes and newcomers arrive |
| `world_sessions_tolerance` | 2 accounts, 3 sessions, tolerance 2 of 3 seconds | violation: finding 4 |
| `world_socket` | 3 packets (one byte, a buffer, more than a buffer), 2 sending threads and the network thread; 78 thousand states | sound queue, implements `PacketStream`, no session used after it was deleted, none taken from an open socket; the refused are closed, and packets are written to the last byte |
| `trade` | 2 players, relics limited to 2 (two and one of them), a stack of 2, bags of 2 and 3 places, a coin each of at most 2, 2 slots and the one not traded, one loss, one worker, 2 saves that wait; 316 thousand states | paired trades, current acceptances, only what was offered is given, items and money are conserved, an exchange survives a restart whole or not at all, also while saves wait |

The runs check what could be wrong in several steps. The type invariants, and the structural
invariants that only say how the parts of one component go together (`Lifecycle`, `NoEarlyExit`,
`Threads`, `SleepsForAReason`, `RequestsStayInTick`, `ConnectionsExact`,
`DelayedCloseWillHappen`), are parts of the invariants that section 5 proves for every value of
the constants, so that no run repeats them.

### Bounds and why they are enough

* Three workers: one can be notified, a second take the element first, and a third
  sleep; the third operation may be queued behind a busy or a sleeping worker. The run has no
  symmetry because it checks liveness.
* Two transactions, one of two statements, are the least that deadlock and that can be torn;
  the path of an empty transaction, on which `ExecuteTransaction` returns -1, is in the proofs only. `MaxRetries` and
  `MaxAttempts` are 5 in the code: 2 takes every branch (first, repeated, last).
  `MaxLosses` 1: a connection is lost once, and reconnecting to it may fail and be refused. With an asynchronous
  and the synchronous connection only, three losses were checked too (889 thousand states).
  `applied` counts up to 2, which is enough to see that a statement took effect twice.
* Three instances of one map and a base map without: a worker can be in the middle
  of its instances while two others update one, and another base map is queued behind.
* One place and three accounts: one plays, one waits first, one waits second. The
  fourth session lets an account reconnect while it plays, waits or leaves.
  `MaxTime` only matters with a tolerance.
  `Grace` (expireTime in updates) is 2 in `world_sessions_live`: the first update after the socket has
  gone keeps the session, and the account may come back in between. It is 1 in
  `world_sessions`, whose properties do not depend on when a session goes.
* Two ids and two dungeons: an id is freed and used again for another dungeon while
  a player is on his way, and a player has binds to two saves. One of the dungeons
  is a raid, with permanent binds and global resets, so that both kinds meet under
  one id. `MaxDue` 1 drops a second pending event of one instance; the event that
  stays does the same. Two players are the least group; a third adds members but no step. Two visits
  let a player enter a dungeon with an id that was freed and is used again while the other is
  still on his way out of the old one. Three visits (1.05 million states), and three with raids
  that need no group (`IgnoreRaid`, 1.34 million states), were checked too.
* One raid, one id and three visits are the least that finding 3 takes: each player enters once, and the third visit is
  the login of the one who comes back. With two there is no violation.
* Three packets of one byte, of a buffer and of more than a buffer take every branch of
  the batching, and two senders and the network thread meet in the queue. A fourth
  packet was checked too, for the safety properties (805 thousand states).
* Two players trade: who trades with whom is proved for any number (`PairsOnly`), and a third,
  with no place in the bags, was checked too (885 thousand states). The relics reach their limit, ann's bags are
  full, and a purse that gets the other's coin reaches `MaxMoney`, so that each refusal happens,
  and after one of them has spent a coin the other can pay. `MaxLosses` 1: one coin spent or
  one item used up. Purses of 1 and 2 coins of at most 3 were checked too (0.99 million
  states). One free guid bounds the copies, and no trade begins once there is one. `MaxSaves` 2
  lets the save of an exchange wait behind another save, or another behind it; no
  trade begins before all is saved, and a save that would change nothing is left out, which bounds how
  exchanges follow one another in a run. The theorems have no such bound but these two guards.
* Player counts are naturals. The code's are 32-bit and unsigned; `QueueIsListed`
  (no entry in the queue that is not in m_sessions) and the exactness of
  `pending` say that the subtractions in them never go below zero.

Deadlock is checked in every run but one. The pool, the transactions and the map updater come to
an end, which their `Next` names in `Terminated`; the sessions, instances and trades never do.
Only `world_socket` does not check it: a connection that was removed and whose session is
gone has nothing left to do.

### Fairness

* Weak fairness of each thread's step: a thread that can go on does so. Nothing makes
  a caller enqueue, a connection attempt succeed, a tick begin or a server stop, so no
  property depends on those.
* `SQLTransactions` has strong fairness of `TakeLock`: whoever waits for the retry lock
  gets it some time although others keep coming. `std::mutex` does not promise that in
  theory; the loop's holder releases it and goes on to another task, and there are only
  finitely many of these here.
* `WorldSessions` has weak fairness for the arrivals and updates, and strong fairness
  for the beginning of the updates: sessions arrive from other threads all the time, and
  `UpdateSessions` drains their queue before it updates anybody. The weak fairness is that of the
  world thread's next step, whichever session it is for. Without strong
  fairness a stream of arrivals could keep it from the updates for ever. Every arrival
  takes two answers of the database and the drain none, so the queue is empty again and
  again. The handlers of packets are not fair: nobody has to send any.

* `WorldSocket` has weak fairness of the network thread's own steps and of senders that are
  inside SendPacket, and strong fairness of the beginning of the update and of the
  write handler. The first is a timer of 10 ms: asio queues its handler beside those
  of reads and writes, so that a client that sends all the time does not keep it from
  running. The second is a client that takes what is written to it some time; the properties
  except a client that has gone. Nothing makes clients send or the database answer.
* `Instances` and `Trade` have safety properties only: nothing in them has to happen.

### Findings

Four runs end in a violation. Each one checks what a comment, document or interface says.

1. `database_autosetup`: when the first `Open` fails because the database does not exist,
   the destruction of its connections cancels the pool's queue for good. The second
   `Open` of `DatabaseLoader.cpp:63` succeeds, but its threads end at once and nothing
   enqueued is executed in that process.
2. `sql_atomicity`: a statement that meets a lost connection is repeated in a
   new session, in which every statement commits on its own: the first part of the
   transaction is lost, the rest is applied, and the caller is told 0.
3. `instances_permanent`: `InstanceSaveMgr.h:113-115` says that "instances cannot be reset (except
   at the global reset time) if there are players permanently bound to it", and that this is
   cached for players who are offline. It is cached in the save, which is deleted when its last
   bind goes. p1 logs out inside a raid and the group is disbanded; p2 kills a boss there, which binds p2 for good,
   leaves and logs out: the save is unloaded. p1 logs in again, in the map that still exists, and
   `InstanceMap::AddPlayerToMap` (`Map.cpp:3737`) makes a new save that can be reset. Outside
   again, p1 changes the raid difficulty, and `Player::ResetInstances` deletes the instance with the permanent
   row of p2.
4. `world_sessions_tolerance`: `HasRecentlyDisconnected` subtracts the wrong way round,
   so that an entry never expires.

Where else the code does not do what a comment says, without a run of its own:

* `Map.cpp:3808-3810` says "for normal instances cancel the reset schedule when the first player
  enters", and 4017-4018 "the reset time is only scheduled when there are no payers inside".
  `SetResetSchedule(false)` begins with `!HavePlayers()`, and the player who enters is already
  linked to the map when it is called, so that nothing is
  ever cancelled: a scheduled reset deletes an occupied instance of a normal dungeon from the tables
  and frees its id. `NotUnderPlayers` leaves this reset out and so holds; what the property is
  about is what players and groups do.
* `MySQLConnection.cpp:412-415` says "we might encounter errors during certain queries, and depending on the
  kind of error we might want to restart the transaction", and 564-565 that a deadlock is handled
  by the callers. The answers to COMMIT, START TRANSACTION and ROLLBACK are not looked at (lines 417,
  357, 362 and 367): a COMMIT that meets a deadlock is not repeated, and the
  transaction is reported executed without being stored. `ResultIsTrue` leaves out these
  (`ignored`).
* `World.cpp:296` and `WorldSocket.h:90`, on the use of the session by sockets: see
  section 2, Connections. The null pointer of `WorldSocket.cpp:344` is left.
* The comment in `AddSession_` says "so we don't count the
  user trying to login as a session and queue the socket that we are using", but a session that
  replaces one of its own account in the queue is counted, and waits although a place is free
  (`NoIdlePlace` names that case; it takes a limit above 1 or a raised one).

What else was noted while modelling and is no run: `Close` cancels the queue, and with it
the saves that no worker has begun; a refused reconnection leaves a null handle and a
server that goes on; an instance whose id was freed by a reset while its map lives shares the id with
the next one, and a second reset event of the old one then deletes the new one; a row of a group's reset
instance may be missing when a permanent bind
UPDATEs it; `CanStoreItems` looks at the limits one item at a time, so that a trade may go through
in which `moveItems` has to return items, and then copies one; the destruction of an offered item leaves
the acceptances alone; with more than one worker of the character database saves of one player may be
executed out of order; `RemoveQueuedPlayer` admits one
player for one place, so places that a raised limit opens (`.server plimit`) stay free
until somebody leaves, and newcomers take them before those who wait
(`FirstComeFirstServed` allows just that); a player who reconnects before
`UpdateSessions` has seen the closed socket is not in `m_disconnects`; the destructor
of a replaced session writes `account.online = 0` after the newer one's 1; a session whose
socket closes between authentication and permissions is never deleted.

## 4. Hazards

`PROJECT.json` lists, line by line, what in this code is hard to test and which
property would catch it. Those without a property belong to the modules planned below,
or the code has them and no property can be stated that it keeps; their notes say which.

## 5. What is proved

All theorems hold for every value of the constants that satisfies the `ASSUME`s of
the module: any finite set of workers, any number of operations, maps, instances,
accounts, sessions, packets, senders, players, items or slots.

* **`DatabaseWorkersProofs`** proves `TypeOK`, `NoLostWakeup`, `NoEarlyExit`,
  `ConnectionOutlivesCall`, `OvertakingBounded` and the refinement of `AsyncExecution`. The
  invariant `IInv` is `TypeOK /\ Lifecycle /\ NoLostWakeup /\ NoEarlyExit`. `Lifecycle` is needed
  because only the stages of the connections tell that a thread that executes something has an
  operation, and that a joined thread has ended. The assumption that there is at least
  one worker is used where a queue that fills must have a thread that is awake.
  The order and the refinement rest on `Placed`, which adds where each operation is:
  `Ownership` (what was sent is in exactly one of the queue, a worker's hands, executed,
  leaked or discarded) and `Order` (the queue is what was sent last, in that order).
  From them `StatusIsPlace` computes the abstract status of an operation, and each action
  of the pool moves one operation, none, or a set of them on Cancel.
* **`SQLTransactionsProofs`** proves `TypeOK`, `LossIsContained`, `ResultIsTrue` and the refinement of
  `AtomicTransactions`, whatever the server answers to any statement and however often connections
  are lost. Without the exemption of struck transactions the first would contradict finding 2. The invariant `SQLInv` says of a
  connection how the loop variables go together (`Control`), that the session at the server holds
  uncommitted statements of its own transaction only, but for those of a struck one that a
  refused ROLLBACK left (`ServerSide`), and, of a transaction no fault has
  struck, that nothing of it is visible before COMMIT, that at COMMIT the session
  holds all of it (`Intact`); what is about to be reported, and what has been, is so unless the
  transaction is in `ignored` (`Honest`, `Truth`).
* **`MapUpdaterProofs`** proves `TypeOK`, `CountIsExact`, `RequestsAreSound`, `Threads`, and that
  `MapUpdater` implements `MapTicks` (initial states and every step). The
  invariant is the conjunction of all six invariants of the module. No part is
  inductive alone: the counter stays a natural number because it counts requests, it
  counts them because no map has two, and that holds because an instance is reached only
  from its base map's update, once a tick. Cardinalities are handled with
  `FiniteSetTheorems`, sequences with `DataLemmas`. The refinement needs that
  `pending = 0` leaves nobody in an update and no base map behind.
* **`WorldSessionsProofs`** proves `TypeOK`, `EntriesAreLive`, `QueueIsListed`,
  `NoneForgotten`, and the action properties `LimitHolds`, `NoIdlePlace` and
  `FirstComeFirstServed`. The invariant adds `OnlyListedEnter`: a session that is not in
  m_sessions has not been initialised, so that one that is queued on arrival is not.
  `Removal` says once what `RemoveQueuedPlayer` leaves in the queue, whatever
  it was called for, and is applied to the replacement and, twice, to the
  removal; all actions that move no session share the lemma `Unmoved`.
  The action properties follow from what the three actions that move sessions (`Added`,
  `Replaced`, `Removed`) do to the queue and to the number of active sessions; `Counts` says that this number
  is that of m_sessions less that of the queue, which is how the code gets it. The proof
  showed two of the properties to be true only in the instances of the runs,
  and they were corrected: `NoIdlePlace` (see the end of section 3) and `FirstComeFirstServed`,
  where a session with a tolerated disconnection passes those who wait also when it replaces
  one. An instance with limits 1 and 2, an account that skips the queue and a tolerance
  was searched by hand to 7.4 million states without a violation.
* **`InstancesProofs`** proves that no id is given out twice (`IdsAreSound`), that
  `Instances` moves its ids only along the steps of `InstanceIds`
  (`InstancesUseIds`), and so `NothingIssuedTwice` for `Instances` (`NoIdBeforeItIsFreed`). An id that a
  reset frees while its map lives counts as free, so this does not say that two living
  instances never share one. The invariant is
  `NothingIssuedTwice` with the types: the hint may be below a free bit that was lost,
  but it is never above `size` and never an id in use, whichever writes were lost.
  The second half needs that the battlegrounds' ids are ids.
  It then proves every property of `Instances`: `TypeOK`, `BindsMatchSaves`, `AssertionsHold`,
  `UnloadsNobody` and `NotUnderPlayers`, and of finding 3 what is true: the save a connected
  player is bound to permanently cannot be reset (`ConnectedProtected`). The inductive invariant
  `WorldInv` is `Fine(world)` with the types of the rest. `Fine` is: the types; `Match`, which
  says of each save what binds to it there are and that permanent ones close it (binds and
  saves only agree as a whole); that no check has failed; `Inside`, nobody in an unloading
  map; and `Unbound`, who is offline has no binds in memory. `Unbound` is needed because
  at a login the binds are exactly the rows that were loaded, so that a member of a group
  has only permanent ones and the login's instance is the one its binds admit.
  A handler is a chain of calls, so each call is proved once: `Runs(w, u, P)` (nobody
  moves, maps with players are kept, no instance with players is deleted, only players of P
  get new binds) or, for calls that take a player somewhere, `Moves(w, u, p)`. Both are
  transitive, and `RunsStep` and `MovesFine` turn them into a step of the invariant. The
  folds over binds, rows, saves and players are handled with `FoldValue` of
  `DataLemmas`: what each turn keeps, the fold keeps, whatever the order.
  `ChosenId` is the heart of `AssertionsHold`: what CreateInstanceForPlayer picks from
  the binds (a permanent bind, the login's instance, the group's, the player's) is what
  AddPlayerToMap accepts, also after the solo bind was given up for the group's.
  `FinitenessAssumption`, `BoundsAssumption` and `NoneAssumption` of `Instances` are what
  the proofs need: finitely many players and dungeons, natural bounds, and that `None` is
  none of the values it stands beside.
* **`WorldSocketProofs`** proves the queue sound for any producers and items
  (`QueueSound`). Its invariant `QInv` describes the list as the segment of `order` from
  the tail to the head with a gap before each node whose producer has not linked it yet;
  nodes before the tail are freed, none from it on. `SocketUsesQueue` says that a connection
  moves the queue only along its steps, so that it is sound there too. The
  invariant `SInv` of the connection says where the socket is while the network thread
  is at each place, who may have the session in each of its states, and what
  is still to be written when a close is delayed; from it follow `NoUseAfterFree`,
  `CloseIsNotForgotten`, `ConnectionsCounted` and `TypeCorrect`. `ImplementsStream` is the
  refinement of `PacketStream`, for packets and buffers of any size: `StreamInv` says that
  the bytes written are the beginning of the bytes of the packets dequeued so far and, as
  long as the socket can be written to, that the messages and the buffer are the rest of
  them, each from where the one before it ends (`Cut`). After a shutdown a message is dropped
  without being written, which is why the rest is claimed only until then. `FlattenSeq`,
  with which `PacketStream` concatenates, is
  reached without induction: the sequence of the bytes of the first k packets (`BytesSoFar`) is carried
  along, and `FlattenIsJoin` shows that there is only one such sequence, by the smallest
  index at which two of them would differ.
* **`TradeProofs`** proves every property of `Trade`: `TypeOK`, `TradesArePaired`,
  `AcceptanceIsCurrent`, `AcceptedStacksStand`, `OnlyOfferedIsGiven`, `ItemsAreConserved`,
  `MoneyIsConserved`, `TradesAreDurable`, and that in an exchange `ModifyMoney` refuses nothing
  (`ExchangeMovesTheGold`). `MoneyIsConserved`, `TradesAreDurable` and `OnlyOfferedIsGiven` are proved for
  `Workers = 1`, the others for any number. The lemma `StepShape` says what
  a step can do to a trade: nothing, open or close a pair, set acceptances
  without touching the offers, or change an offer with both acceptances void.
  The invariant `GoodsInv` adds to types and pairs: `Stacks` (a
  stack that somebody has is not empty, in the bags and in all tables) and `Offers` (an item
  in a slot is its player's own or destroyed, in one slot only, and nobody who trades has a copy).
  It holds for any number of workers. `StoredInv` adds, for one worker, `Chain` (each save that waits gives the tables that the one
  before it leaves, with its own rows written), `Purses` (what a player has and has spent is what the
  tables will say of both when all is executed, and all players together have what there was, in the
  bags, the tables and after each save) and `Bags` (the row of an item will name whoever has it, and in no
  tables is it missing). With one worker the first save of the chain is the one that is
  executed, which makes its tables the tables; an exchange appends one link with both players' rows.
  `moveItems` is a fold over the slots: `MoveItemsUnfolds` gives its recursion,
  `Frame` what no turn of it touches, and `AllIsStored` that no turn has to return an item if
  the limits of the kinds allow all offered items together, by counting what is stored so far
  (`StoredAfter`). The sums over purses and stacks use the lemmas on `SumFunction` in `DataLemmas`,
  whose one induction, over the finite subsets, is a well-founded descent (`SmallestSubset`).
  `TradeAssumption` was completed for these proofs with what the code guarantees: finitely
  many players and items, natural capacities and limits, and that a stack has items
  if and only if somebody has it.

Only model-checked: all liveness properties (`ExecutedIfOpenedOnce`, `CloseEnds`,
`EverySettled`, `TickEnds`, `ShutdownEnds`, `ClosedIsRemoved`,
`RefusedIsClosed`, `SentIsWritten`), since liveness and ENABLED are
out of reach of the prover. Every other property of a passing run is stated by a theorem.

## 6. Plan

Order of the remaining work, most important first.

1. `QueryCallbacks`: futures and chains with the processor that walks and extends its
   list; composed with `DatabaseWorkers` for operations that Close discards.
2. `SyncConnections`: GetFreeConnection with its locks, KeepAlive.
3. `AuthSession`: protocol status against outstanding queries, on the sockets of
   `WorldSocket`.
4. Mail and auctions: items and money across memory and transactions, as in `Trade`.
5. `LootRolls`: votes, timeouts and members that leave.
6. `LFGProposals`, `BattlegroundQueue`: answers, timeouts and departures in any order.
7. `EventProcessor`: an algorithm against its reference definition.

Theorems to add: those of the modules above, as each is written.

## 7. Not modelled

* Game rules and content (combat, spells, movement, AI, scripts, conditions, quests):
  calculation over large data on one thread.
* Geometry, cryptography, file formats, strings: no state that interleaves.
* Stores that are loaded at the start and only read afterwards.
* Extractors and database content; vendored code under `dep/`.
* Of the modelled parts: the priority and names of threads, metrics and logs, the exact
  errnos (four classes), expireTime in milliseconds, the account's online flag (written but
  never read in `src/`), the realm's minimum security level (`KickAllLess` kicks session by
  session, and each of these kicks is a `KickPlayer`).
* Of instances: heroic difficulties as dungeons of their own, game masters, the extension of
  a lock by the calendar, groups of more than two, the start of the server (`LoadInstances`,
  `LoadResetTimes`, the table group_instance) and the respawn data. That a save without
  binds, or a row without an instance, is never left behind is not stated: the
  code leaves them to the clean-up at the next start.
* Of connections: the choice of the network thread, `StopNetwork` and the end of the
  threads, packets that are cut in two by a read, encryption, the IOCP variant of the
  write path.
* Of trades: what the pending spell does to its item, quests and achievements, merging of
  stacks, binding. Handlers are taken as one step each, also where a map thread runs them.

## 8. Running

    tlc -config WorldSessions.cfg MCWorldSessions
    tlapm WorldSessionsProofs.tla
