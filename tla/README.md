# A TLA+ verification of ChatShow

ChatShow is a chat and game server in C++: game clients talk to a *gate
server*, the gate forwards to *game servers*, these load and save players
through a *DB server*. All three are built on the library `CommBase`
(sessions over epoll, message dispatchers, timers, pools). An older login
service in C (`CS_LoginService` on `antlib`) lies beside them.

This directory holds models of the parts whose behaviour depends on the order
in which threads, messages, timeouts and failures happen, the TLC
configurations that check them on small instances, and theorems that hold for
every instance, with proofs for the TLA+ proof system.

Contents:
1. the inventory of the system,
2. the plan,
3. the modules and how they correspond to the code,
4. what the runs check, with which bounds and which fairness,
5. what is proved and how,
6. what the code does that its comments do not say,
7. what is not modelled.

Paths are relative to `src/`.

---

## 1. Inventory

### How the processes interact

```
 client --- GateServer --- GameServer --- DBServer --- MySQL, Redis
               |
          login server
```

Every arrow is a TCP connection between two `Session`s of `CommBase`. Messages
are of three kinds: a *Request*, which is answered by an *Ack* with the same id
or by a local timeout; a *simple* message; and *system* messages, with which
the network layer tells the application that a channel was built or broke. In
each process one *epoll thread* per `IOTHREAD` reads and writes sockets, and one
*dispatch thread* per `BLOCKTHREAD` calls handlers (4 in GateServer and
DBServer; in GameServer one, `SingleDispatchThread`, whose messages the main
loop handles). A message goes to the dispatcher given by its channel, a file
descriptor, modulo `BLOCKTHREAD`, so the messages of one channel are handled
in order, those of different channels at the same time. The handlers share
maps protected by several locks each, and each process has *timer threads* of its
own that scan these maps.

### Components

| Component | State it keeps | Operations | Hard behaviour | Correct means |
|---|---|---|---|---|
| **DBServer player cache** (`DBServer/src/CharMemCache`, `CharactorLogin`) | `m_allPlayer` with a dirty flag per player, the deadlines `m_cacheTime`, `m_delCacheTime`, the table `RoleInfo` | login, save, logout save, a pass of `CacheTimeOut::svr` (scan, write back, evict) | two locks taken one after the other, lists made earlier, failing SQL, null content, restart | no save is lost, no entry without a deadline, logins read the last save |
| **Session send buffer** (`CommBase/Network/CircleBuffer`, `Session::Write`, `Session::Send`) | three indices, the buffer, the epoll registration | write a packet, turn, send a part, rearm the event | edge-triggered events, partial sends, full buffers | the socket gets the packets' bytes in order, once, and does not stall |
| **Session receive buffer and messages** (`Session::Recv`, `CSessionMgr::AddMessage`, `MessageBuild`) | the buffer and what is left in it, the header in both byte orders | build, receive, cut, check the digest | messages cut anywhere, unknown lengths, a peer that ends in the middle | each message is heard once, whole, by the one it is for |
| **Message dispatchers** (`CommBase/Network/DispatchMessage`) | `m_deque`, `m_sendDeque`, `m_timeOut`, `m_token` | send a Request, receive, drain, dispatch, time out, flush | the id is set outside the locks, Ack against timeout, throwing callbacks | every Request ends, exactly once |
| **Session management** (`Session`, `SessionMgr`, `EpollMain`, `ConnManager`, `AcceptManager`) | sessions by descriptor, the handshake state, its timeout list, the command queue of an epoll thread | accept, connect, handshake, delete, time out | deletion by several threads, reuse of descriptors | an announced channel is a live session; it is closed once |
| **Session groups** (`GroupSession`) | groups by key, by first descriptor, members | add a session, bind, delete | a group is named by its first member's descriptor, which may leave | a message to a group goes to a member of it |
| **GateServer login** (`GateServer/src/ServerManager`, `CharactorMgr`) | `m_connectList`, `m_timeout`, `m_gsIDSvr` | WILLLOGIN, connect, PLAYERINFO, CLIENTIN, forwarding, errors, a pass of `ConnTimeout::svr` | descriptors that are used again, lists made earlier, two logins of one character | no open connection is lost sight of, dead and silent ones are closed, an answer goes to its player |
| **GameServer player lifecycle** (`GameServer/src/Object/Player`) | `m_PlayerCache`, `m_allPlayer`, the parts' flags, `m_saveDataList` | PLAYERINFO, CLIENTIN, PLAYEREXIT, their Acks, errors | Acks after an exit, failed saves, the gate's retries, ids not yet set | one object per player, every exit is answered, his state reaches the DB server |
| **GameServer server registry** (`GameServer/src/ServerManager`) | channels by type and server id | build, PUSHSERVERID, error | Acks after errors, groups of channels under one id | a registered server is connected |
| **Friend events** (`GameServer/src/Friend`, `Event`) | `m_event_list` and its inverse `m_watch_list` | watch, cancel, offline, dispatch | two maps that must be inverse | a watcher gets the events of those it watches |
| **SQL**, **Redis connection pool** (`CommBase/SqlInterface`, `CommBase/Redis`) | idle and used connections, unread results and replies | get, release, grow, statements, pipelines | exceptions half-way, what one user leaves to the next | no connection is lost or used twice, none is out of step |
| **Timers** (`CommBase/Timer`) | a wheel of slots with timers | start, stop, expire | a stop during expiry, late rounds | a timer fires when due, not before |
| **Memory pool** (`CommBase/Memory`) | thirteen free lists | allocate, free | a flag in the place of a link, other threads' frees | a block has one owner |
| **Reference-counted pointers** (`CommBase/Smart_Ptr.h`) | counts | make, copy, assign, drop | pointers shared under other objects' locks | an object is deleted once, when nobody refers to it |
| **Threads and thread pool** (`CommBase/Thread`) | the task queue, the event | add a task, work, destroy | an event that nobody waits for | tasks run once |
| **Event set** (`CommBase/Event`) | slots by event and group | subscribe, disconnect, remove, fire | all of it from within a callback | those subscribed are called, in order |
| **Lua configuration** (`CommBase/Lua`) | a pool of interpreters, their stacks | take, call, read tables, give back | error paths that leave values on a stack | a stack is as high as documented |
| **Logging** (`CommBase/Log`) | the list of lines, files by type | log, write, roll over, end | lists swapped, the end of the thread | lines are written once, in order |
| **Start-up and message tables** (`ServiceMain`, handler registration) | tables filled before any thread runs | - | - | - |
| **MD5 and utilities** (`CommBase/md5`, `util`) | none | pure functions | - | - |
| **CS_LoginService** | `_users` by name, requests to database and gate | login, register, change a password, time out | two threads on one table | each client is answered once, with its own user's answer |
| **antlib network** (`netlib/tcplib`, `protocollib`) | connection slots, rings, use counts, parsers | connect, send, receive, close, parse | a ring read when empty, parsers on cut messages | messages arrive in order, are freed once |
| **antlib handlers and threads** (`handlerlib`, `threadlib`) | handlers, their queues, threads, `_locker` | start, stop, send, handle | shared threads, stop against send | messages are handled in order, threads end |
| **antlib timers and log** | lists by second and by period | set a timer, tick | the turn of a period, lists freed twice | a timer comes on its tick |
| **antlib containers** (`commandlib`) | the lock-free queue, hash tables, linked lists | push, pop, set, delete, walk | threads in the same node | what goes in comes out, once, in order |
| **antlib helpers**, **MySQL client headers** | none of their own | - | - | - |

`PROJECT.json` lists the same components with their files, and under `hazards`
each place in the code where one of the hard behaviours bites, with the
property that covers it or the reason why none does yet.

---

## 2. The plan

In the order of what matters most to a player: that his data survives, that
his bytes arrive, that his requests are answered, that his login works, and
then the machinery around these.

| # | Modules | Composes | Abstract specification | Theorems | State |
|---|---|---|---|---|---|
| 1 | `CharMemCache` | cache, timer thread, table | (invariants over a history) | types, durability, reads, deadlines | done |
| 2 | `SendBuffer` | buffer, writers, epoll thread | `ByteStream` | types, bytes in place, refinement, wake-ups | done |
| 3 | `Dispatcher` | senders, dispatcher loop, sending thread | `RequestOnce` | types, once, not forgotten, refinement | done |
| 4 | `GateLogin` | login table, registry, timer thread, channels | - | types, no connection lost | done |
| 5 | `SessionMgr`, `GroupSession` | epoll threads, dispatchers, DB server, groups | (a descriptor has one owner) | types, one owner, live groups, deadlines, one group is its server's | done |
| 6 | `ServerRegistry`, `PlayerMessage` | a game server's players with its gates and DB servers | - | types, one object per player, exits accounted, registered servers listed | done |
| 7 | `ConnPool`, `SqlConn`, `RedisConn`, `LuaPool`, `MemoryPool`, `SmartPtr`, `EventSet`, `FriendWatch`, put together in `SharedParts` | users and what they share; an event and its slots; a player and his watchers | a bounded resource | types, resources accounted, subscribers called | done |
| 8 | `SessionRecv`, `ServerConnect`, `GateForward` | builders and receivers; the connecting side; the gate between its clients and a game server | - | - | modelled and checked |
| 9 | `TimerWheel`, `HandlerTimer` (in `SharedParts`), `ThreadPool`, `Logger` (in `ToolParts`) | timer threads and main loop; the writer and who logs; task threads | (histories of what should be) | timers in place, lines written, tasks in order | done |
| 10 | `Squeue`, `StrHash`, `LinkedList`, `HandlerLib`, put together in `ToolParts` with row 9's | antlib's threads, queues and containers | (histories of what should be) | queues in order | done |
| 11 | `TcpConn`, `NetStream`, `LoginService` | the C service and its network | (histories of what should be) | - | modelled and checked |

What is left: proofs for the modules of rows 8 and 11, whose promises `NetworkInOrder` joins, of which the first worth
having are `SentInOrder` of a connection and `MessagesHeard` of a session; and `SessionMgr` with `ServerConnect` in one state space,
the two ends of a handshake talking to each other.

Parameters are CONSTANTS with named assumptions, an operation is one action
per critical section, invariants are conjunctions of named parts, and
recursion is avoided, so that each module can be proved about as well as
checked.

---

## 3. The modules

A step of a model is what the code does under one acquisition of a lock, or in
one statement of which other threads see the effect. Local variables that live
across such steps are variables of the model. *History variables* record what
happened and guide no step; each is named as such where it is declared.
Operators named `X_Something` with the comment "Broken variant" are plausible
mistakes in the code of X; no specification uses them. Each property has one
that TLC finds violating it, which shows that the property depends on the code.

### CharMemCache (DB server)

| Model | Code |
|---|---|
| `m_allPlayer[c]`: content, flag | the map of `CStructTemplate`s (`CharMemCache.h`, `PlayerDBManager.h`) |
| `db` | table RoleInfo |
| `m_cacheTime`, `m_delCacheTime` | sets of players with a deadline; a deadline may be found passed by any pass |
| `pc`, `cid`, `loaded`, `reply` | the handler of GM2DB_PLAYERINFO on each dispatch thread (`CharLogin.cpp:65-124`) |
| `svrPC`, `timeout`, `deltimeout` | `CacheTimeOut::svr` and its two local vectors |
| `IsPlayerInCache` ... `SendReply` | a login, one action per lock taken or SQL statement, with the failures the code handles (`NoConnection`, an exception in `getRoleInfo`) |
| `SaveToCache`, `SaveDropped` | the two save handlers; with `isdel` also the UPDATE and the eviction deadline |
| `Scan`, `SaveCacheToDB`, `SaveCacheAndDelete` | one pass of the timer thread |
| `Restart` | the process dies: an outside event (`Crash`), or the code's own doing, when it dereferences the null content of a player who has no row or whose load failed (`NullContent`) |

An UPDATE may fail at any time, player by player. The history `lost` names the
players hit by one of four accidents since their last save: another login of the
same player overwrote the entry, the UPDATE of an eviction failed, the save
carried a blank BaseInfo (whose UPDATE names player 0 and changes no row), or
the process died while the entry was dirty. `Durable` says these are *all* the
ways in which a save can be lost.

### SendBuffer and ByteStream (CommBase)

`ByteStream` is the promise: bytes are numbered as they are accepted, and what
is handed to the socket is the next run of accepted bytes. `SendBuffer` is the
code: `m_readIndex`, `m_writeIndex`, `m_lastIndex`, `m_bufCapacity` and
`m_buffer` are those of `CCircleBuff`; a byte is represented by its number in
the stream, so a byte that is overwritten, skipped or repeated is seen.

| Model | Code |
|---|---|
| `Write`, `WriteFails` | `Session::Write` under `m_bufLock`, with `IsWriteOverAgain`, `GetWriteLen`, `WriteData` |
| `EpollCtl` | its `epoll_ctl` after the unlock |
| `Send`, `SendEmpty` | `Session::Send` under `m_bufLock`: `IsReadOverAgain`, `GetReadLen`, the loop around `send`, `HadRead` |
| `event`, `full`, `Drain`, `OtherEvent` | the kernel: an edge-triggered event waits, the socket takes no more, it takes bytes again |
| `ResetSendBuf` | `ConnectSuccess` giving a server's session the larger buffer, before any other thread knows the channel |

Not modelled: the session's destruction after another error of `send` than EAGAIN.

### Dispatcher and RequestOnce (CommBase)

`RequestOnce` is the promise to the sender of a Request: it ends once, answered
or timed out. `Dispatcher` is the code, in both of its classes (`single` tells
them apart: `SingleDispatchThread` sends from a thread of its own and survives
an exception in a system callback, `DispatchMessage` does both in one loop and
loses the rest of the round).

| Model | Code |
|---|---|
| `Push`, `AddAckTimeOut`, `SetReqID` | `DispatchBase::AddSendMessage`: two critical sections, then the id, with no lock held |
| `NoScan`, `Scan`, `DispatchTimeOut` | the loop's scan of `m_timeOut` and the handlers it calls with `eReqTimeOut` |
| `Drain`, `DispatchAck`, `DispatchSystem`, `SystemThrows` | the round over the messages received |
| `Flush`, `SendMessage`, `FlushDone` | the round over those to be sent; a message without session or buffer room is dropped |
| `Receive`, `ReceiveSystem` | the epoll thread's `AddRecvMessage` |

Since the id is set last, a Request may go out with id 0; its Ack is then
unknown and only the timeout ends it. The properties hold all the same.

### GateLogin (gate server)

| Model | Code |
|---|---|
| `Channels`, `peer`, `gone` | file descriptors and the sessions on them. `Connect` is given the least free one; `Disconnect` leaves the session, as `DeleteSessionEx` does, until `CloseChannel` |
| `queue[c]` | what the dispatcher of the channel has still to handle; it outlives the session |
| `m_connectList`, `dueConnect` | the list of connections that have not said who they are, and those whose 60 s are over |
| `m_timeout`, `dueEntry` | the logins: game server, channel or none, the mark `isDel`; those whose 30 s are over |
| `m_gsIDSvr` | `ServerConHandler`'s channel of each game server |
| `BuildClient`, `BuildServer`, `BuildServerAgain` | `on_new_channel_build` |
| `RemoveConnect`, `UpdatePlayerInfo`, `RefusePlayerInfo` | the handler of C2GT_PLAYERINFO, one action per lock |
| `ClientError`, `ServerError`, `RemovePlayerByGsID` | `on_channel_error` |
| `closing`, `CloseNext` | the `CloseChannel` calls that a thread makes after it has given up the lock |
| `WillLogin`, `AddTimeout` | LS2GT_WILLLOGIN: a server is chosen, then, under another lock, the entry made |
| `CheckConnect`, `Scan`, `PlayerExit`, `PlayerExitEx`, `NextRound` | `ConnTimeout::svr` with its local `delMap` and `lineDel` |

Each channel has a dispatcher of its own here; in the code four are shared,
which allows fewer interleavings. As the code stands, the Ack of CLIENTIN is
not dispatched (`CharactorLogin::Handle_Ack`), so `PlayerLogin` is never called,
`m_idClient` and `m_client` stay empty, heart beats prolong nothing, and every
client is evicted when the time of its login is over. The model follows the code.

### SessionMgr and GroupSession (CommBase, DB server)

`GroupSession` holds the groups, `SessionMgr` extends it with the accepting side
of the network layer and the handlers of the DB server, which use it. A
connection is its file descriptor, in the code as in the model; the descriptor
of a closed one is given to the next.

| Model | Code |
|---|---|
| `m_group`, `m_groupChannel` | the maps of `GroupSession`. A vector of members is a set: its order only decides which member serves which key |
| `AddGroupSession` (`FoundGroup`, `JoinGroup`, `GroupFull`), `DeleteGroupSession`, `BindSession` | the operations of the same names; each holds `m_groupLock` throughout |
| `open`, `remote`, `gone`, `packet`, `epoll` | the kernel: open descriptors, their peers, which of these have closed, the connection packet, what is registered |
| `Connect`, `m_accfd` | `CConnMgr::svr` of a remote server, `CAcceptor::svr`, and the pipe to the epoll thread |
| `Listen`, `ListenFails` | `ReadCommd` for `eRequestListen` with `AddTimerSessionEx` |
| `m_timeOutSe`, `m_timeout`, `Tick` | sessions in their handshake, their deadlines, `CSessionMgr::Tick` |
| `EpollWait`, `ready`, `HandleHup`, `HandleIn` | one batch of events, which may be out of date when its turn comes |
| `recv`, `ReadPacket`, `ConnectSuccess`, `moving` | `Session::Recv` on a connection packet; between the two halves of `ConnectSuccess` the session is in neither map |
| `result`, `Answer`, `WriteFails`, `ConnectFailed` | the answer that `ConnectSuccess` writes once the session is in `m_session`, the `EPOLL_CTL_MOD` in it that fails if the descriptor was taken out of epoll meanwhile, the error this posts, and what `AddMessage` announces after it |
| `RefusePacket`, `StealPacket`, `RecvReturns` | the other outcomes of `Recv`: a full group, a packet that was sent to a connection still in the pipe, and the end. On a descriptor still in the pipe, which is not yet non-blocking, the end comes after the second that `CAcceptor::Init` sets as `SO_RCVTIMEO` |
| `DeleteSession`, `DeleteSessionEx` | those of `CEpollLoop` with those of `CSessionMgr` |
| `m_deque`, `SystemErr`, `RegisterServer`, `BuildAgain`, `ChannelError`, `m_svr` | the dispatchers, `Context::SystemErr`, and `ServerConHandler` of the DB server |
| `erasing`, `EraseTimeout` | `m_timeout.erase`, which `DeleteSession` does after it has closed the session and given up the lock |

The histories `robbed` and `orphaned` name what the code does to a few
connections. A handshake is *robbed* of its deadline by the belated `EraseTimeout` of
its predecessor. A session is *orphaned* if a dispatcher's `DeleteSession` comes while it is between
the two maps: it is taken out of epoll and not found in either map, so it stays open. The answer
that `ConnectSuccess` then writes to it does fail, and `DeleteSessionEx` finds the session in `m_session` and
posts that, but with `eCtlEpollErr`, of which `Context::SystemErr` makes an `eConnFailMessage`
(`Context.cpp:157-161`) and not an `eConnErrMessage`. The dispatcher hands the former to `on_connect_failed`
(`DispatchMessage.cpp:259-264`), which in the DB server only logs
(`ServerManager.cpp:141`), so nobody closes the session. Each history excuses one property: `HandshakeEnds` holds
but for robbed connections, `DeadChannelIsClosed` but for orphaned ones. Both occur in `session_live`; there,
`DeadChannelIsClosed` without its excuse is violated, and it would hold without if the message
were an `eConnErrMessage`.

`m_timeout` is an unlocked `std::map` that the epoll thread and dispatchers both
change; the model takes its operations as atomic, so what a broken tree could
do beyond that is outside it. `Tick` handles several descriptors at a time in the code,
one by one in the model.

### ServerRegistry and PlayerMessage (game server)

`ServerRegistry` holds the channels of the other servers, `PlayerMessage`
extends it with the players. All handlers run on one thread, so an action is a
handler; what interleaves is messages, Acks, timeouts and errors.

| Model | Code |
|---|---|
| `m_allSvr`, `m_gateSvr`, `m_dbSvr`, `m_pathSvr` | the maps of `ServerConHandler`; an item holds the server id it was told |
| `on_new_channel_build`, `asked`, `acked`, `AckGatePushServerID`, `AckDBPushServerID`, `on_channel_error` | its handlers, one disjunct per server type |
| `m_PlayerCache`, `m_allPlayer` | the players by id; a record keeps the DB channel a player was given and whether he has changed |
| `AskPlayerInfo`, `AckPlayerInfo`, `PlayerInfoTimesOut` | the gate's Request, the DB server's answer to it (the player, or nobody), its timeout |
| `ClientIn`, `SynAttr` | the client is in; it changes an attribute |
| `PlayerExit` (`ExitCached`, `ExitOnline`, `ExitUnknown`) | the exit and the save it sends |
| `m_saveDataList`, `AckSave` | the answer that waits for the save, and `dealWithSaveResult` |

Three oddities of the code decide much of it. Maps are keyed by
`GET_PLAYER_CHARID` while the gate's messages name `GET_SERVER_CHARID` as well:
a player whom the gate names with a server id is never found. The DB channel of
a new player is looked up while his id is still -1, which stands for the DB
server 65535. And `Send` drops a message for channel -1 without entering its
Request, so not even a timeout comes. The histories `shadowed` and `unsent`
name the exits that are never answered on these grounds: those that find
another exit of the player waiting, and those whose save had no channel.

### The parts

The other components are used on their own, by any thread that holds a
pointer to them. Each has a module, and they are put together in layers. `SharedParts` has those whose
things several users share, the events with their subscribers, and the timers. `ToolParts` has what the
programs are built with: the logger, the task threads, and antlib's queue, tables, lists and
handlers. `Parts` extends both, and adds what stands between two ends of a connection: the
variable `part` says which part runs, `tool` which tool if it is the tools' turn, and the others stay as they are.
So a step of `Parts` is a step of one layer, which leaves the others' variables alone, or one of the
network's. `MCParts` gives `Parts` its constants.

| Module | Code | What is followed |
|---|---|---|
| `ConnPool`, `SqlConn`, `RedisConn` | `SqlInterface`, `Redis` | idle and used connections, the failure half-way of a growing pool (`leaked`), unread results of a statement or procedure, replies in a pipeline (`outstanding`) and those a user leaves to the next (`LeftBehind`, `inherits`) |
| `TimerWheel` | `Timer` | both managers: the wheel, rounds that come late (`reset`), a stop or a start during a round; in `single` the main loop calls back. Other threads read a clock (`ReadClock`) that may be ahead of the last tick by more than a slot, when the next tick is late (`overdue`). A timer put into the slot whose visit is about to begin (`raced`) may be called back up to a round early |
| `MemoryPool` | `Memory` | thirteen free lists, the flag byte in the place of the link, threads that free each other's blocks |
| `SmartPtr` | `Smart_Ptr.h`, `Ref_Object.h` | both kinds of pointer, one step between two locks |
| `LuaPool` | `Lua` | interpreters of the pool, the values each operation leaves on a stack, on every error path (`height` is what the comments of `LuaInterface.h` say); a user puts his interpreter back under the lock and drops his own pointer after it (`leaving`, `DropPointer`), when the next user may have it already: the count of a `Smart_Ptr` is plain (`refs`), two threads may tear it (`miscounted`), and the interpreter may then be deleted under its user |
| `Logger` | `Log` | the lists of lines, the swap, files that roll over, the end of the thread: it may find the event set before it waits and then waits for ever |
| `ThreadPool` | `Thread` | the task queue, an event that is lost if nobody waits (`raced`), `DestroyInstance` |
| `EventSet`, `FriendWatch` | `EventSet`, `GameServer/src/Friend` | subscriptions that change while an event is dispatched; the watchers and the watched |
| `SessionRecv` | `Session::Recv`, `AddMessage`, the `MessageBuild`s | who fills in addressee and sender, in which byte order, how the bytes are cut, a peer that ends in the middle |
| `ServerConnect` | `ConnManager`, `eRequestConn`, the connecting half of `ConnectSuccess` | the list that is walked and changed, refusals, time-outs, groups announced when whole |
| `GateForward` | the gate's handlers between clients and game servers | which player a channel stands for, when the answer comes late and the channel or the login is another's (`inherited`) |
| `Squeue` | `commandlib/squeue.c` | the lock-free queue, per slot and per node, as the queue of a handler (`Locked`) and as a pool of buffers |
| `StrHash`, `LinkedList` | `hash.c`, `double_list.h` | chains and pointers, with histories of what should be in them; `doall_strhash` asks about one node in a step (`walk`), each chain's first node last |
| `HandlerLib` | `handlerlib`, `threadlib` | from start to end of a server: own threads or shared ones, a send during a stop, which fails an assertion (`aborted`), joining threads of a list (`th` is uninitialised when there are none) |
| `HandlerTimer` | its timers and the log's | second and period lists; the end of a period moves a timer from the wrong list and frees it (`astray`, `lapsed`) |
| `TcpConn`, `NetStream` | `netlib/tcplib`, `protocollib` | slots, rings, use counts; the four parsers on bytes cut anywhere |
| `LoginService` | `CS_LoginService` | users, database, gate, time-outs, and the gate's handler that changes the same table (`torn`) |

Where the code does what can not be followed any further (memory used after
`free`, an assertion, two threads in one hash table), the model notes it in a
variable and stops: `astray`, `torn`, `crashed`, `aborted`, `skewed`. The
properties hold in all states before; what such a variable excludes is
named in the comment above each property.

`GateForward` has the table of logins of `GateLogin` in fewer steps, so that
the requests in flight can be followed. In `parts` it has one channel; with two, the gate
alone has 2,570,076 states, in all of which its answers reach their player. `Squeue` with `Locked` is
the queue that `HandlerLib` takes as a sequence.

---

## 4. The runs

| Run | Question | Properties | Instance |
|---|---|---|---|
| `cache` | Can a save be lost, a login read an old value, an entry stay without a deadline, a change stay unwritten? | `TypeOK`, `WriteBackScheduled`, `Durable`, `RetainedStaysCached`, `LoginReadsLastSave`, `ChangeIsWrittenBack` | 1 player, 2 threads, 2 values |
| `cache_evict` | Does an eviction save? (violated, section 6) | `EvictionSaves` | 1 player, 1 thread, 2 values |
| `send_buffer` | Do the bytes go out, in order, once? | `TypeOK`, `BytesInPlace`, `NoLostWakeup`, `IsByteStream`, `BytesGoOut` | 2 writers, capacities 6 and 7, packets of 1 to 3 bytes, 14 bytes |
| `dispatcher` | Does each Request end exactly once? | `TypeOK`, `HandledOnce`, `NotForgotten`, `IsRequestOnce`, `EveryRequestEnds` | 2 Requests, no system message behind a waiting one |
| `gate` | Is an open connection ever lost sight of, are dead and silent ones closed, do logins leave the table? | `TypeOK`, `ChannelAccounted`, `DeadClientIsClosed`, `IdleClientIsClosed`, `LoginEnds` | 1 character, 1 game server, 2 descriptors, 3 connections, queue of 1 |
| `gate_server` | Is a registered game server connected? (violated, section 6) | `RegisteredServerIsConnected` | 2 descriptors, 2 connections |
| `session` | Does each descriptor have one owner, and each group live connections of its server? | `TypeOK`, `EveryDescriptorHasOneOwner`, `GroupMembersAreLive`, `BoundChannelIsOfServer` | 3 descriptors, a server with a group of 2 and one with a single connection, 3 connections, 1 epoll thread, 2 dispatchers |
| `session_live` | Do handshakes end, and are dead connections closed? | `HandshakeHasDeadline`, `DeadChannelIsClosed`, `HandshakeEnds` | 2 descriptors, one server with a group of 2, 5 connections |
| `session_group` | Is a group its server's if there are two? (violated, section 6) | `BoundChannelIsOfServer` | 2 descriptors, two servers with a group of 2 each |
| `game` | Is there one object of a player, is each exit answered, and does a lookup of a server lead to it? | `TypeOK`, `RegisteredServerIsListed`, `OnePlayerObject`, `ExitAccounted`, `ExitIsAnswered` | 2 descriptors, 2 DB servers (0 and 65535), a gate and four more types of servers, one player under two names, 3 channels, 2 Requests and 2 exits; 1,209,382 states |
| `game_logout` | Does a logout send the player's data? (violated, section 6) | `LogoutIsSent` | 2 descriptors, 1 DB server, one player |
| `parts` | Do the parts keep their accounts, orders and promises? | `TypeOK`, `ResourcesAccounted`, `TimersInPlace`, `QueuesInOrder`, `SubscribersAreCalled`, `NetworkInOrder`, `WorkIsDone` | one part in each behaviour, instances in `MCParts`; 529,862 states |

`parts` chooses one part in its initial state and steps only that. The parts
share no state, so running them side by side would only multiply their states;
each property is the conjunction of what its parts promise, under the name that the
part's module gives it: `ResourcesAccounted` for the pools, memory and pointers,
`QueuesInOrder` for queues, threads and containers, `NetworkInOrder` for what passes
between two ends of a connection, and so on. `ServerRegistry` is a part of the whole in
`game`, with gates, DB servers and servers of every other type. Where one
instance is enough for a module, the configuration gives the constants of the
module itself (`CharMemCache`, `Dispatcher`, `GateLogin`, `SendBuffer`); the `MC` modules
of the others define those that a configuration can not write down.

### Why the bounds are enough

* **cache**: players do not share anything but the timer thread's passes, so one
  player shows every interleaving of two handlers and the timer thread. Two values tell an old
  save from a new one. A third concurrent login adds no new order of
  `AddNewPlayer` against `SaveToCache`.
* **send_buffer**: a packet is at most half the buffer, as in the code (64K
  against 512K). With capacity 6 and packets up to 3 the reader and the writer
  meet at every distance, the writer turns at each place it can, and 14 bytes
  are more than two rounds. `SizesAssumption` is what the theorems need of the
  real sizes.
* **dispatcher**: two Requests suffice to confuse their ids, and for one to time
  out while the other is answered; tokens are not used again (`MaxToken`), see section 7.
  `MaxQueue` keeps back system messages only, never an Ack.
* **gate**: three connections over two descriptors are a client, its second login (or another user
  of its descriptor) and the game server; one character meets itself, which is
  the only way two clients share an entry. `MaxQueue` and `MaxConnect` bound
  the environment, not the server: they are guards of the peers' actions only.
* **session**: three descriptors are a full group and one more connection,
  which the group refuses, and three connections put one server's connection on
  a descriptor of the other's; the invariants are proved for any number of connections
  (section 5). In `session_live`, five connections over two descriptors are
  enough for a descriptor to be used again while an event, a message and a
  belated `EraseTimeout` still name it (with four, no handshake is robbed of
  its deadline). Two dispatchers are enough for two handlers at a time. `MaxQueue`
  and `MaxConnect` are guards of `Connect` only.
* **game**: two names of one player are the two ways in which the maps may miss
  him; DB server 0 has him, 65535 is what the id -1 stands for. Two Requests (`MaxAsked`)
  and two exits (`MaxExits`) overlap; three channels (`MaxBuilt`) let a DB server
  come, go and come again, and a gate and servers of the other types (path, world,
manager, and one nobody knows) take the descriptors in between.
* **parts**: two or three threads on two or three of the things they share. The
  wheel has 3 slots of 2 units, so that a timer waits zero rounds or one and a round
  may come up to `MaxLate` = 2 slots late; requests for 16, 17 and 65537 bytes are the first block
  size exactly filled, the second, and the system's malloc; a queue node has 2 slots, so that
  two pushes fill it; `PERIOD` is 3 seconds and a day (`LOGDAY`) 5, more than one
  period and less than two, as 86400 is of 65536; messages have bodies of 0 to 2 bytes,
  cut anywhere. `MaxConns`, `MaxPending`, `MaxOwned`, `MaxStack`, `MaxShort`, `MaxLua`,
  `MaxLogged`, `MaxTasks`, `MaxNested`, `MaxItems`, `MaxFrames`, `MaxMsgs`,
  `MaxIds`, `MaxTimes` and `MaxLag` end what could go on for ever; each is declared
  as a bound of the model, in a guard of what the environment asks for. `MaxLines` and `WaitTries`
  stand for numbers of the code (10000 and 7).

Deadlock is checked in `cache`, `cache_evict`, `dispatcher`, `gate` and `gate_server`. `send_buffer`
stops when `Horizon` bytes have been accepted and sent, the `session` and `game` runs
when their connections have come and gone, and the threads and pools of `parts`
may all be at rest.

### Fairness

* `CharMemCache!FairSpec`: a handler that has cached a player goes on to set the
  deadline, the timer thread ends a pass it has begun (weak: these are threads
  that only wait for locks held for a bounded time). A deadline that is set
  again and again does pass, and a player's UPDATE does not fail for ever
  (strong: the database recovers). Nothing is assumed of logins and saves.
* `SendBuffer!FairSpec`: the epoll thread serves events, a writer reaches its
  `epoll_ctl`, the kernel sends what it holds (weak). The last one is the
  peer's reading; without it bytes rightly stay.
* `Dispatcher!FairSpec`: a sender that has pushed its message returns from
  `AddSendMessage`, time passes, both loops run (weak). `Scan` is strongly
  fair: the loop comes to it again and again, and it happens whenever a second
  has passed. Nothing is assumed of the peer or the network.
* `GateLogin!FairSpec`: each dispatcher, the timer thread and time go on (weak).
  No peer has to do anything.
* `SessionMgr!FairSpec`: an epoll thread goes through its batch and waits for
  the next, a dispatcher handles its messages (weak). Each turn of
  `CEpollLoop::svr` takes the commands and looks at the timeouts, before the batches
  that disable these steps: strong for `Command` and `Tick`. Peers may be silent for ever.
* `PlayerMessage!FairSpec`: a save under way is answered or times out (weak).
  That is what `EveryRequestEnds` of the dispatcher promises for each Request.
* `Parts!FairSpec`: the threads that the servers start keep running: both
  timer threads and the main loop, the threads that push to and run a handler, the
  connecting thread, and in `HandlerLib` main and the threads it made (weak). Nobody has to ask for anything.

---

## 5. What is proved

The `_proof` modules hold theorems for *every* value of the constants that
satisfies the named assumptions. All follow one scheme: an invariant `IInv`
that implies the property, holds initially and is preserved by each action;
one step of the proof per action, lemmas for what several actions share.

**CharMemCache_proof** (from `CharsAssumption`, `ValuesAssumption`: there is a
player, the marks are distinct and no values).
`TypeInvariant`, `WriteBackIsScheduled` and `RetainedPlayersStay` are inductive
with the types and the emptiness of the two lists outside their phases (`Lists`).
`Durable` is not: a login holds a value it has read in `loaded` while others
go on. `DurableInv` adds that such a value is the row as it is now, unless
another login has overtaken this one (`Loads`), and that a row exists for every
cached content (`Rows`). `SavesAreDurable` and the action property
`LoginsReadLastSave` follow. `EmptyRepliesExplained` rests on `SeenCached`:
a login that has seen or made its entry and does not find it again had it evicted.

**SendBuffer_proof** (from `SizesAssumption`: a packet is at most half of the
smaller buffer). `IInv` is the types, `BytesInPlace`, and `TurningPoint`: in a
buffer that has not turned `m_lastIndex` is the capacity; in one that has, it
is less than a packet away from it. From it: `NoByteIsOverwritten`,
`ImplementsByteStream` (every step of the buffer is one of the stream or none
of its business), `EmptyBufferTakesEveryPacket` (this is where half the buffer is needed)
and `NoWakeupIsLost`.

**Dispatcher_proof** (from `ConstantsAssumption`). Three invariants, each on
top of the one before: ids are unique and a Request's id is 0 or its token
(`IdsRight`); an Ack anywhere carries 0 or its own Request's token
(`AnswersRight`); the table has a Request under its own token and only while it
is unanswered (`TableRight`). From these `HandlersRunOnce`,
`NoRequestIsForgotten` and `ImplementsRequestOnce`, with the refinement mapping
`OnceState`.

**GateLogin_proof** (from `ConstantsAssumption`, `NoneIsNoEntry`).
`NoConnectionIsLost` needs, besides the types, that an entry whose time is over
exists (`DueHaveEntries`); the queue lemmas `EnqueueKeeps` and `DoneKeeps` say
which notice a handler consumes, and each action accounts for the channel whose
notice that was.

**SessionMgr_proof** (from `GroupAssumption`, `ThreadAssumption`). The
properties are not inductive one by one: a descriptor is closed once because it
is in one place, a group has no closed member because a closed one was in no
other place, a message can name its server because an open descriptor
has one. `IInv` joins the types, `EveryDescriptorHasOneOwner`,
`OpenHasRemote`, `GroupMembersAreLive`, `HandshakeHasDeadline` and `Queues` (a
dispatcher that has a timeout to erase still has its message). The lemmas
`StillCore`, `DeleteSessionCore` ... say what each kind of step preserves,
and each action is one of these. `OneGroupIsOfItsServer` is the counterpart
of the violated run `session_group`: *if at most one server opens a group*
(`OneGroupOnly`), as in the configuration files of the repository, the channels bound to the
group are its server's. It adds `GroupIsOfServer`: a live
session with a group is a member of it, and a server's group is never empty.

**PlayerMessage_proof** (from `RegistryAssumption`, `PlayerAssumption`: the
mark of no channel and no player is none, and a server of another type is
neither a gate nor a DB server). `IInv` is
`RegistryInv /\ PlayersInv /\ ExitsInv`. A registered server is listed only
because of what is still on its way: `InFlight` says that a channel that is
announced is neither registered nor asked yet (a refused one is closed), and
that the channel of an Ack leads to a server. `OnePlayerObject` holds with the
types of the two maps. `ExitAccounted` needs `Numbered`: what is kept of exits is of those there
were, and a save under way is of a player in the maps, so that its Ack finds
the answer that waits for it. `RegisteredServersAreListed` and
`RegistryListsServers` are the theorems about the registry, the others
about the players.

**SharedParts_proof** (from `PoolAssumption`, `LuaAssumption`,
`MemoryAssumption`, `PtrAssumption`, `EventAssumption`: threads and pointers are
finitely many, numbers are natural, a pointer belongs to one thread or is the shared
one, and the marks of nothing are none of what there is). Each
part has an inductive invariant, and `SharedInv` joins them; a part that does
not run leaves its variables alone, so that its invariant stays.

* `PoolInv` and `PoolGrowth`, of both pools of connections, whose steps on the pool are the
  same but for a bound: each connection is idle once, in one hand, or left behind. That
  the pool is bounded (`PoolIsBounded`) counts what *is still to come*: a user
  who found too few idle ones holds `toAdd` more, so the invariant bounds
  `m_poolSize` plus these by `PoolBound` plus those left behind; with
  `FiniteSetTheorems` the connections in hand are as many as the users at most.
* `SqlInv`: what a statement leaves unread is what `Clear` reads before the next one
  (`LeavesInSync`), and an idle connection has nothing left. `RedisInv`: the
  replies to come are as many as counted, and only who inherited some finds those of another.
* `LuaInv`: each interpreter is in the pool once or has one user, its stack
  is as high as `height` and the values of failed calls (`short`) say, and the count of its
  pointers is right until two threads have changed it at once.
* `MemInv`: a block is free once or owned, a `malloc` or `free` under way holds one
  that is neither, and the blocks there are, are those ever made (`Covers`,
  counted by `Cardinality`); the flag byte of an owned block is its allocator's.
* `PtrInv`: a count is the number of pointers and of half-done `AddRef`s and
  `ReleaseRef`s (`Counted`); threads in the middle of a step have pointers of their own
  (`PtrApart`), and one thread at most is about to delete an object (`PtrEnds`).
* `EventInv`: an event's slots are the connected ones that name it, without
  repetition, in the order of their groups; and a dispatch (`Frame`) has called the slots
  of the places it has passed that were connected then. A slot is used once, so a callback
  changes none that a dispatch has copied but by disconnecting it
  (`FrameKept`): this is what makes the nested dispatches go together.
* `WatchInv`: `WatchersWanted` is inductive with the range of `wants`.

* `WheelInv`, of both timer managers. A timer has one place at most, and one if it is due
  (`OnePlace`); the stages of a round say what the lists made earlier still hold. That none
  fires early is a matter of arithmetic: `Timely` bounds the time until a timer is due by the rounds it
  waits and the ticks until its slot is visited, less what a late round has seen pass already (the next tick is as late as any
  thread has seen on the clock: `overdue`), and
  each step of `TimerWheel` trades one of these for another. What is left to a callback is `Slack`: one slot,
  and two in `SingleTimerManager`, whose main loop may be behind the wheel.
* `HTimerInv`, of antlib's timers: until one was moved from the wrong list (`lapsed`), a timer is in the queue, in
  the list of its second of this period, in that of its period, or was sent on its tick (`OnItsTick`).

`ResourcesAreAccounted`, `SubscribersAlwaysCalled`, `TimersStayInPlace` and `SharedTypesCorrect`
follow. They need of the timers `WheelAssumption` (there are slots, and none is asked for sooner than
a slot lasts) and `HTimerAssumption` (a period has seconds; the clock may go back).

**ToolParts_proof** (from `LogAssumption`, `WorkAssumption`, `QueueAssumption`, `HashAssumption`,
`ListAssumption`, `LibAssumption`: the numbers are numbers, threads are finitely many and either push or pop, the
null pointer and no value are none of what there is, an index is one of the table's, and each handler is in
one group). `QueuesStayInOrder` is `QueuesInOrder` of `ToolSpec`, and
`ToolInv` joins the invariants of the tools:

* `WorkInv`: the tasks begun and those queued are numbered through, and
  a thread that looks, runs or has ended is `Awake` while one is queued, unless an
  event was unheard. An event that finds no thread about to wait wakes one, or finds one awake.
* `LogInv` says where the lines end that the writer has done with
  (`LastDone`) and has taken (`LastTaken`): its list and the one that waits follow
  these, and the lines up to `LastDone` are in their files in order, dropped, or without a file.
* `ListInv`: the pointers of each list make its sequence forwards and
  backwards (`Chain`), lists have no node in common, and no assertion failed. `ChainPut`
  and `ChainCut` say what becomes of a chain when the pointers around one place change;
  each operation of `double_list.h` is one of the two.
* `QueueInv`, of the lock-free queue, for any number of threads that push and pop at once. The
  nodes before the tail are full, those before the head empty, and each is linked to the next (`NodesInRow`);
  whoever has the last slot of a node, and only he, links the next one or moves on to it (`LastSlots`). A
  slot that was given out to push and is empty has its writer (`Pushed`), one that was given out to pop has its reader
  or was read (`Popped`), and what a thread pushes is in slots of rising places, which is why it is
  popped in order. `Counted` is what makes popping safe: those who have taken an item or are about to are no more than
  the items whose push has counted them, although a pop of buffers counts an item off twice, when it
  reserves it and when it is done. In a handler `OneHandles` says that whoever is not at rest has the lock.
* `HashInv`: `Table` has each key once, in the chain of its index, with what was stored last; and while
  `doall_strhash` walks, the values it has still to ask about are those in `Coming` places
  (`NodesAsked`): behind the place it has come to, and the first node of the chain, whether or not nodes
  were dropped on the way.
* `LibInv`: each message is in one queue, once, or handled, or freed (`MsgsPlaced`); threads are made for
  one group after another, all sharing its handlers or each with its own (`ThreadsMade`), so that nobody is
  in a handler together with another (`InHandlers`: with the lock, where threads share); and main has come as far as threads have
  started or ended (`MainComes`), so that queues are freed only when no thread is left. `Died` names the two ends by accident.

Only model-checked: `NetworkInOrder` and `Parts!TypeOK`, which joins the types of all layers (those of
`SharedParts` are proved), and the liveness properties
(`ChangeIsWrittenBack`, `BytesGoOut`, `EveryRequestEnds`, `DeadClientIsClosed`,
`IdleClientIsClosed`, `LoginEnds`, `DeadChannelIsClosed`, `HandshakeEnds`,
`ExitIsAnswered`, `WorkIsDone`). The latter depend on fairness, that is on ENABLED, which the proof
system does not handle.

---

## 6. Where the code and its comments disagree

* **`cache_evict`.** `CharMemCache.h:76` announces "批量保存删除", save and
  delete in a batch. `SaveCacheAndDelete` (`CharMemCache.cpp:176-178`) ignores
  the result of the UPDATE and erases the entry: if it failed, the change is
  neither in the table nor in memory.
* **`gate_server`.** `ServerManager.h:237` says that `m_connectList` serves to
  check that connections are valid. A client that leaves before PLAYERINFO has
  its channel closed but not its entry removed (`ServerManager.cpp:262`). When the entry is due, `checkConnect` closes
  whatever connection has the descriptor by then; the run shows it closing a
  registered game server. `CloseChannel` reports no error, so `m_gsIDSvr` keeps
  the server, and when it connects again it is refused as a second one.
* **`session_group`.** `Message_Facade.h:113` says that a key identifies "组里的
  唯一标识一个channel", one channel of the group, and `GroupSession.h:36` that
  the vector of a group holds its channels. The id of a group is the descriptor
  of its founder. When that connection breaks, the group lives on
  under its id, the descriptor goes to another connection, and if this founds
  a group, `AddGroupSession` overwrites `m_groupChannel` at that descriptor
  (`GroupSession.cpp:57-59`): both servers' keys then lead to the new
  group, and what is bound for the first server is sent to the second.

* **`game_logout`.** `Player.cpp:200` says "下线时没有任何改变也要发送", at logout
  the data are sent even if nothing has changed. The DB channel of a new player is looked
  up at `PlayerMessage.cpp:342` by an id that `InitBaseInfo` has not yet set,
  which stands for the DB server 65535, so a player is given no channel though his DB
  server is registered. The save of his exit goes nowhere, and the exit is
  never answered.

More things the models had to follow, which no comment contradicts:

* `UpdatePlayerInfo` leaves the channel of a former login open (`replaced` in
  `ChannelAccounted`). `Send` stops at the turning point of the buffer, and the
  bytes at the front wait for the next packet (`AtTurn` in `NoLostWakeup` and
  `BytesGoOut`). No client outlives the time of its login (section 3), because the
  Ack of CLIENTIN is registered but not dispatched.
* An exit that finds another of the player waiting is never answered; and the
  Ack of a save answers whichever exit waits, even if the save failed.
* A session that a dispatcher deletes while it is between the two maps stays
  open and unwatched; the failure of the answer to it is logged only (section 3).
* An interpreter is put back into the Lua pool before its user has dropped his
  pointer; `Smart_Ptr.h:17-19` forbids such pointers between threads.
* A connection that was taken from a pool which then fails to grow is lost to
  it (`leaked`); a Redis connection is given back with replies unread.
* `DestoryInstance` of the logger waits for an event that may have been set
  before (the server then does not exit); the thread pool's event may be
  set while nobody waits.
* `destory_threads_list` joins a list by way of a variable it has not set; a
  message sent while the handlers stop fails an assertion; at the end of a
  period `HandlerTimer` moves the timers of the wrong one; a tcp ring is read when
  it is empty; a connection that can not be begun ends the process; and the
  gate's handler of the login service changes a table that others use.

---

## 7. What is not modelled

* *Both ends of a session in one state space*: `SessionMgr` is the accepting end,
  `ServerConnect` the connecting one, each with the other as its environment.
  `GateLogin` has the reuse of descriptors as the gate sees it.
* *Overflow of the token counter* (`DispatchMessage.h:66`): a clash needs 2^31
  Requests within one timeout. `Dispatcher` stops before.
* *Time in seconds*: a deadline is passed or not. No property depends on how long
  it is, only on the order of events; `TimerWheel` and `HandlerTimer`, whose business
  it is, count.
* *Message contents, encoding, encryption, SQL texts*: abstracted to the values
  the properties tell apart.
* *What never runs*: timers of the game server (it initialises `eTimerSingle` and
  never calls `StartTick`, so neither `RemoveDelayPlayer` nor the timed
  `SaveAllPlayer` comes); the gate's `m_client` and `m_idClient`, which nothing
  fills, and `m_loginServer`, `m_worldServer`, which nothing asks; the Redis pool, the
  thread pool, the Lua pool's growth and `FriendMessage`, which no server uses but
  which are modelled for whoever will.
* *The parts that are left over of some modules*: `realloc` and the `free` with a
  size of the memory pool, `Task.cpp`'s delayed tasks, `uninit_timer` of antlib,
  the system message that sets a user's id.
* *Object lifetime* beyond `SmartPtr`, `MemoryPool` and `TcpConn`: the models use values.
* *Start-up* (`ServiceMain`, the tables of handlers, configuration files),
  *MD5, SHA1, ini files, utilities, vendored headers*: no state that steps
  of several actors change.
