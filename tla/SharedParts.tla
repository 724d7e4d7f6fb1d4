------------------------------ MODULE SharedParts ------------------------------
(***************************************************************************)
(* The parts whose things several users share: the pools of connections,   *)
(* interpreters and memory, counted pointers, the lists of who is to be    *)
(* called, and the timers.  One part runs in each behaviour, and the       *)
(* others stay as they are; Parts adds the rest of the parts.              *)
(***************************************************************************)
EXTENDS Integers, FiniteSets

CONSTANTS
  NoObject, NoEvent, NoLua,  \* nothing, of several kinds
  \* SqlConn and RedisConn
  Users, PoolSize, m_rate, MaxSqlConns, MaxRedisConns, MaxPending,
  \* LuaPool, MemoryPool, SmartPtr
  LuaUsers, LuaContent, Rate, MaxLua, MaxStack, MaxShort,
  MemThreads, Requests, block_number_, MaxOwned,
  PtrThreads, Mine, Shared, Objects,
  \* EventSet, FriendWatch
  EventNames, SlotIDs, EventGroups, MaxNested,
  CharIDs,
  \* TimerWheel, HandlerTimer
  Timers, SLOT_COUNT, SLOT_CHANGE_TIME, StartTimes, Intervals, MaxLate, MaxLag,
  TimerAsks, LogTimers, Seconds, LOGDAY, PERIOD, Steps, MaxTimes

\* Finitely many threads use the pools; the numbers of the configuration are
\* natural, and the bounds of the model have room for the first connections.
ASSUME PoolAssumption ==
  /\ IsFiniteSet(Users)
  /\ {PoolSize, m_rate, MaxSqlConns, MaxRedisConns, MaxPending} \subseteq Nat
  /\ PoolSize <= MaxSqlConns /\ PoolSize <= MaxRedisConns

VARIABLES
  part,  \* the part that runs
  m_idleConn, m_usedConn, m_poolSize, hand, toAdd, leaked,
  conn, redis, inherits,
  m_pool, created, m_lua, leaving, refs, stack, height, short, miscounted,
  free_, blocks, owned, doing, peak,
  t_, ref_count_, life, step,
  m_events, m_eventSlots, m_muted, slot, firing,
  m_event_list, m_watch_list, wants,
  m_slots, m_currSlot, timer, stage, curslot, timeoutAll, toErase, reset,
  m_timeout, taken, fired, raced, early, overdue,
  _times, _near, _far, inQueue, where, _expire, ticksLeft, sentAt, logfile, lapsed

poolVars  == <<m_idleConn, m_usedConn, m_poolSize, hand, toAdd, leaked>>  \* SQL and Redis
redisVars == <<redis, inherits>>
luaVars   == <<m_pool, created, m_lua, leaving, refs, stack, height, short, miscounted>>
memoryVars == <<free_, blocks, owned, doing, peak>>
ptrVars   == <<t_, ref_count_, life, step>>
eventVars == <<m_events, m_eventSlots, m_muted, slot, firing>>
watchVars == <<m_event_list, m_watch_list, wants>>
timerVars == <<m_slots, m_currSlot, timer, stage, curslot, timeoutAll, toErase, reset,
               m_timeout, taken, fired, raced, early, overdue>>
htimerVars == <<_times, _near, _far, inQueue, where, _expire, ticksLeft, sentAt, logfile,
                lapsed>>

Sql == INSTANCE SqlConn WITH Size <- PoolSize, MaxConns <- MaxSqlConns
Redis == INSTANCE RedisConn WITH Size <- PoolSize, MaxConns <- MaxRedisConns
Lua == INSTANCE LuaPool WITH Content <- LuaContent
Memory == INSTANCE MemoryPool
Ptr == INSTANCE SmartPtr WITH Safe <- (part = "safe pointers")
Events == INSTANCE EventSet WITH
  Names <- EventNames, Groups <- EventGroups, m_slots <- m_eventSlots
Watch == INSTANCE FriendWatch
Wheel == INSTANCE TimerWheel WITH
  Starts <- StartTimes, Single <- (part = "single timers")
HTimer == INSTANCE HandlerTimer WITH Asks <- TimerAsks

\* The pool of interpreters starts with some of those that the model has, and
\* grows by one at least; nothing is not an interpreter.
ASSUME LuaAssumption ==
  /\ {LuaContent, Rate, MaxLua, MaxStack, MaxShort} \subseteq Nat
  /\ LuaContent <= MaxLua /\ Rate > 0
  /\ NoLua \notin Lua!Luas

\* Memory is asked for in bytes, and an allocator adds one block at least.
ASSUME MemoryAssumption == Requests \subseteq Nat /\ block_number_ \in Nat \ {0}

\* A pointer belongs to one thread or is the shared one; there are finitely
\* many, and nothing is not an object.
ASSUME PtrAssumption ==
  /\ \A t \in PtrThreads : /\ Shared \notin Mine[t]
                           /\ \A u \in PtrThreads \ {t} : Mine[t] \cap Mine[u] = {}
  /\ IsFiniteSet(Ptr!Ptrs)
  /\ NoObject \notin Objects

\* The groups of slots are numbers, and no event is nothing.
ASSUME EventAssumption ==
  NoEvent \notin EventNames /\ EventGroups \subseteq Nat /\ MaxNested \in Nat

\* A wheel has slots, and a timer starts one of them ahead at least.
ASSUME WheelAssumption ==
  /\ SLOT_COUNT \in Nat \ {0} /\ SLOT_CHANGE_TIME \in Nat \ {0}
  /\ \A n \in StartTimes : n \in Nat /\ n >= SLOT_CHANGE_TIME
  /\ Intervals \subseteq Nat /\ MaxLate \in Nat

\* The clock may go back.
ASSUME HTimerAssumption ==
  /\ PERIOD \in Nat \ {0} /\ MaxTimes \in Nat /\ LOGDAY \in Int
  /\ Seconds \subseteq Int /\ Steps \subseteq Int

SharedPartNames ==
  {"sql", "redis", "lua", "memory", "safe pointers", "pointers", "events", "watch",
   "timers", "single timers", "handler timers"}

SharedInit ==
  /\ Sql!SqlInit /\ Redis!RedisInit
  /\ Lua!LuaInit
  /\ Memory!MemoryInit
  /\ Ptr!PtrInit
  /\ Events!EventInit
  /\ Watch!WatchInit
  /\ Wheel!TimerInit
  /\ HTimer!HTimerInit

\* Only the variables of part p change.
SharedRuns(p) ==
  /\ part = p /\ part' = part
  /\ IF p \in {"sql", "redis"} THEN TRUE ELSE UNCHANGED poolVars
  /\ IF p = "sql" THEN TRUE ELSE UNCHANGED conn
  /\ IF p = "redis" THEN TRUE ELSE UNCHANGED redisVars
  /\ IF p = "lua" THEN TRUE ELSE UNCHANGED luaVars
  /\ IF p = "memory" THEN TRUE ELSE UNCHANGED memoryVars
  /\ IF p \in {"safe pointers", "pointers"} THEN TRUE ELSE UNCHANGED ptrVars
  /\ IF p = "events" THEN TRUE ELSE UNCHANGED eventVars
  /\ IF p = "watch" THEN TRUE ELSE UNCHANGED watchVars
  /\ IF p \in {"timers", "single timers"} THEN TRUE ELSE UNCHANGED timerVars
  /\ IF p = "handler timers" THEN TRUE ELSE UNCHANGED htimerVars

\* What the part that runs does.
SharedNext ==
  \/ SharedRuns("sql") /\ Sql!SqlNext
  \/ SharedRuns("redis") /\ Redis!RedisNext
  \/ SharedRuns("lua") /\ Lua!LuaNext
  \/ SharedRuns("memory") /\ Memory!MemoryNext
  \/ SharedRuns("safe pointers") /\ Ptr!PtrNext
  \/ SharedRuns("pointers") /\ Ptr!PtrNext
  \/ SharedRuns("events") /\ Events!EventNext
  \/ SharedRuns("watch") /\ Watch!WatchNext
  \/ SharedRuns("timers") /\ Wheel!TimerNext
  \/ SharedRuns("single timers") /\ Wheel!TimerNext
  \/ SharedRuns("handler timers") /\ HTimer!HTimerNext

sharedVars == <<part, poolVars, conn, redisVars, luaVars, memoryVars, ptrVars,
                eventVars, watchVars, timerVars, htimerVars>>

SharedSpec == SharedInit /\ [][SharedNext]_sharedVars

-----------------------------------------------------------------------------
SharedTypeOK ==
  CASE part = "sql" -> Sql!SqlTypeOK
    [] part = "redis" -> Redis!RedisTypeOK
    [] part = "lua" -> Lua!LuaTypeOK
    [] part = "memory" -> Memory!MemoryTypeOK
    [] part = "safe pointers" -> Ptr!PtrTypeOK
    [] part = "pointers" -> Ptr!PtrTypeOK
    [] part = "events" -> Events!EventTypeOK
    [] part = "watch" -> Watch!WatchTypeOK
    [] part \in {"timers", "single timers"} -> Wheel!TimerTypeOK
    [] part = "handler timers" -> HTimer!HTimerTypeOK

\* Connections, interpreters, memory and objects, with users that take and
\* return them at once, fail, and leave things behind: each is free once or
\* has one owner, no SQL connection is left out of sync, pending replies and
\* references are those counted, stacks are as high as noted, and an object is
\* deleted once, when nobody refers to it.
ResourcesAccounted ==
  /\ part = "sql" => Sql!ConnAccounted /\ Sql!PoolIsBounded /\ Sql!SqlInSync
  /\ part = "redis" => Redis!ConnAccounted /\ Redis!PoolIsBounded /\ Redis!RepliesCounted
  /\ part = "lua" => Lua!LuaAccounted
  /\ part = "memory" => Memory!BlocksAccounted
  /\ part = "safe pointers" => Ptr!ObjectsCounted
  /\ part = "pointers" => Ptr!ObjectsCounted

\* Those are called who subscribed, in their order, however callbacks and
\* departures change the lists under the dispatch.
SubscribersAreCalled ==
  /\ part = "events" => Events!SlotsAndEvents
  /\ part = "watch" => Watch!WatchersWanted

\* A timer is in one place however late rounds are and whoever adds timers in
\* between, and it is not called back before its time; antlib's comes on its
\* tick.
TimersInPlace ==
  /\ part = "timers" => Wheel!TimerInPlace /\ Wheel!NeverEarly
  /\ part = "single timers" => Wheel!TimerInPlace /\ Wheel!NeverEarly
  /\ part = "handler timers" => HTimer!TimersOnTheirTick
=============================================================================
