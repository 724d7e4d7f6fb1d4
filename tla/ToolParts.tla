------------------------------ MODULE ToolParts ------------------------------
(***************************************************************************)
(* The tools that the programs are built with: the logger, the task        *)
(* threads, and antlib's lock-free queue, hash table, lists, and handlers  *)
(* with their threads.  One of them is used in each behaviour, and the     *)
(* others stay as they are; Parts runs them with the other parts.          *)
(***************************************************************************)
EXTENDS Integers, FiniteSets, Sequences

CONSTANTS
  \* Logger, ThreadPool, Squeue
  LogTypes, MaxLines, m_singleLogSize, MaxLogged,
  m_dwThreadNum, MaxTasks,
  Pushers, Poppers, SQUEUE_NODE_SIZE, MaxItems,
  \* StrHash, LinkedList, HandlerLib
  STRHASH_CAP_MAX, Keys, IndexOf, Values, NoValue,
  Lists, ListNodes, ListNULL,
  HandlersOf, ThreadsNum, WaitTries, MaxHandlerMsgs

VARIABLES
  tool,  \* the one that is used
  m_logList, tList, pos, writer, file, enableLog, m_threadEnd, waiting,
  logged, written, dropped, unsaved,
  m_queueTask, m_bExitThread, work, joins, signaled, added, begun, unheard,
  node, nodes, free_ptr, qtail, qhead, qcount, _locker, pc, sent, got,
  _cap, walk, stored, unasked, answered, freed,
  _head, _tail, _next, _prev, order, asserted,
  _threads_num, main, _threadlist, _index, handlerLocks, thread, _running, _state,
  handlerQueue, handlerMsgs, handled, freedMsgs, aborted

logVars   == <<m_logList, tList, pos, writer, file, enableLog, m_threadEnd, waiting,
               logged, written, dropped, unsaved>>
workVars  == <<m_queueTask, m_bExitThread, work, joins, signaled, added, begun, unheard>>
queueVars == <<node, nodes, free_ptr, qtail, qhead, qcount, _locker, pc, sent, got>>
hashVars  == <<_cap, walk, stored, unasked, answered, freed>>
listVars  == <<_head, _tail, _next, _prev, order, asserted>>
libVars   == <<_threads_num, main, _threadlist, _index, handlerLocks, thread, _running,
               _state, handlerQueue, handlerMsgs, handled, freedMsgs, aborted>>

Log == INSTANCE Logger
Work == INSTANCE ThreadPool WITH raced <- unheard
Queue == INSTANCE Squeue WITH Locked <- (tool = "queue")
Hash == INSTANCE StrHash
List == INSTANCE LinkedList WITH NULL <- ListNULL
Lib == INSTANCE HandlerLib WITH
  Tries <- WaitTries, MaxMsgs <- MaxHandlerMsgs, _locker <- handlerLocks,
  queue <- handlerQueue, made <- handlerMsgs, freed <- freedMsgs

\* A list of lines has room for a number of them, and a pool of task threads
\* has one thread at least.
ASSUME LogAssumption == MaxLines \in Nat
ASSUME WorkAssumption == m_dwThreadNum \in Nat \ {0}

\* Finitely many threads use a queue, each to push or to pop; a locker of 0 is
\* nobody's, and a node of the queue has a slot.
ASSUME QueueAssumption ==
  /\ IsFiniteSet(Pushers) /\ IsFiniteSet(Poppers) /\ Pushers \cap Poppers = {}
  /\ 0 \notin Poppers
  /\ SQUEUE_NODE_SIZE \in Nat \ {0} /\ MaxItems \in Nat

\* get_strindex tells an index of the table; NULL is not stored.
ASSUME HashAssumption ==
  /\ STRHASH_CAP_MAX \in Nat
  /\ \A k \in Keys : IndexOf[k] \in 0 .. STRHASH_CAP_MAX - 1
  /\ NoValue \notin Values

\* No node is the null pointer.
ASSUME ListAssumption == ListNULL \notin ListNodes

\* There is a group of handlers, each has one at least, and a handler is in one
\* place; their ids are the numbers from 1 on.
ASSUME LibAssumption ==
  /\ HandlersOf \in Seq(Seq(Nat \ {0})) /\ HandlersOf # <<>>
  /\ \A g \in DOMAIN HandlersOf : HandlersOf[g] # <<>>
  /\ \A g, h \in DOMAIN HandlersOf : \A i \in DOMAIN HandlersOf[g], j \in DOMAIN HandlersOf[h] :
       HandlersOf[g][i] = HandlersOf[h][j] => g = h /\ i = j
  /\ \A h \in Lib!Handlers : 1 .. h \subseteq Lib!Handlers
  /\ ThreadsNum \subseteq Nat \ {0} /\ WaitTries \in Nat \ {0} /\ MaxHandlerMsgs \in Nat

ToolNames == {"log", "tasks", "queue", "buffers", "hash", "lists", "handlers"}

ToolInit ==
  /\ tool \in ToolNames
  /\ Log!LogInit /\ (tool # "log" => \A t \in DOMAIN file : file[t].open)
  /\ Work!WorkInit
  /\ Queue!SqueueInit
  /\ Hash!HashInit
  /\ List!ListInit
  /\ Lib!LibInit
  /\ tool # "handlers" => _threads_num = [g \in Lib!Groups |-> CHOOSE n \in ThreadsNum : TRUE]

\* Only the variables of tool p change.
ToolRuns(p) ==
  /\ tool = p /\ tool' = tool
  /\ IF p = "log" THEN TRUE ELSE UNCHANGED logVars
  /\ IF p = "tasks" THEN TRUE ELSE UNCHANGED workVars
  /\ IF p \in {"queue", "buffers"} THEN TRUE ELSE UNCHANGED queueVars
  /\ IF p = "hash" THEN TRUE ELSE UNCHANGED hashVars
  /\ IF p = "lists" THEN TRUE ELSE UNCHANGED listVars
  /\ IF p = "handlers" THEN TRUE ELSE UNCHANGED libVars

ToolNext ==
  \/ ToolRuns("log") /\ Log!LogNext
  \/ ToolRuns("tasks") /\ Work!WorkNext
  \/ ToolRuns("queue") /\ Queue!SqueueNext
  \/ ToolRuns("buffers") /\ Queue!SqueueNext
  \/ ToolRuns("hash") /\ Hash!HashNext
  \/ ToolRuns("lists") /\ List!ListNext
  \/ ToolRuns("handlers") /\ Lib!LibNext

toolVars == <<tool, logVars, workVars, queueVars, hashVars, listVars, libVars>>

ToolSpec == ToolInit /\ [][ToolNext]_toolVars

-----------------------------------------------------------------------------
ToolTypeOK ==
  CASE tool = "log" -> Log!LogTypeOK
    [] tool = "tasks" -> Work!WorkTypeOK
    [] tool \in {"queue", "buffers"} -> Queue!SqueueTypeOK
    [] tool = "hash" -> Hash!HashTypeOK
    [] tool = "lists" -> List!ListTypeOK
    [] tool = "handlers" -> Lib!LibTypeOK

\* What is queued is worked off once, in order: lines of the log, tasks, and
\* the messages of a handler, whose threads are gone before its queue; no thread
\* waits for what nobody queues; and the lists and tables underneath hold what
\* was put into them.
QueuesInOrder ==
  /\ tool = "log" => Log!LinesWritten
  /\ tool = "tasks" => Work!TasksInOrder
  /\ tool = "queue" => Queue!ItemsInOrder
  /\ tool = "buffers" => Queue!ItemsInOrder
  /\ tool = "hash" => Hash!HashIsMap
  /\ tool = "lists" => List!ListIsSequence
  /\ tool = "handlers" => Lib!HandlersInOrder
=============================================================================
