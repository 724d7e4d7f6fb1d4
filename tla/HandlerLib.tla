------------------------------ MODULE HandlerLib ------------------------------
(***************************************************************************)
(* The handlers of antlib and their threads, from the start of a server to *)
(* its end: main makes the threads of each group, starts them, sends what  *)
(* its timers bring, and on a signal stops the threads and frees all.      *)
(*                                                                         *)
(* A group with threads enough has one for each handler, which runs it     *)
(* without a lock; in a group with fewer the threads go round its handlers *)
(* and run those whose _locker they find free (Squeue has the queue below).*)
(***************************************************************************)
EXTENDS Integers, Sequences, FiniteSets, Functions

CONSTANTS
  HandlersOf,  \* the handlers of each group, in the order they are registered
  ThreadsNum,  \* the numbers of threads that may be configured
  Tries,       \* handlers a thread tries before it looks at _running: 7 in the code
  MaxMsgs      \* bound of the model: messages

Groups   == DOMAIN HandlersOf
Handlers == UNION {Range(HandlersOf[g]) : g \in Groups}  \* a handler's id: its place in _list
Msgs == 1 .. MaxMsgs
None == 0  \* no handler

VARIABLES
  _threads_num,  \* of each group, as configured and then as needed
  main,          \* what main does, and with which group or thread
  _threadlist,   \* the threads made, with the group and, if they have one, the handler of each
  _index,        \* of each group: the handler to be tried next
  _locker,       \* the handlers that a thread of several has locked
  thread,        \* what each thread does, in which handler, for how many messages and tries
  _running,      \* the threads that are to go on
  _state,        \* 1: made, 2: started, 3: stopped
  queue,         \* the messages of each handler
  made,          \* how many messages there were
  handled, freed, \* history: how often each message was handled; those freed at the end
  aborted        \* why the process died: "assertion", or "threads", or "no"

libVars == <<_threads_num, main, _threadlist, _index, _locker, thread, _running, _state, queue, made,
             handled, freed, aborted>>
listVars == <<_threads_num, _threadlist>>
lockVars == <<_index, _locker>>

Threads == DOMAIN _threadlist
Unborn == [at |-> "unborn", handler |-> None, batch |-> 0, tries |-> 0]

\* _pools has the group that was made last in front.
LibInit ==
  /\ _threads_num \in [Groups -> ThreadsNum]
  /\ main = [at |-> "create", k |-> Len(HandlersOf)]
  /\ _threadlist = <<>>
  /\ _index = [g \in Groups |-> 0] /\ _locker = {}
  /\ thread = <<>> /\ _running = {}
  /\ _state = 2
  /\ queue = [h \in Handlers |-> <<>>] /\ made = 0
  /\ handled = [n \in Msgs |-> 0] /\ freed = {} /\ aborted = "no"

MainAt(a) == aborted = "no" /\ main.at = a
Goes(a, k) == main' = [at |-> a, k |-> k]

\* send_handler_msg of handler h, or nothing at all; the first line asserts
\* that the library has not been stopped.
Sends(q) ==
  \/ queue' = q /\ UNCHANGED <<made, aborted>>
  \/ /\ made < MaxMsgs
     /\ IF _state = 3
        THEN aborted' = "assertion" /\ queue' = q /\ UNCHANGED made
        ELSE \E h \in Handlers :
               /\ made' = made + 1
               /\ queue' = [q EXCEPT ![h] = Append(@, made')]
               /\ UNCHANGED aborted

-----------------------------------------------------------------------------
(***************************************************************************)
(* start_all_handlers                                                      *)
(***************************************************************************)
Fits(g) == Len(HandlersOf[g]) <= _threads_num[g]

\* Broken variant: each thread is given the first handler of the group.
Threadlist_First(g) ==
  IF Fits(g) THEN [i \in DOMAIN HandlersOf[g] |-> [group |-> g, handler |-> HandlersOf[g][1]]]
             ELSE [i \in 1 .. _threads_num[g] |-> [group |-> g, handler |-> None]]

Threadlist(g) ==
  IF Fits(g) THEN [i \in DOMAIN HandlersOf[g] |-> [group |-> g, handler |-> HandlersOf[g][i]]]
             ELSE [i \in 1 .. _threads_num[g] |-> [group |-> g, handler |-> None]]

\* crate_handlers_thread, while no thread runs yet.
CreateThreads ==
  LET g == main.k IN
  /\ MainAt("create")
  /\ _threadlist' = _threadlist \o Threadlist(g)
  /\ thread' = thread \o [i \in DOMAIN Threadlist(g) |-> Unborn]
  /\ _threads_num' = [_threads_num EXCEPT ![g] = Len(Threadlist(g))]
  /\ IF g = 1 THEN Goes("start", 1) ELSE Goes("create", g - 1)
  /\ UNCHANGED <<lockVars, _running, _state, queue, made, handled, freed, aborted>>

\* start_all_threads
StartThread ==
  LET k == main.k IN
  /\ MainAt("start")
  /\ _running' = _running \cup {k}
  /\ thread' = [thread EXCEPT ![k].at = "loop"]
  /\ IF k = Len(_threadlist) THEN Goes("loop", 0) ELSE Goes("start", k + 1)
  /\ UNCHANGED <<listVars, lockVars, _state, queue, made, handled, freed, aborted>>

-----------------------------------------------------------------------------
(***************************************************************************)
(* The loop of main, with the timers; stop_server                          *)
(***************************************************************************)
ServerTimer ==
  /\ MainAt("loop")
  /\ Sends(queue)
  /\ UNCHANGED <<listVars, lockVars, main, thread, _running, _state, handled, freed>>

\* A signal ends the loop.
StopServer ==
  /\ MainAt("loop")
  /\ _state' = 3
  /\ Goes("stop", 1)
  /\ UNCHANGED <<listVars, lockVars, thread, _running, queue, made, handled, freed, aborted>>

\* stop_all_threads: each is told, then each is waited for.
StopThread ==
  LET k == main.k IN
  /\ MainAt("stop")
  /\ _running' = _running \ {k}
  /\ IF k = Len(_threadlist) THEN Goes("join", 1) ELSE Goes("stop", k + 1)
  /\ UNCHANGED <<listVars, lockVars, thread, _state, queue, made, handled, freed, aborted>>

\* Broken variant: a thread that has been told to stop is not waited for.
Ended_Told(k) == k \notin _running

Ended(k) == thread[k].at = "end"

JoinThread ==
  LET k == main.k IN
  /\ MainAt("join") /\ Ended(k)
  /\ IF k = Len(_threadlist) THEN Goes("uninit", 0) ELSE Goes("join", k + 1)
  /\ UNCHANGED <<listVars, lockVars, thread, _running, _state, queue, made, handled, freed, aborted>>

-----------------------------------------------------------------------------
(***************************************************************************)
(* uninit_handlerlib                                                       *)
(***************************************************************************)

\* destory_threads_list tests th before it was given a value: if it happens to
\* be NULL nothing is freed, else the loop passes the end of the list.
DestroyThreads ==
  /\ MainAt("uninit")
  /\ \/ Goes("handlers", 1) /\ UNCHANGED aborted
     \/ aborted' = "threads" /\ UNCHANGED main
  /\ UNCHANGED <<listVars, lockVars, thread, _running, _state, queue, made, handled, freed>>

\* destory_handler
DestroyHandler ==
  LET h == main.k IN
  /\ MainAt("handlers")
  /\ freed' = freed \cup Range(queue[h])
  /\ queue' = [queue EXCEPT ![h] = <<>>]
  /\ IF h + 1 \in Handlers THEN Goes("handlers", h + 1) ELSE Goes("end", 0)
  /\ UNCHANGED <<listVars, lockVars, thread, _running, _state, made, handled, aborted>>

MainThread ==
  \/ CreateThreads \/ StartThread
  \/ StopThread \/ JoinThread \/ DestroyThreads \/ DestroyHandler

-----------------------------------------------------------------------------
(***************************************************************************)
(* _thread_proc, of thread k, with thread_proc_handler or                  *)
(* handlers_list_thread_proc                                               *)
(***************************************************************************)
ThreadAt(k, a) == aborted = "no" /\ k \in Threads /\ thread[k].at = a
Shares(k) == _threadlist[k].handler = None

\* The thread comes to handler h and counts the messages first (do_handler).
Enters(k, h, n) ==
  thread' = [thread EXCEPT ![k] =
    [at |-> "handle", handler |-> h, batch |-> Len(queue[h]), tries |-> n]]

DoHandler(k) ==
  /\ ThreadAt(k, "loop") /\ k \in _running /\ ~Shares(k)
  /\ Enters(k, _threadlist[k].handler, 0)
  /\ UNCHANGED <<listVars, lockVars, main, _running, _state, queue, made, handled, freed,
                 aborted>>

\* Broken variant: a thread does not look whether the handler is locked.
Locked_Ignored(h) == FALSE

Locked(h) == h \in _locker

\* The next handler of the group, if no other thread is in it.
TryHandler(k) ==
  LET g == _threadlist[k].group
      n == IF thread[k].at = "loop" THEN 0 ELSE thread[k].tries
      h == HandlersOf[g][_index[g] + 1]
  IN /\ \/ ThreadAt(k, "loop") /\ k \in _running /\ Shares(k)
        \/ ThreadAt(k, "try") /\ n < Tries
     /\ _index' = [_index EXCEPT ![g] = (@ + 1) % Len(HandlersOf[g])]
     /\ IF Locked(h)
        THEN thread' = [thread EXCEPT ![k].at = "try", ![k].tries = n + 1] /\ UNCHANGED _locker
        ELSE _locker' = _locker \cup {h} /\ Enters(k, h, n + 1)
     /\ UNCHANGED <<listVars, main, _running, _state, queue, made, handled, freed, aborted>>

\* _domsg_proc, which may send a message on.
DoMsg(k) ==
  LET h == thread[k].handler IN
  /\ ThreadAt(k, "handle") /\ thread[k].batch > 0
  /\ thread' = [thread EXCEPT ![k].batch = @ - 1]
  /\ handled' = [handled EXCEPT ![Head(queue[h])] = @ + 1]
  /\ Sends([queue EXCEPT ![h] = Tail(@)])
  /\ UNCHANGED <<listVars, lockVars, main, _running, _state, freed>>

\* _handler_proc, which may send one too, and the end of do_handler.
HandlerProc(k) ==
  LET n == thread[k].tries IN
  /\ ThreadAt(k, "handle") /\ thread[k].batch = 0
  /\ Sends(queue)
  /\ _locker' = _locker \ {h \in {thread[k].handler} : Shares(k)}
  /\ thread' = [thread EXCEPT ![k] =
       IF Shares(k) /\ n < Tries THEN [Unborn EXCEPT !.at = "try", !.tries = n]
                                 ELSE [Unborn EXCEPT !.at = "loop"]]
  /\ UNCHANGED <<listVars, main, _index, _running, _state, handled, freed>>

\* All tries of a round have been made.
RoundEnds(k) ==
  /\ ThreadAt(k, "try") /\ thread[k].tries = Tries
  /\ thread' = [thread EXCEPT ![k] = [Unborn EXCEPT !.at = "loop"]]
  /\ UNCHANGED <<listVars, lockVars, main, _running, _state, queue, made, handled, freed,
                 aborted>>

ThreadEnds(k) ==
  /\ ThreadAt(k, "loop") /\ k \notin _running
  /\ thread' = [thread EXCEPT ![k].at = "end"]
  /\ UNCHANGED <<listVars, lockVars, main, _running, _state, queue, made, handled, freed,
                 aborted>>

HandlerThread(k) ==
  \/ DoHandler(k) \/ TryHandler(k) \/ DoMsg(k) \/ HandlerProc(k)
  \/ RoundEnds(k) \/ ThreadEnds(k)

LibNext ==
  \/ MainThread \/ ServerTimer \/ StopServer
  \/ \E k \in Threads : HandlerThread(k)

-----------------------------------------------------------------------------
LibTypeOK ==
  /\ \A g \in Groups : _threads_num[g] \in ThreadsNum \cup {Len(HandlersOf[g])}
  /\ main.at \in {"create", "start", "loop", "stop", "join", "uninit", "handlers", "end"}
  /\ \A k \in Threads : /\ _threadlist[k].group \in Groups
                        /\ _threadlist[k].handler \in Handlers \cup {None}
                        /\ thread[k].at \in {"unborn", "loop", "try", "handle", "end"}
                        /\ thread[k].tries \in 0 .. Tries
  /\ Len(thread) = Len(_threadlist) /\ _running \subseteq Threads
  /\ \A g \in Groups : _index[g] \in 0 .. Len(HandlersOf[g]) - 1
  /\ _locker \subseteq Handlers
  /\ _state \in {2, 3} /\ made \in 0 .. MaxMsgs
  /\ queue \in [Handlers -> Seq(Msgs)]
  /\ aborted \in {"no", "assertion", "threads"}

InHandler(k) == thread[k].at = "handle"

\* A message is in the queue of a handler, was handled or was freed, one of
\* these and once; two threads are never in one handler, and it is locked while
\* a thread of several is in it, and then only; nothing is freed while a
\* thread goes on.  The process dies only when a handler sends a message
\* during the stop, or when the list of threads is freed after it.
HandlersInOrder ==
  /\ \A n \in 1 .. made :
       Cardinality({h \in Handlers : n \in Range(queue[h])})
         + handled[n] + (IF n \in freed THEN 1 ELSE 0) = 1
  /\ \A k, l \in Threads :
       k # l /\ InHandler(k) /\ InHandler(l) => thread[k].handler # thread[l].handler
  /\ _locker = {thread[k].handler : k \in {k \in Threads : InHandler(k) /\ Shares(k)}}
  /\ main.at \in {"uninit", "handlers", "end"} => \A k \in Threads : thread[k].at = "end"
  /\ main.at = "end" => \A h \in Handlers : queue[h] = <<>>
  /\ aborted = "assertion" => main.at \in {"stop", "join"}
  /\ aborted = "threads" => main.at = "uninit"

\* Messages that no thread has taken although none was told to stop; and a
\* server that is starting or stopping.
Unhandled == aborted = "no" /\ main.at = "loop" /\ \E n \in 1 .. made : handled[n] = 0
Changing == aborted = "no" /\ main.at \notin {"loop", "end"}
=============================================================================
