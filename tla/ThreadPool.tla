------------------------------ MODULE ThreadPool ------------------------------
(***************************************************************************)
(* CThreadPool: AddTask queues a function and sets the event, ThreadWork   *)
(* of each thread takes and runs one after another and waits for the event *)
(* when it has found the queue empty.                                      *)
(*                                                                         *)
(* Event is a condition without a predicate: SetEvent wakes one thread     *)
(* that waits, and is lost if none does; a wait may end by itself.  The    *)
(* queue's lock is given back before the wait begins, so a task can come   *)
(* in between.                                                             *)
(***************************************************************************)
EXTENDS Integers, Sequences, FiniteSets, Functions

CONSTANTS
  m_dwThreadNum,
  MaxTasks        \* bound of the model: tasks that are added

Workers == 1 .. m_dwThreadNum

VARIABLES
  m_queueTask, m_bExitThread,
  work,      \* what each thread does: look, empty (it found no task), wait, run, end
  joins,     \* the thread that DestroyInstance joins, or will signal next
  signaled,  \* it has set the event for it
  added,     \* tasks added so far
  begun,     \* history: tasks in the order they were begun
  raced      \* history: an event was set for nobody while a thread was about to wait

workVars == <<m_queueTask, m_bExitThread, work, joins, signaled, added, begun, raced>>

WorkInit ==
  /\ m_queueTask = <<>> /\ m_bExitThread = FALSE
  /\ work = [w \in Workers |-> "look"]
  /\ joins = 1 /\ signaled = FALSE
  /\ added = 0 /\ begun = <<>> /\ raced = FALSE

\* SetEvent: one of the threads that wait looks again.
SetEvent ==
  LET waits == {w \in Workers : work[w] = "wait"} IN
  IF waits = {}
  THEN raced' = (raced \/ \E w \in Workers : work[w] = "empty") /\ UNCHANGED work
  ELSE (\E w \in waits : work' = [work EXCEPT ![w] = "look"]) /\ UNCHANGED raced

\* AddTask queues the task under the lock and then sets the event.
AddTask ==
  /\ added < MaxTasks /\ ~m_bExitThread
  /\ added' = added + 1
  /\ m_queueTask' = Append(m_queueTask, added')
  /\ SetEvent
  /\ UNCHANGED <<m_bExitThread, joins, signaled, begun>>

\* Broken variant: the task is read under one lock and popped under another.
Popped_Later(queue) == queue

Popped(queue) == Tail(queue)

TakeTask(w) ==
  /\ work[w] = "look" /\ ~m_bExitThread /\ m_queueTask # <<>>
  /\ m_queueTask' = Popped(m_queueTask)
  /\ begun' = Append(begun, Head(m_queueTask))
  /\ work' = [work EXCEPT ![w] = "run"]
  /\ UNCHANGED <<m_bExitThread, joins, signaled, added, raced>>

FinishTask(w) ==
  /\ work[w] = "run"
  /\ work' = [work EXCEPT ![w] = "look"]
  /\ UNCHANGED <<m_queueTask, m_bExitThread, joins, signaled, added, begun, raced>>

FindNone(w) ==
  /\ work[w] = "look" /\ ~m_bExitThread /\ m_queueTask = <<>>
  /\ work' = [work EXCEPT ![w] = "empty"]
  /\ UNCHANGED <<m_queueTask, m_bExitThread, joins, signaled, added, begun, raced>>

WaitForSingleEvent(w) ==
  /\ work[w] = "empty"
  /\ work' = [work EXCEPT ![w] = "wait"]
  /\ UNCHANGED <<m_queueTask, m_bExitThread, joins, signaled, added, begun, raced>>

SpuriousWakeUp(w) ==
  /\ work[w] = "wait"
  /\ work' = [work EXCEPT ![w] = "look"]
  /\ UNCHANGED <<m_queueTask, m_bExitThread, joins, signaled, added, begun, raced>>

ThreadEnds(w) ==
  /\ work[w] = "look" /\ m_bExitThread
  /\ work' = [work EXCEPT ![w] = "end"]
  /\ UNCHANGED <<m_queueTask, m_bExitThread, joins, signaled, added, begun, raced>>

\* DestroyInstance: one event and one join after the other, whichever thread
\* the event wakes.
DestroyInstance ==
  /\ joins \in Workers /\ ~signaled
  /\ m_bExitThread' = TRUE /\ signaled' = TRUE
  /\ SetEvent
  /\ UNCHANGED <<m_queueTask, joins, added, begun>>

JoinThread ==
  /\ signaled /\ work[joins] = "end"
  /\ joins' = joins + 1 /\ signaled' = FALSE
  /\ UNCHANGED <<m_queueTask, m_bExitThread, work, added, begun, raced>>

WorkNext ==
  \/ AddTask \/ DestroyInstance \/ JoinThread
  \/ \E w \in Workers : \/ TakeTask(w) \/ FinishTask(w) \/ FindNone(w)
                        \/ WaitForSingleEvent(w) \/ SpuriousWakeUp(w) \/ ThreadEnds(w)

-----------------------------------------------------------------------------
WorkTypeOK ==
  /\ m_queueTask \in Seq(1 .. added) /\ m_bExitThread \in BOOLEAN
  /\ work \in [Workers -> {"look", "empty", "wait", "run", "end"}]
  /\ joins \in 1 .. m_dwThreadNum + 1 /\ signaled \in BOOLEAN /\ raced \in BOOLEAN

\* Each task is begun once, in the order they were added.  A task is left with
\* every thread waiting only if its event was set between a thread's look at
\* the queue and its wait: no other order of steps loses a wake-up.
TasksInOrder ==
  /\ begun \o m_queueTask = [i \in 1 .. added |-> i]
  /\ m_queueTask # <<>> /\ ~raced => \E w \in Workers : work[w] # "wait"
=============================================================================
