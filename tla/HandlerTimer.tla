----------------------------- MODULE HandlerTimer -----------------------------
(***************************************************************************)
(* The timers of antlib's handlers: a list for every second of the current *)
(* period, a list for every later period, and a queue through which other  *)
(* threads hand timers to the main loop.  The one user in the repository   *)
(* is the log, which changes its file once a day.  Lists and queue are     *)
(* sets here: the timers of a list are sent together, and the queue is     *)
(* always emptied, so that their order makes no difference.                *)
(*                                                                         *)
(* At the end of a period the first timer of the list of that period, not  *)
(* of the next one, is moved and freed, and those behind it are lost; and  *)
(* a list that was used is freed through pointers in memory just freed.    *)
(* What then happens cannot be followed: the model stops there (astray),   *)
(* always in the first case and possibly in the second.                    *)
(***************************************************************************)
EXTENDS Integers

CONSTANTS
  Asks,       \* timers that threads ask for
  LogTimers,  \* those of the log
  Seconds,    \* what they are asked for
  LOGDAY,     \* what the log asks for (24 * 3600)
  PERIOD,     \* the number of lists of each kind (65536)
  Steps,      \* how far the clock may be from the last look at it
  MaxTimes    \* bound of the model: ticks

VARIABLES
  _times,      \* ticks
  _near, _far, \* lists of timers
  inQueue,     \* _queue
  where,       \* "none", "stamped", "queue", "near", "far", "sent" for each timer
  _expire,
  ticksLeft,   \* what the main loop has still to do: ticks, then 0: the queue
  sentAt,      \* history: the tick a timer's message was sent at, and from where
  logfile,     \* the file of the log
  lapsed       \* astray

htimerVars == <<_times, _near, _far, inQueue, where, _expire, ticksLeft, sentAt, logfile, lapsed>>

AllTimers == Asks \cup LogTimers
Idle      == -1

HTimerInit ==
  /\ _times = 0
  /\ _near = [i \in 0 .. PERIOD - 1 |-> {}] /\ _far = [i \in 0 .. PERIOD - 1 |-> {}]
  /\ inQueue = {}
  /\ where = [t \in AllTimers |-> "none"] /\ _expire = [t \in AllTimers |-> 0]
  /\ ticksLeft = Idle
  /\ sentAt = [t \in AllTimers |-> [tick |-> 0, from |-> "none"]]
  /\ logfile = 0 /\ lapsed = FALSE

-----------------------------------------------------------------------------
\* add_timer computes the tick, which the main loop may pass before the timer
\* is in the queue.
Stamp(t, sec) ==
  /\ ~lapsed /\ where[t] = "none"
  /\ _expire' = [_expire EXCEPT ![t] = _times + sec]
  /\ IF sec <= 0
     THEN /\ where' = [where EXCEPT ![t] = "sent"]
          /\ sentAt' = [sentAt EXCEPT ![t] = [tick |-> _times, from |-> "add"]]
     ELSE where' = [where EXCEPT ![t] = "stamped"] /\ UNCHANGED sentAt
  /\ UNCHANGED <<_times, _near, _far, inQueue, ticksLeft, logfile, lapsed>>

Enqueue(t) ==
  /\ ~lapsed /\ where[t] = "stamped"
  /\ inQueue' = inQueue \cup {t}
  /\ where' = [where EXCEPT ![t] = "queue"]
  /\ UNCHANGED <<_times, _near, _far, _expire, ticksLeft, sentAt, logfile, lapsed>>

\* do_timer finds the clock at another second: one tick more than two bits of
\* the difference say, or, if it went back, none.
DoTimer(d) ==
  /\ ~lapsed /\ ticksLeft = Idle
  /\ ticksLeft' = IF d > 0 THEN (d % 4) + 1 ELSE 0
  /\ UNCHANGED <<_times, _near, _far, inQueue, where, _expire, sentAt, logfile, lapsed>>

Slot == _times % PERIOD

Send(ts, from) ==
  /\ where' = [t \in AllTimers |-> IF t \in ts THEN "sent" ELSE where[t]]
  /\ sentAt' = [t \in AllTimers |->
                 IF t \in ts THEN [tick |-> _times, from |-> from] ELSE sentAt[t]]

\* do_timers: the list of this tick is sent and freed.
Tick ==
  /\ ~lapsed /\ ticksLeft > 0 /\ _times < MaxTimes
  /\ Send(_near[Slot], "near")
  /\ _near' = [_near EXCEPT ![Slot] = {}]
  /\ \/ /\ Slot = PERIOD - 1 /\ _far[(_times \div PERIOD) % PERIOD] # {}
        /\ lapsed' = TRUE
     \/ /\ ~(Slot = PERIOD - 1 /\ _far[(_times \div PERIOD) % PERIOD] # {})
        /\ lapsed' \in {FALSE, _near[Slot] # {}}
  /\ _times' = _times + 1
  /\ ticksLeft' = ticksLeft - 1
  /\ UNCHANGED <<_far, inQueue, _expire, logfile>>

\* Broken variant: the list of the second before.
NearSlot_OneLess(t) == (_expire[t] - 1) % PERIOD

NearSlot(t) == _expire[t] % PERIOD

\* do_timer_event: the timers of the queue are sent or listed.
DoTimerEvent ==
  /\ ~lapsed /\ ticksLeft = 0
  /\ LET now  == {t \in inQueue : _expire[t] <= _times}
         soon == {t \in inQueue \ now : _expire[t] \div PERIOD = _times \div PERIOD}
         late == inQueue \ (now \cup soon) IN
       /\ where' = [t \in AllTimers |-> CASE t \in now -> "sent" [] t \in soon -> "near"
                                          [] t \in late -> "far" [] OTHER -> where[t]]
       /\ sentAt' = [t \in AllTimers |->
                      IF t \in now THEN [tick |-> _times, from |-> "queue"] ELSE sentAt[t]]
       /\ _near' = [i \in DOMAIN _near |-> _near[i] \cup {t \in soon : NearSlot(t) = i}]
       /\ _far' = [i \in DOMAIN _far |->
                    _far[i] \cup {t \in late : (_expire[t] \div PERIOD) % PERIOD = i}]
  /\ inQueue' = {}
  /\ ticksLeft' = Idle
  /\ UNCHANGED <<_times, _expire, logfile, lapsed>>

\* log_handler_msg: the log changes its file, if it can open another one, and
\* asks for the next day.
ChangeLogFile(t) ==
  /\ ~lapsed /\ t \in LogTimers /\ where[t] = "sent"
  /\ \E opened \in {0, 1} : logfile' = (logfile + opened) % 2
  /\ _expire' = [_expire EXCEPT ![t] = _times + LOGDAY]
  /\ where' = [where EXCEPT ![t] = "stamped"]
  /\ UNCHANGED <<_times, _near, _far, inQueue, ticksLeft, sentAt, lapsed>>

HTimerNext ==
  \/ \E t \in AllTimers, sec \in Seconds : Stamp(t, sec)
  \/ \E t \in AllTimers : Enqueue(t) \/ ChangeLogFile(t)
  \/ \E d \in Steps : DoTimer(d)
  \/ Tick \/ DoTimerEvent

-----------------------------------------------------------------------------
HTimerTypeOK ==
  /\ _times \in 0 .. MaxTimes
  /\ ticksLeft \in Idle .. 4
  /\ \A t \in AllTimers : where[t] \in {"none", "stamped", "queue", "near", "far", "sent"}
  /\ logfile \in 0 .. 1 /\ lapsed \in BOOLEAN

\* A timer is in one list, that of its tick or period; its message is sent at
\* its tick, or when the queue is looked through if that is past; only in the
\* queue, on the way to it, or in the list of a later period, which is looked
\* at when that period ends, does it miss its tick.
TimersOnTheirTick ==
  ~lapsed => \A t \in AllTimers :
    /\ t \in inQueue <=> where[t] = "queue"
    /\ \A i \in DOMAIN _near : t \in _near[i] <=> where[t] = "near" /\ i = _expire[t] % PERIOD
    /\ \A i \in DOMAIN _far :
         t \in _far[i] <=> where[t] = "far" /\ i = (_expire[t] \div PERIOD) % PERIOD
    /\ where[t] = "near" => _times <= _expire[t]
    /\ where[t] = "far" => _times \div PERIOD <= _expire[t] \div PERIOD
    /\ where[t] = "sent" =>
         \/ sentAt[t].from = "near" /\ sentAt[t].tick = _expire[t]
         \/ sentAt[t].from # "near" /\ sentAt[t].tick >= _expire[t]
=============================================================================
