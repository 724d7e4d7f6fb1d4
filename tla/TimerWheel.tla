------------------------------ MODULE TimerWheel ------------------------------
(***************************************************************************)
(* The two timer managers of CommBase: TimerManager, whose own thread      *)
(* calls the timers back, and SingleTimerManager (Single), whose thread    *)
(* only hands those that are due to the main loop.                         *)
(*                                                                         *)
(* A wheel of SLOT_COUNT slots, one of which is visited every              *)
(* SLOT_CHANGE_TIME.  A timer waits in a slot for a number of rounds.  A   *)
(* round that took too long moves the timers it still finds waiting back   *)
(* by as many slots as it lost.                                            *)
(*                                                                         *)
(* Points of time are kept as their distance from the last tick: due is    *)
(* m_bePoint - tick, seen is tick - m_tickPoint.                           *)
(***************************************************************************)
EXTENDS Integers

CONSTANTS
  Timers,
  SLOT_COUNT, SLOT_CHANGE_TIME,
  Starts,            \* how far ahead timers are first due (m_start, 100 at least)
  Intervals,         \* how often loop timers are due (SLOT_CHANGE_TIME at least)
  MaxLate,           \* bound of the model: how much later than planned a tick comes
  MaxLag             \* bound of the model: how long overdue a timer can be when
                     \* a tick comes late, or when the main loop makes the wheel wait

Slots == 0 .. SLOT_COUNT - 1
Round == SLOT_COUNT * SLOT_CHANGE_TIME
Types == {"LoopTimer", "OnceTimer", "MonthLoopTimer"}

\* How far the clock that other threads read is ahead of the last tick: up to the
\* next one, and further if that is late.
Ahead == 0 .. SLOT_CHANGE_TIME + MaxLate

\* A timer before it is registered; m_tickPoint is 0 until a visit sets it.
NotSeen == -1
NewTimer == [type |-> "none", interval |-> 0, due |-> 0, seen |-> NotSeen,
             m_elapseRound |-> 0, m_round |-> 0, m_delflag |-> FALSE]

VARIABLES
  Single,     \* SingleTimerManager instead of TimerManager: chosen at first
  m_slots, m_currSlot,
  timer,      \* the Timer objects
  stage,      \* what the timer thread does
  curslot,    \* the slot it visits
  timeoutAll, \* lTimeoutTimerAll: timers it has still to look at
  toErase,    \* and those it will take out of the slot
  reset,      \* timers that timed out and loop (lTimeoutTimerLoop)
  m_timeout,  \* Single: timers the main loop will be given
  taken,      \* Single: timers the main loop calls back
  fired,      \* history: flips whenever the timer is called back
  raced,      \* history: timers put into the slot whose visit is about to begin,
              \* which may call them back up to a whole round before their time
  early,      \* history: the others that were called back before they were due
  overdue     \* history: how late the next tick is by now, as the clock was read

history == <<fired, raced, early, overdue>>
timerVars == <<Single, m_slots, m_currSlot, timer, stage, curslot, timeoutAll, toErase,
               reset, m_timeout, taken, history>>
visit  == <<stage, curslot, timeoutAll, toErase, reset>>
single == <<m_timeout, taken>>

TimerInit ==
  /\ Single \in BOOLEAN
  /\ m_slots = [s \in Slots |-> {}] /\ m_currSlot = 0
  /\ timer = [t \in Timers |-> NewTimer]
  /\ stage = "sleep" /\ curslot = 0
  /\ timeoutAll = {} /\ toErase = {} /\ reset = {}
  /\ m_timeout = {} /\ taken = {}
  /\ fired = [t \in Timers |-> FALSE] /\ raced = {} /\ early = {}
  /\ overdue = 0

Registered(t) == timer[t].type # "none"
Armed(t)      == Registered(t) /\ ~timer[t].m_delflag
Loops(t)      == timer[t].type # "OnceTimer"

\* It is still to be called back.
Due(t) == Armed(t) /\ (Loops(t) \/ ~fired[t])

-----------------------------------------------------------------------------
(***************************************************************************)
(* AttachTimer                                                             *)
(***************************************************************************)

SlotAfter(ticks) == (m_currSlot + ticks) % SLOT_COUNT

\* Broken variant: the round in which it is due is not counted.
RoundsFor_Passed(ticks) == ticks \div SLOT_COUNT

RoundsFor(ticks) == ticks \div SLOT_COUNT + 1

\* The slot after m_currSlot has been advanced past it and before it is visited
\* is as far ahead as a whole round, but will be visited now: a timer of one
\* round is then called back at once.
PutInto(t, ticks) ==
  /\ m_slots' = [m_slots EXCEPT ![SlotAfter(ticks)] = @ \cup {t}]
  /\ raced' = IF stage = "visit" /\ SlotAfter(ticks) = curslot THEN raced \cup {t} ELSE raced

\* SetDistanceTime, SetDayTime, SetWeekTime, SetMonthTime: m_start is counted
\* from the clock, m_bePoint is where it ends.
FirstDue(start, ahead) == start + ahead

Waiting ==
  {t \in Timers :
     Armed(t) /\ t \in m_timeout \cup taken \cup reset \cup UNION {m_slots[s] : s \in Slots}}

\* The clock is read, and the tick that comes next will be no earlier.
ReadClock(ahead) ==
  /\ ahead > SLOT_CHANGE_TIME => \A t \in Waiting : timer[t].due >= -MaxLag
  /\ overdue' = IF ahead > SLOT_CHANGE_TIME + overdue THEN ahead - SLOT_CHANGE_TIME ELSE overdue

\* RegTimePoint and the other Reg functions.
Register(t) ==
  /\ ~Registered(t)
  /\ \E type \in Types, start \in Starts, interval \in Intervals, ahead \in Ahead :
       LET ticks == (IF Single THEN start - SLOT_CHANGE_TIME ELSE start) \div SLOT_CHANGE_TIME
       IN
       /\ timer' = [timer EXCEPT ![t] = [NewTimer EXCEPT !.type = type,
              !.interval = IF type = "OnceTimer" THEN 0 ELSE interval,
              !.due = FirstDue(start, ahead), !.m_round = RoundsFor(ticks)]]
       /\ PutInto(t, ticks)
       /\ ReadClock(ahead)
  /\ UNCHANGED <<m_currSlot, visit, single, fired, early>>

\* SetNull or Cancel of the owner.
Cancel(t) ==
  /\ Armed(t)
  /\ timer' = [timer EXCEPT ![t].m_delflag = TRUE]
  /\ UNCHANGED <<m_slots, m_currSlot, visit, single, history>>

NextDue(x, interval, ahead) == x.due + interval

\* A loop timer again; a month has another length each time.
Reattach(t, ahead) ==
  IF timer[t].m_delflag THEN UNCHANGED <<timer, m_slots, raced>>
  ELSE \E interval \in IF timer[t].type = "MonthLoopTimer" THEN Intervals
                       ELSE {timer[t].interval} :
         LET due   == NextDue(timer[t], interval, ahead)
             ticks == (IF due > ahead THEN due - ahead ELSE 0) \div SLOT_CHANGE_TIME
         IN
         /\ timer' = [timer EXCEPT ![t] = [@ EXCEPT !.due = due, !.interval = interval,
                !.seen = NotSeen, !.m_elapseRound = 0, !.m_round = RoundsFor(ticks)]]
         /\ PutInto(t, ticks)

-----------------------------------------------------------------------------
(***************************************************************************)
(* OnTick                                                                  *)
(***************************************************************************)

\* Expires: Timer::OnTick and OnTickEx.
Expires(x) == x.due <= 0 \/ x.m_round <= 1

\* The round took so long that the timer is in the wrong slot.
Drifted(x) == /\ x.seen > x.m_elapseRound * Round
              /\ x.seen % Round >= SLOT_CHANGE_TIME

\* The slot that the timer is in after a visit that does not end it.
SlotOf(x, s) ==
  IF x.seen # NotSeen /\ Drifted(x)
  THEN (s - (x.seen % Round) \div SLOT_CHANGE_TIME) % SLOT_COUNT
  ELSE s

\* What the visit notes in the timer.
Visited(x) ==
  LET y == [x EXCEPT !.m_round = @ - 1] IN
  CASE x.seen = NotSeen -> [y EXCEPT !.seen = 0, !.m_elapseRound = 1]
    [] x.seen # NotSeen /\ Drifted(x) ->
         [y EXCEPT !.seen = @ - x.m_elapseRound * Round, !.m_elapseRound = 1]
    [] OTHER -> [y EXCEPT !.m_elapseRound = @ + 1]

\* svr sleeps until the next tick is due; callbacks that took longer than a
\* slot, or a late wake-up, delay it.
Sleep(late) ==
  LET passed == SLOT_CHANGE_TIME + late IN
  /\ late >= overdue /\ overdue' = 0
  /\ \A t \in IF late > 0 THEN Waiting ELSE m_timeout \cup taken \cup reset :
       timer[t].due >= -MaxLag
  /\ timer' = [t \in Timers |->
       IF t \in Waiting
       THEN [timer[t] EXCEPT !.due = @ - passed,
                             !.seen = IF @ = NotSeen THEN @ ELSE @ + passed]
       ELSE timer[t]]

OnTick(late) ==
  /\ stage = "sleep"
  /\ Sleep(late)
  /\ stage' = "visit"
  /\ curslot' = m_currSlot
  /\ m_currSlot' = (m_currSlot + 1) % SLOT_COUNT
  /\ UNCHANGED <<m_slots, timeoutAll, toErase, reset, single, fired, raced, early>>

\* TimerManager: the lock of the slot is held while its timers are listed.
ListTimers ==
  LET all == {t \in m_slots[curslot] : Armed(t)} IN
  /\ stage = "visit" /\ ~Single
  /\ stage' = "fire"
  /\ timeoutAll' = all
  /\ m_slots' = [m_slots EXCEPT ![curslot] = all]
  /\ UNCHANGED <<m_currSlot, timer, curslot, toErase, reset, single, history>>

\* The callback; early if it comes more than a slot before its time.
CallBack(t, slack) ==
  /\ fired' = [fired EXCEPT ![t] = ~@]
  /\ early' = IF timer[t].due >= slack /\ t \notin raced THEN early \cup {t} ELSE early
  /\ raced' = raced \ {t}
  /\ UNCHANGED overdue

\* One timer of the list, called back if it expires, even if it was cancelled
\* since; a once timer is then marked as deleted.
FireNext(t) ==
  /\ stage = "fire" /\ t \in timeoutAll /\ Expires(timer[t])
  /\ timeoutAll' = timeoutAll \ {t}
  /\ toErase' = toErase \cup {t}
  /\ CallBack(t, SLOT_CHANGE_TIME)
  /\ IF Loops(t)
     THEN reset' = reset \cup {t} /\ UNCHANGED timer
     ELSE timer' = [timer EXCEPT ![t].m_delflag = TRUE] /\ UNCHANGED reset
  /\ UNCHANGED <<m_slots, m_currSlot, stage, curslot, single>>

\* One that stays, in this slot or in another.
PassNext(t) ==
  LET s == SlotOf(timer[t], curslot) IN
  /\ stage = "fire" /\ t \in timeoutAll /\ ~Expires(timer[t])
  /\ timeoutAll' = timeoutAll \ {t}
  /\ timer' = [timer EXCEPT ![t] = Visited(@)]
  /\ m_slots' = [m_slots EXCEPT ![s] = @ \cup {t}]
  /\ toErase' = IF s = curslot THEN toErase ELSE toErase \cup {t}
  /\ UNCHANGED <<m_currSlot, stage, curslot, reset, single, history>>

\* Broken variant: the slot is emptied, with what was added since it was listed.
Remaining_None(slot) == {}

Remaining(slot) == slot \ toErase

\* Under the lock again: the timers that are done with leave the slot.
EraseAll ==
  /\ stage = "fire" /\ timeoutAll = {}
  /\ m_slots' = [m_slots EXCEPT ![curslot] = Remaining(@)]
  /\ toErase' = {}
  /\ stage' = "attach"
  /\ UNCHANGED <<m_currSlot, timer, curslot, timeoutAll, reset, single, history>>

AttachNext(t) ==
  /\ stage = "attach" /\ t \in reset
  /\ Reattach(t, 0)
  /\ reset' = reset \ {t}
  /\ UNCHANGED <<m_currSlot, stage, curslot, timeoutAll, toErase, single, fired, early,
                 overdue>>

AttachDone ==
  /\ stage = "attach" /\ reset = {}
  /\ stage' = "sleep"
  /\ UNCHANGED <<m_slots, m_currSlot, timer, curslot, timeoutAll, toErase, reset,
                 single, history>>

-----------------------------------------------------------------------------
(***************************************************************************)
(* SingleTimerManager: nothing is called back while a slot is visited.     *)
(***************************************************************************)
\* The visit of the slot, the timers it moves, and those it hands over.
SingleVisit ==
  LET all     == {t \in m_slots[curslot] : Armed(t)}
      expired == {t \in all : Expires(timer[t])}
      stay    == all \ expired
  IN
  /\ stage = "visit" /\ Single
  /\ stage' = "sleep"
  /\ timer' = [t \in Timers |-> IF t \in stay THEN Visited(timer[t]) ELSE timer[t]]
  /\ m_slots' = [s \in Slots |->
       (IF s = curslot THEN {} ELSE m_slots[s])
         \cup {t \in stay : SlotOf(timer[t], curslot) = s}]
  /\ m_timeout' = m_timeout \cup expired
  /\ UNCHANGED <<m_currSlot, curslot, timeoutAll, toErase, reset, taken, history>>

\* StartTick of the main loop.
Tick ==
  /\ Single /\ m_timeout # {} /\ taken = {} /\ reset = {}
  /\ taken' = m_timeout /\ m_timeout' = {}
  /\ UNCHANGED <<m_slots, m_currSlot, timer, visit, history>>

Calls(t) == ~timer[t].m_delflag

TickNext(t) ==
  /\ t \in taken
  /\ taken' = taken \ {t}
  /\ IF Calls(t) THEN CallBack(t, 2 * SLOT_CHANGE_TIME) ELSE UNCHANGED history
  /\ reset' = IF Loops(t) THEN reset \cup {t} ELSE reset
  /\ UNCHANGED <<m_slots, m_currSlot, timer, stage, curslot, timeoutAll, toErase, m_timeout>>

TickAttach(t) ==
  /\ Single /\ taken = {} /\ t \in reset
  /\ \E ahead \in Ahead : Reattach(t, ahead) /\ ReadClock(ahead)
  /\ reset' = reset \ {t}
  /\ UNCHANGED <<m_currSlot, stage, curslot, timeoutAll, toErase, single, fired, early>>

TimerThread ==
  \/ \E late \in 0 .. MaxLate : OnTick(late)
  \/ \E t \in Timers : FireNext(t) \/ PassNext(t) \/ AttachNext(t)
  \/ ListTimers \/ EraseAll \/ AttachDone
  \/ SingleVisit

MainLoop == Tick \/ \E t \in Timers : TickNext(t) \/ TickAttach(t)

TimerNext ==
  /\ \/ \E t \in Timers : Register(t) \/ Cancel(t)
     \/ TimerThread
     \/ MainLoop
  /\ UNCHANGED Single

-----------------------------------------------------------------------------
TimerTypeOK ==
  /\ m_slots \in [Slots -> SUBSET Timers] /\ m_currSlot \in Slots
  /\ \A t \in Timers :
       /\ timer[t].type \in Types \cup {"none"}
       /\ {timer[t].due, timer[t].seen, timer[t].m_elapseRound, timer[t].m_round} \subseteq Int
       /\ timer[t].m_delflag \in BOOLEAN
  /\ stage \in {"sleep", "visit", "fire", "attach"} /\ curslot \in Slots
  /\ timeoutAll \subseteq Timers /\ toErase \subseteq Timers /\ reset \subseteq Timers
  /\ m_timeout \subseteq Timers /\ taken \subseteq Timers
  /\ fired \in [Timers -> BOOLEAN] /\ raced \subseteq Timers /\ early \subseteq Timers
  /\ overdue \in 0 .. MaxLate

\* A timer that is armed is in one place, whatever moves it while others are
\* added and cancelled: one slot, or the hands of the thread that will put it
\* back (a once timer that was called back is with neither).
Places(t) ==
  {<<"slot", s>> : s \in {s \in Slots : t \in m_slots[s] /\ ~(s = curslot /\ t \in toErase)}}
    \cup {<<p>> : p \in {p \in {"reset", "m_timeout", "taken"} :
            \/ p = "reset" /\ t \in reset
            \/ p = "m_timeout" /\ t \in m_timeout
            \/ p = "taken" /\ t \in taken}}

TimerInPlace ==
  \A t \in Timers : /\ \A p, q \in Places(t) : p = q
                    /\ Due(t) => Places(t) # {}

\* No timer is called back earlier than a slot before its time (two with
\* SingleTimerManager, which rounds down once more), but for those that raced:
\* they are called back in the visit that was about to begin.
NeverEarly == early = {}
=============================================================================
