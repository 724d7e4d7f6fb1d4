------------------------------- MODULE EventSet -------------------------------
(***************************************************************************)
(* EventSet and CEEvent: slots are subscribed to events, and firing an     *)
(* event calls the slots that it had when it was fired, in the order of    *)
(* their groups, until one does not return true.  A callback may subscribe,*)
(* disconnect, remove or fire anything itself, its own slot and event too. *)
(*                                                                         *)
(* A slot (BoundSlot) lives as long as its event, its subscriber or a      *)
(* dispatch refers to it, which SmartPtr has; here a subscription is one   *)
(* slot for ever.  All this happens in one thread.                         *)
(***************************************************************************)
EXTENDS Integers, Sequences, FiniteSets, Functions

CONSTANTS
  Names,      \* of events
  SlotIDs,    \* subscriptions
  Groups,     \* numbers; without a group a slot is in the last
  NoEvent,
  MaxNested   \* bound of the model: events fired from within callbacks

VARIABLES
  m_events,   \* the events there are
  m_slots,    \* and the slots of each, a multimap by group
  m_muted,
  slot,       \* the slots: their event and group, and whether they are Connected
  firing      \* dispatches, the innermost last

eventVars == <<m_events, m_slots, m_muted, slot, firing>>

NewSlot == [m_event |-> NoEvent, m_group |-> 0, connected |-> FALSE, used |-> FALSE]

EventInit ==
  /\ m_events = {}
  /\ m_slots = [n \in Names |-> <<>>]
  /\ m_muted = FALSE
  /\ slot = [s \in SlotIDs |-> NewSlot]
  /\ firing = <<>>

\* Operations are called from outside any dispatch, or from a callback.
Top   == firing[Len(firing)]
Outer == SubSeq(firing, 1, Len(firing) - 1)

InCallback == firing # <<>> => Top.calling

AddEvent(n) ==
  /\ InCallback
  /\ m_events' = m_events \cup {n}
  /\ UNCHANGED <<m_slots, m_muted, slot, firing>>

\* The destructor of CEEvent cleans its slots up.
RemoveEvents(names) ==
  /\ InCallback
  /\ m_events' = m_events \ names
  /\ m_slots' = [n \in Names |-> IF n \in names THEN <<>> ELSE m_slots[n]]
  /\ slot' = [s \in SlotIDs |-> IF slot[s].m_event \in names
                THEN [slot[s] EXCEPT !.m_event = NoEvent, !.connected = FALSE] ELSE slot[s]]
  /\ UNCHANGED <<m_muted, firing>>

RemoveEvent(n) == n \in m_events /\ RemoveEvents({n})

RemoveAllEvents == m_events # {} /\ RemoveEvents(m_events)

\* Into a multimap: behind the slots of its group and of those before.
Inserted(slots, s, group) ==
  LET n == Cardinality({i \in DOMAIN slots : slot[slots[i]].m_group <= group})
  IN SubSeq(slots, 1, n) \o <<s>> \o SubSeq(slots, n + 1, Len(slots))

SubscribeEvent(n, s, group) ==
  /\ InCallback
  /\ ~slot[s].used
  /\ m_events' = m_events \cup {n}
  /\ m_slots' = [m_slots EXCEPT ![n] = Inserted(@, s, group)]
  /\ slot' = [slot EXCEPT ![s] = [m_event |-> n, m_group |-> group,
                                  connected |-> TRUE, used |-> TRUE]]
  /\ UNCHANGED <<m_muted, firing>>

\* Broken variant: the first slot of the event is erased.
Unsubscribed_First(slots, s) == Tail(slots)

\* The first that is found is erased.
Unsubscribed(slots, s) ==
  IF s \notin Range(slots) THEN slots
  ELSE LET i == CHOOSE i \in DOMAIN slots : slots[i] = s /\ \A j \in 1 .. i - 1 : slots[j] # s
       IN SubSeq(slots, 1, i - 1) \o SubSeq(slots, i + 1, Len(slots))

\* BoundSlot::Disconnect, of a slot that may have lost its event before.
Disconnect(s) ==
  LET n == slot[s].m_event IN
  /\ InCallback
  /\ slot[s].used
  /\ m_slots' = IF n = NoEvent THEN m_slots ELSE [m_slots EXCEPT ![n] = Unsubscribed(@, s)]
  /\ slot' = [slot EXCEPT ![s].connected = FALSE, ![s].m_event = NoEvent]
  /\ UNCHANGED <<m_events, m_muted, firing>>

SetMutedState(setting) ==
  /\ InCallback
  /\ m_muted' = setting
  /\ UNCHANGED <<m_events, m_slots, slot, firing>>

-----------------------------------------------------------------------------
\* FireEvent, with conList, the event's slots as they are now.
FireEvent(n) ==
  /\ InCallback
  /\ n \in m_events /\ ~m_muted /\ Len(firing) < MaxNested
  /\ firing' = Append(firing, [conList |-> m_slots[n], next |-> 1, calling |-> FALSE,
                               called |-> <<>>])
  /\ UNCHANGED <<m_events, m_slots, m_muted, slot>>

WithTop(frame) == Outer \o <<frame>>

IsCalled(s) == slot[s].connected

\* The next slot is called, or passed over.
CallSlot ==
  /\ firing # <<>> /\ ~Top.calling /\ Top.next <= Len(Top.conList)
  /\ LET s == Top.conList[Top.next] IN
     firing' = WithTop(IF IsCalled(s)
       THEN [Top EXCEPT !.calling = TRUE, !.called = Append(@, s)]
       ELSE [Top EXCEPT !.next = @ + 1])
  /\ UNCHANGED <<m_events, m_slots, m_muted, slot>>

\* The callback returns: true, or false or an exception, which end the dispatch.
SlotReturns(bFire) ==
  /\ firing # <<>> /\ Top.calling
  /\ firing' = IF bFire THEN WithTop([Top EXCEPT !.calling = FALSE, !.next = @ + 1])
               ELSE Outer
  /\ UNCHANGED <<m_events, m_slots, m_muted, slot>>

DispatchEnds ==
  /\ firing # <<>> /\ ~Top.calling /\ Top.next > Len(Top.conList)
  /\ firing' = Outer
  /\ UNCHANGED <<m_events, m_slots, m_muted, slot>>

EventNext ==
  \/ \E n \in Names : AddEvent(n) \/ RemoveEvent(n) \/ FireEvent(n)
  \/ RemoveAllEvents
  \/ \E n \in Names, s \in SlotIDs, g \in Groups : SubscribeEvent(n, s, g)
  \/ \E s \in SlotIDs : Disconnect(s)
  \/ \E setting \in BOOLEAN : SetMutedState(setting) \/ SlotReturns(setting)
  \/ CallSlot \/ DispatchEnds

-----------------------------------------------------------------------------
EventTypeOK ==
  /\ m_events \subseteq Names /\ m_muted \in BOOLEAN
  /\ m_slots \in [Names -> Seq(SlotIDs)]
  /\ slot \in [SlotIDs -> [m_event : Names \cup {NoEvent}, m_group : Groups \cup {0},
                           connected : BOOLEAN, used : BOOLEAN]]
  /\ Len(firing) <= MaxNested

\* Slots and events refer to each other and are connected only while they do,
\* in the order of the groups; and however deep callbacks change them, a
\* dispatch calls each slot once at most, in that order, and passes none over
\* that is still connected.
SlotsAndEvents ==
  /\ \A n \in Names :
       /\ m_slots[n] # <<>> => n \in m_events
       /\ IsInjective(m_slots[n])
       /\ \A i, j \in DOMAIN m_slots[n] : i < j =>
            slot[m_slots[n][i]].m_group <= slot[m_slots[n][j]].m_group
  /\ \A s \in SlotIDs :
       /\ \A n \in Names : slot[s].m_event = n <=> s \in Range(m_slots[n])
       /\ slot[s].connected <=> slot[s].m_event # NoEvent
  /\ \A f \in Range(firing) :
       /\ IsInjective(f.called)
       /\ \A i, j \in DOMAIN f.called : i < j =>
            slot[f.called[i]].m_group <= slot[f.called[j]].m_group
       /\ \A i \in 1 .. f.next - 1 : slot[f.conList[i]].connected =>
            f.conList[i] \in Range(f.called)
=============================================================================
