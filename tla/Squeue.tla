-------------------------------- MODULE Squeue --------------------------------
(***************************************************************************)
(* The queue of antlib, without locks: a list of nodes with as many slots  *)
(* each.  A thread takes a slot by counting up the node's index, to push   *)
(* into it or to pop from it; who takes the last one links the next node,  *)
(* or moves on to it.  A popper may have to wait for the slot's pusher.    *)
(*                                                                         *)
(* Locked is the queue of a handler: whoever has the handler's _locker     *)
(* pops as many messages as it counted first (do_handler).  Else it is a   *)
(* pool of buffers that any thread pops from (pop_squeue), which counts    *)
(* every pop twice: what is pushed and popped alike is lost half of the    *)
(* time, but no pop waits for a buffer that nobody has pushed.             *)
(*                                                                         *)
(* A node that was freed is used again after sixty seconds, which is taken *)
(* to be longer than any thread takes for one push or pop.                 *)
(***************************************************************************)
EXTENDS Integers, Sequences, FiniteSets, Functions

CONSTANTS
  Pushers, Poppers,  \* threads
  SQUEUE_NODE_SIZE,  \* 1021 in the code
  MaxItems           \* bound of the model: items that each pusher pushes

Nodes == 1 .. (Cardinality(Pushers) * MaxItems) \div SQUEUE_NODE_SIZE + 1
Items == Pushers \X (1 .. MaxItems)
NULL  == <<>>
NoNode == 0

VARIABLES
  Locked,    \* which of the two: chosen at first
  node,      \* the nodes: slots (_queue), _head, _tail and _next
  nodes,     \* how many there are
  free_ptr, qtail, qhead, qcount,  \* of the queue
  _locker,   \* the thread that runs the handler, NoNode if it is free
  pc,        \* what each thread does, on which node and slot
  sent,      \* how many items each pusher has begun to push
  got        \* history: the items in the order their slots were popped

squeueVars == <<Locked, node, nodes, free_ptr, qtail, qhead, qcount, _locker, pc, sent, got>>
queue == <<free_ptr, qtail, qhead, qcount>>

LastSlot == SQUEUE_NODE_SIZE - 1
Slots == 0 .. LastSlot

NewNode == [slots |-> [i \in Slots |-> NULL], _head |-> 0, _tail |-> 0, _next |-> NoNode]
Rests == [at |-> "rest", node |-> NoNode, index |-> 0, batch |-> 0]

SqueueInit ==
  /\ Locked \in BOOLEAN
  /\ node = [n \in Nodes |-> NewNode] /\ nodes = 1
  /\ free_ptr = 1 /\ qtail = 1 /\ qhead = 1 /\ qcount = 0
  /\ _locker = NoNode
  /\ pc = [t \in Pushers \cup Poppers |-> Rests]
  /\ sent = [p \in Pushers |-> 0]
  /\ got = <<>>

At(t, a) == pc[t].at = a
Goes(t, a) == pc' = [pc EXCEPT ![t].at = a]

\* Counting an index up; beyond the slots its value makes no difference.
CountUp(index) == IF index < SQUEUE_NODE_SIZE THEN index + 1 ELSE index

-----------------------------------------------------------------------------
(***************************************************************************)
(* push_squeue                                                             *)
(***************************************************************************)
Push(p) ==
  /\ At(p, "rest") /\ sent[p] < MaxItems
  /\ sent' = [sent EXCEPT ![p] = @ + 1]
  /\ pc' = [pc EXCEPT ![p].at = "index", ![p].node = qtail]
  /\ UNCHANGED <<node, nodes, queue, _locker, got>>

\* push_squeuenode; if the node is full the loop reads _tail again.
PushIndex(p) ==
  LET n == pc[p].node IN
  /\ At(p, "index")
  /\ node' = [node EXCEPT ![n]._head = CountUp(@)]
  /\ pc' = [pc EXCEPT ![p] =
       IF node[n]._head < SQUEUE_NODE_SIZE
       THEN [@ EXCEPT !.at = "write", !.index = node[n]._head]
       ELSE [@ EXCEPT !.node = qtail]]
  /\ UNCHANGED <<nodes, queue, _locker, sent, got>>

PushWrite(p) ==
  /\ At(p, "write")
  /\ node' = [node EXCEPT ![pc[p].node].slots[pc[p].index] = <<p, sent[p]>>]
  /\ Goes(p, IF pc[p].index = LastSlot THEN "link" ELSE "count")
  /\ UNCHANGED <<nodes, queue, _locker, sent, got>>

\* The last slot: the next node is linked, and then made the tail.
PushLink(p) ==
  /\ At(p, "link")
  /\ nodes' = nodes + 1
  /\ node' = [node EXCEPT ![qtail]._next = nodes']
  /\ Goes(p, "tail")
  /\ UNCHANGED <<queue, _locker, sent, got>>

PushTail(p) ==
  /\ At(p, "tail")
  /\ qtail' = node[qtail]._next
  /\ Goes(p, "count")
  /\ UNCHANGED <<node, nodes, free_ptr, qhead, qcount, _locker, sent, got>>

PushCount(p) ==
  /\ At(p, "count")
  /\ qcount' = qcount + 1
  /\ pc' = [pc EXCEPT ![p] = Rests]
  /\ UNCHANGED <<node, nodes, free_ptr, qtail, qhead, _locker, sent, got>>

-----------------------------------------------------------------------------
(***************************************************************************)
(* What pop_squeue and handler_pop_squeue have in common.                  *)
(***************************************************************************)

\* pop_squeuenode: the slot is taken, and read as soon as it is written.
PopIndex(c) ==
  LET n == pc[c].node IN
  /\ At(c, "take")
  /\ node' = [node EXCEPT ![n]._tail = CountUp(@)]
  /\ pc' = [pc EXCEPT ![c] =
       IF node[n]._tail < SQUEUE_NODE_SIZE
       THEN [@ EXCEPT !.at = "read", !.index = node[n]._tail]
       ELSE [@ EXCEPT !.node = qhead]]
  /\ UNCHANGED <<nodes, queue, _locker, sent, got>>

PopRead(c) ==
  LET vl == node[pc[c].node].slots[pc[c].index] IN
  /\ At(c, "read")
  /\ vl # NULL
  /\ pc' = [pc EXCEPT ![c].at = IF pc[c].index = LastSlot THEN "move" ELSE "done"]
  /\ got' = Append(got, vl)
  /\ UNCHANGED <<node, nodes, queue, _locker, sent>>

\* The last slot: the head moves on when the tail has; nodes before are freed.
PopMove(c) ==
  /\ At(c, "move")
  /\ qhead # qtail
  /\ free_ptr' = IF Locked THEN free_ptr ELSE qhead
  /\ qhead' = node[qhead]._next
  /\ Goes(c, "done")
  /\ UNCHANGED <<node, nodes, qtail, qcount, _locker, sent, got>>

-----------------------------------------------------------------------------
(***************************************************************************)
(* pop_squeue                                                              *)
(***************************************************************************)

\* It returns NULL if the count is too low, now or when it is counted down.
Pop(c) ==
  /\ ~Locked
  /\ At(c, "rest") /\ qcount >= 1
  /\ Goes(c, "reserve")
  /\ UNCHANGED <<node, nodes, queue, _locker, sent, got>>

PopReserve(c) ==
  /\ At(c, "reserve")
  /\ qcount' = qcount - 1
  /\ pc' = [pc EXCEPT ![c] = IF qcount < 1 THEN [@ EXCEPT !.at = "restore"]
                             ELSE [@ EXCEPT !.at = "take", !.node = qhead]]
  /\ UNCHANGED <<node, nodes, free_ptr, qtail, qhead, _locker, sent, got>>

PopRestore(c) ==
  /\ At(c, "restore")
  /\ qcount' = qcount + 1
  /\ pc' = [pc EXCEPT ![c] = Rests]
  /\ UNCHANGED <<node, nodes, free_ptr, qtail, qhead, _locker, sent, got>>

PopDone(c) ==
  /\ ~Locked /\ At(c, "done")
  /\ qcount' = qcount - 1
  /\ pc' = [pc EXCEPT ![c] = Rests]
  /\ UNCHANGED <<node, nodes, free_ptr, qtail, qhead, _locker, sent, got>>

-----------------------------------------------------------------------------
(***************************************************************************)
(* do_handler, of a thread that found _locker free; and LOCK_ZERO.         *)
(***************************************************************************)
\* Broken variant: the handler is run by every thread that comes to it.
LockSet_Ignored == Locked

LockSet == Locked /\ _locker = NoNode

DoHandler(c) ==
  /\ LockSet
  /\ At(c, "rest")
  /\ _locker' = c
  /\ pc' = [pc EXCEPT ![c] = [Rests EXCEPT !.at = "next", !.batch = qcount]]
  /\ UNCHANGED <<node, nodes, queue, sent, got>>

HandlerPop(c) ==
  /\ At(c, "next") /\ pc[c].batch > 0
  /\ pc' = [pc EXCEPT ![c].at = "take", ![c].node = qhead]
  /\ UNCHANGED <<node, nodes, queue, _locker, sent, got>>

\* The message has been popped and is handled.
Handle(c) ==
  /\ Locked /\ At(c, "done")
  /\ qcount' = qcount - 1
  /\ pc' = [pc EXCEPT ![c] = [Rests EXCEPT !.at = "next", !.batch = pc[c].batch - 1]]
  /\ UNCHANGED <<node, nodes, free_ptr, qtail, qhead, _locker, sent, got>>

Unlock(c) ==
  /\ At(c, "next") /\ pc[c].batch = 0
  /\ _locker' = NoNode
  /\ pc' = [pc EXCEPT ![c] = Rests]
  /\ UNCHANGED <<node, nodes, queue, sent, got>>

PushStep(p) == PushIndex(p) \/ PushWrite(p) \/ PushLink(p) \/ PushTail(p) \/ PushCount(p)
PopStep(c) ==
  \/ PopIndex(c) \/ PopRead(c) \/ PopMove(c)
  \/ Pop(c) \/ PopReserve(c) \/ PopRestore(c) \/ PopDone(c)
  \/ DoHandler(c) \/ HandlerPop(c) \/ Handle(c) \/ Unlock(c)

SqueueNext ==
  /\ \/ \E p \in Pushers : Push(p) \/ PushStep(p)
     \/ \E c \in Poppers : PopStep(c)
  /\ UNCHANGED Locked

-----------------------------------------------------------------------------
SqueueTypeOK ==
  /\ nodes \in Nodes /\ {free_ptr, qtail, qhead} \subseteq 1 .. nodes
  /\ \A n \in Nodes : /\ node[n].slots \in [Slots -> Items \cup {NULL}]
                      /\ {node[n]._head, node[n]._tail} \subseteq 0 .. SQUEUE_NODE_SIZE
                      /\ node[n]._next \in Nodes \cup {NoNode}
  /\ qcount \in Int /\ _locker \in Poppers \cup {NoNode}
  /\ \A t \in Pushers \cup Poppers : pc[t].index \in Slots /\ pc[t].node \in Nodes \cup {NoNode}

\* A thread that waits for a slot to be written waits for another that is about
\* to write it: none has taken a slot that nobody pushes into.
WaitsForPusher ==
  \A c \in Poppers : At(c, "read") /\ node[pc[c].node].slots[pc[c].index] = NULL =>
    \E p \in Pushers : At(p, "write") /\ pc[p].node = pc[c].node /\ pc[p].index = pc[c].index

\* Who waits for the next node waits for a pusher that is about to link it.
MoveWaitsForPusher ==
  \A c \in Poppers : At(c, "move") /\ qhead = qtail =>
    \E p \in Pushers : At(p, "link") \/ At(p, "tail")

\* An item is popped once, and a handler has the messages of a thread in the
\* order they were sent in, however pushes and pops overlap in a node and from
\* one to the next; and no thread waits for what nobody is about to do.
ItemsInOrder ==
  /\ IsInjective(got)
  /\ Locked => \A i, j \in DOMAIN got :
       i < j /\ got[i][1] = got[j][1] => got[i][2] < got[j][2]
  /\ WaitsForPusher
  /\ MoveWaitsForPusher

\* The handler has had what was sent to it.
AllHandled == \A p \in Pushers : \A i \in 1 .. sent[p] : <<p, i>> \in Range(got)
=============================================================================
