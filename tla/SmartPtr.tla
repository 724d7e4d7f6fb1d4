------------------------------- MODULE SmartPtr -------------------------------
(***************************************************************************)
(* Counted pointers: Safe_Smart_Ptr, to objects that are a Ref_Object and  *)
(* count under a lock of their own, and Smart_Ptr (Safe is FALSE), for one *)
(* thread, which keeps the count in a cell beside the object.              *)
(*                                                                         *)
(* Each pointer is used by one thread; Shared is one that threads use in   *)
(* turn, under the lock of the queue or map that it is in.  A step of a    *)
(* thread is what it does between two locks.  Every object is given to one *)
(* pointer when it is made, and no pointer is assigned to itself, as all   *)
(* callers do it.                                                          *)
(***************************************************************************)
EXTENDS Integers, FiniteSets

CONSTANTS
  PtrThreads,
  Mine,      \* the pointers of each thread
  Shared,
  Objects, NoObject

Ptrs == (UNION {Mine[t] : t \in PtrThreads}) \cup {Shared}

VARIABLES
  Safe,        \* which of the two: chosen at first
  t_,          \* what each pointer refers to
  ref_count_,
  life,        \* of each object: unborn, alive, deleted
  step         \* what each thread is in the middle of

ptrVars == <<Safe, t_, ref_count_, life, step>>

Resting == [op |-> "none"]

PtrInit ==
  /\ Safe \in BOOLEAN
  /\ t_ = [p \in Ptrs |-> NoObject]
  /\ ref_count_ = [o \in Objects |-> 0]
  /\ life = [o \in Objects |-> "unborn"]
  /\ step = [t \in PtrThreads |-> Resting]

\* The thread may use the pointers: its own, or the shared one that it locked.
Involves(t, p) == step[t] # Resting /\ (step[t].ptr = p \/ step[t].from = p)

MayUse(t, p) ==
  /\ p \in Mine[t] \cup {Shared}
  /\ p = Shared => \A u \in PtrThreads \ {t} : ~Involves(u, Shared)

Goes(t, op, p, q) == step' = [step EXCEPT ![t] = [op |-> op, ptr |-> p, from |-> q]]
Rests(t) == step' = [step EXCEPT ![t] = Resting]

\* A new object, and the pointer constructed from it.
Make(t, p, o) ==
  /\ step[t] = Resting /\ MayUse(t, p) /\ t_[p] = NoObject
  /\ life[o] = "unborn"
  /\ life' = [life EXCEPT ![o] = "alive"]
  /\ ref_count_' = [ref_count_ EXCEPT ![o] = @ + 1]
  /\ t_' = [t_ EXCEPT ![p] = o]
  /\ UNCHANGED step

\* Broken variant: the old object is forgotten, not released.
release_Nothing(o) == ref_count_

release(o) == [ref_count_ EXCEPT ![o] = @ - 1]

\* The destructor (q is p), and operator= from q, which releases the old object
\* first.  Smart_Ptr returns if it has q's object already.
Release(t, p, q) ==
  /\ step[t] = Resting /\ MayUse(t, p) /\ MayUse(t, q)
  /\ t_[p] # NoObject
  /\ Safe \/ p = q \/ t_[p] # t_[q]
  /\ ref_count_' = release(t_[p])
  /\ Goes(t, IF ref_count_'[t_[p]] <= 0 THEN "delete" ELSE "take", p, q)
  /\ UNCHANGED <<t_, life>>

\* delete this, with no lock held.
Delete(t) ==
  /\ step[t].op = "delete"
  /\ life' = [life EXCEPT ![t_[step[t].ptr]] = "deleted"]
  /\ Goes(t, "take", step[t].ptr, step[t].from)
  /\ UNCHANGED <<t_, ref_count_>>

\* What p refers to from now on; the destructor ends here.
TakeFrom(t, p, q) ==
  LET o == IF p = q THEN NoObject ELSE t_[q] IN
  /\ t_' = [t_ EXCEPT ![p] = o]
  /\ IF o = NoObject THEN Rests(t) ELSE Goes(t, "addref", p, q)
  /\ UNCHANGED <<ref_count_, life>>

Take(t) == step[t].op = "take" /\ TakeFrom(t, step[t].ptr, step[t].from)

\* The copy constructor, and operator= of a pointer that refers to nothing.
CopyTo(t, p, q) ==
  /\ step[t] = Resting /\ MayUse(t, p) /\ MayUse(t, q)
  /\ p # q /\ t_[p] = NoObject /\ t_[q] # NoObject
  /\ TakeFrom(t, p, q)

addref(t) ==
  /\ step[t].op = "addref"
  /\ ref_count_' = [ref_count_ EXCEPT ![t_[step[t].ptr]] = @ + 1]
  /\ Rests(t)
  /\ UNCHANGED <<t_, life>>

\* The one thread that has pointers that are not safe.
OneThread == CHOOSE t \in PtrThreads : TRUE

PtrNext ==
  /\ \E t \in PtrThreads :
       /\ Safe \/ t = OneThread
       /\ \/ \E p \in Ptrs, o \in Objects : Make(t, p, o)
          \/ \E p, q \in Ptrs : Release(t, p, q) \/ CopyTo(t, p, q)
          \/ Delete(t) \/ Take(t) \/ addref(t)
  /\ UNCHANGED Safe

-----------------------------------------------------------------------------
PtrTypeOK ==
  /\ t_ \in [Ptrs -> Objects \cup {NoObject}]
  /\ ref_count_ \in [Objects -> Int]
  /\ life \in [Objects -> {"unborn", "alive", "deleted"}]
  /\ \A t \in PtrThreads : step[t].op \in {"none", "delete", "take", "addref"}

\* Pointers that are counted: all but those in the middle of a change.
Counted(o) == {p \in Ptrs : t_[p] = o /\ \A t \in PtrThreads :
                 ~(step[t].op \in {"delete", "take", "addref"} /\ step[t].ptr = p)}

\* The count is the number of pointers.  An object is deleted when the last is
\* gone, by the one thread that took it; none is counted up after it was
\* deleted, and none is left over.
ObjectsCounted ==
  /\ \A o \in Objects :
       /\ ref_count_[o] = Cardinality(Counted(o))
       /\ life[o] = "deleted" => Counted(o) = {}
       /\ Cardinality({t \in PtrThreads : step[t].op = "delete" /\ t_[step[t].ptr] = o}) =
            IF life[o] = "alive" /\ Counted(o) = {} THEN 1 ELSE 0
  /\ \A t \in PtrThreads : step[t].op = "addref" => life[t_[step[t].ptr]] = "alive"
=============================================================================
