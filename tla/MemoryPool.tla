------------------------------ MODULE MemoryPool ------------------------------
(***************************************************************************)
(* MemAllocator, the memory pool of all servers: thirteen AllocatorBlocks, *)
(* whose blocks hold 16, 32, ... 65536 bytes, and the system's malloc for  *)
(* more.  The byte before the caller's memory says where a block came      *)
(* from.  It shares its place with the link of the free list, so it is     *)
(* written after every malloc.                                             *)
(*                                                                         *)
(* Any thread frees what any other allocated.  lock_ is held while the     *)
(* free list changes; the flag is written and read without it.             *)
(***************************************************************************)
EXTENDS Integers, Sequences, FiniteSets, Functions

CONSTANTS
  MemThreads,
  Requests,       \* sizes that are asked for
  block_number_,  \* blocks that allocat_size adds (32 in the code)
  MaxOwned        \* bound of the model: blocks in use at once

\* The flag of ::malloc, and the thirteen of the AllocatorBlocks.
System == 13
Flags == 0 .. System - 1

Capacities ==
  <<16, 32, 64, 128, 256, 512, 1024, 2048, 4096, 8192, 16384, 32768, 65536>>
Capacity(flag) == Capacities[flag + 1]

\* block_size_: the capacity and the flag's byte.
block_size_(flag) == Capacity(flag) + 1

\* Broken variant: a request that fills the block with the flag is rounded down.
FlagOf_Tight(nbytes) ==
  IF nbytes > Capacity(System - 1) THEN System
  ELSE CHOOSE f \in Flags : /\ nbytes <= Capacity(f) + 1
                            /\ \A g \in Flags : nbytes <= Capacity(g) + 1 => f <= g

\* The cascade of malloc: the first allocator that is large enough.
FlagOf(nbytes) ==
  IF nbytes > Capacity(System - 1) THEN System
  ELSE CHOOSE f \in Flags : /\ nbytes <= Capacity(f)
                            /\ \A g \in Flags : nbytes <= Capacity(g) => f <= g

\* A block is its allocator's flag and a number; the system's have the thread's.
UsedFlags == {FlagOf(n) : n \in Requests} \ {System}

VARIABLES
  free_,        \* the free list of each allocator
  blocks,       \* memory_list_: how many blocks each has (block_number_ at a time)
  owned,        \* memory that callers hold: [block, nbytes, flag]
  doing,        \* what each thread is in the middle of
  peak          \* history: blocks of each allocator that were out at once

memoryVars == <<free_, blocks, owned, doing, peak>>

Idle == [op |-> "none"]

MemoryInit ==
  /\ free_ = [f \in UsedFlags |-> [i \in 1 .. block_number_ |-> i]]
  /\ blocks = [f \in UsedFlags |-> block_number_]
  /\ owned = {}
  /\ doing = [t \in MemThreads |-> Idle]
  /\ peak = [f \in UsedFlags |-> 0]

Busy == {t \in MemThreads : doing[t] # Idle}

\* Blocks of an allocator that are not on its free list.
Out(f) == {o.block : o \in {o \in owned : o.block[1] = f}}
            \cup {doing[t].block : t \in {t \in Busy : doing[t].block[1] = f}}

\* allocat_size: the new blocks, linked from the last to the first, are the list.
allocat_size(f) == [i \in 1 .. block_number_ |-> blocks[f] + block_number_ + 1 - i]

IsEmpty(list) == list = <<>>

\* AllocatorBlock::malloc, under lock_.
BlockMalloc(t, n) ==
  LET f    == FlagOf(n)
      list == IF IsEmpty(free_[f]) THEN allocat_size(f) ELSE free_[f]
  IN
  /\ f # System
  /\ free_' = [free_ EXCEPT ![f] = Tail(list)]
  /\ blocks' = [blocks EXCEPT ![f] = IF IsEmpty(free_[f]) THEN @ + block_number_ ELSE @]
  /\ doing' = [doing EXCEPT ![t] = [op |-> "malloc", block |-> <<f, Head(list)>>, nbytes |-> n]]
  /\ peak' = [peak EXCEPT ![f] = LET out == Cardinality(Out(f)) + 1
                                 IN IF out > @ THEN out ELSE @]

\* ::malloc of one byte more; the system does not fail.
SystemMalloc(t, n) ==
  /\ FlagOf(n) = System
  /\ \A o \in owned : o.block # <<System, t>>
  /\ \A u \in Busy : doing[u].block # <<System, t>>
  /\ doing' = [doing EXCEPT ![t] = [op |-> "malloc", block |-> <<System, t>>, nbytes |-> n]]
  /\ UNCHANGED <<free_, blocks, peak>>

malloc(t, n) ==
  /\ t \notin Busy /\ Cardinality(owned) + Cardinality(Busy) < MaxOwned
  /\ BlockMalloc(t, n) \/ SystemMalloc(t, n)
  /\ UNCHANGED owned

\* The flag is written, and the caller has his memory.
WriteFlag(t) ==
  /\ doing[t].op = "malloc"
  /\ owned' = owned \cup {[block |-> doing[t].block, nbytes |-> doing[t].nbytes,
                           flag |-> FlagOf(doing[t].nbytes)]}
  /\ doing' = [doing EXCEPT ![t] = Idle]
  /\ UNCHANGED <<free_, blocks, peak>>

\* MemAllocator::free: the flag is read and decides where the block goes.
ReadFlag(t, o) ==
  /\ t \notin Busy /\ o \in owned
  /\ owned' = owned \ {o}
  /\ doing' = [doing EXCEPT ![t] = [op |-> "free", block |-> o.block, flag |-> o.flag]]
  /\ UNCHANGED <<free_, blocks, peak>>

\* AllocatorBlock::free, under lock_, or ::free.
BlockFree(t) ==
  /\ doing[t].op = "free"
  /\ IF doing[t].flag = System THEN UNCHANGED free_
     ELSE free_' = [free_ EXCEPT ![doing[t].flag] = <<doing[t].block[2]>> \o @]
  /\ doing' = [doing EXCEPT ![t] = Idle]
  /\ UNCHANGED <<blocks, owned, peak>>

MemoryNext ==
  \E t \in MemThreads :
    \/ \E n \in Requests : malloc(t, n)
    \/ WriteFlag(t)
    \/ \E o \in owned : ReadFlag(t, o)
    \/ BlockFree(t)

-----------------------------------------------------------------------------
MemoryTypeOK ==
  /\ DOMAIN free_ = UsedFlags /\ \A f \in UsedFlags : free_[f] \in Seq(1 .. blocks[f])
  /\ blocks \in [UsedFlags -> Nat] /\ peak \in [UsedFlags -> Nat]
  /\ \A o \in owned : o.nbytes \in Requests /\ o.flag \in Flags \cup {System}
  /\ \A t \in Busy : doing[t].op \in {"malloc", "free"}

\* Every block is on the free list of its allocator once or out with one owner
\* or thread; it has room for what was asked; and an allocator has no more
\* blocks than the most that were ever out need.
BlocksAccounted ==
  /\ \A f \in UsedFlags :
       /\ IsInjective(free_[f])
       /\ {<<f, i>> : i \in Range(free_[f])} \cap Out(f) = {}
       /\ Len(free_[f]) + Cardinality(Out(f)) = blocks[f]
       /\ \E n \in {peak[f], 1} : blocks[f] < n + block_number_
  /\ \A o, p \in owned : o.block = p.block => o = p
  /\ \A o \in owned : o.block[1] # System => o.nbytes + 1 <= block_size_(o.block[1])
=============================================================================
