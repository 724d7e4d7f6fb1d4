-------------------------------- MODULE LuaPool -------------------------------
(***************************************************************************)
(* LuaPool and CLuaInterface: threads take an interpreter from a pool,     *)
(* work with values on its stack, and give it back as it is.               *)
(*                                                                         *)
(* Of a value on the stack only its kind is kept.  Whether another value   *)
(* has the type that is asked for, or a string fits into the caller's      *)
(* buffer, is any outcome.  Callers index tables only, as Lua demands.     *)
(* The pool and the users hold Smart_Ptrs, whose count is a plain int; a   *)
(* user drops his own after the pool's lock.  What an interpreter does     *)
(* that was deleted under its holder is left out.                          *)
(***************************************************************************)
EXTENDS Integers, Sequences, FiniteSets, Functions

CONSTANTS
  LuaUsers,
  Content, Rate,  \* m_content, m_rate: how many are created at first, and later
  MaxLua,         \* bound of the model: interpreters that are created
  MaxStack,       \* bound of the model: values on a stack
  MaxShort,       \* bound of the model: strings read in vain per interpreter
  NoLua

Luas  == 1 .. MaxLua
Kinds == {"table", "function", "value"}

VARIABLES
  m_pool, created,
  m_lua,   \* the interpreter of each user
  leaving, \* what the pointer of each user still refers to, put back already
  refs,    \* the count of each interpreter's pointers
  stack,   \* the Lua stack of each interpreter
  height,  \* history: how high the notes in LuaInterface.h say that it is
  short,   \* history: strings that were read into a buffer too short
  miscounted  \* history: interpreters whose count two threads changed at once

luaVars  == <<m_pool, created, m_lua, leaving, refs, stack, height, short, miscounted>>
stacks   == <<stack, height, short>>
pointers == <<leaving, refs, miscounted>>

LuaInit ==
  /\ m_pool = [i \in 1 .. Content |-> i] /\ created = Content
  /\ m_lua = [u \in LuaUsers |-> NoLua] /\ leaving = [u \in LuaUsers |-> NoLua]
  /\ refs = [l \in Luas |-> IF l <= Content THEN 1 ELSE 0] /\ miscounted = {}
  /\ stack = [l \in Luas |-> <<>>]
  /\ height = [l \in Luas |-> 0] /\ short = [l \in Luas |-> 0]

-----------------------------------------------------------------------------
(***************************************************************************)
(* The pool.                                                               *)
(***************************************************************************)

\* Create(count): the file may fail to load for any of them; those before it
\* are in the pool.
Create(count, n) ==
  /\ n \in 0 .. count /\ created + n <= MaxLua
  /\ created' = created + n
  /\ refs' = [l \in Luas |-> IF l \in created + 1 .. created + n THEN 1 ELSE refs[l]]

\* GetLuaInterface under the lock: null if Create failed, even after the first.
\* The pointers it copies and pops count up and down, which tears the count if
\* the user who put the interpreter back is about to drop his.
GetLuaInterface(u) ==
  /\ m_lua[u] = NoLua /\ leaving[u] = NoLua
  /\ IF m_pool # <<>>
     THEN /\ refs[Head(m_pool)] > 0
          /\ m_lua' = [m_lua EXCEPT ![u] = Head(m_pool)]
          /\ m_pool' = Tail(m_pool)
          /\ miscounted' = miscounted \cup (Range(leaving) \cap {Head(m_pool)})
          /\ UNCHANGED <<created, refs>>
     ELSE \E n \in 0 .. Rate :
          LET new == [i \in 1 .. n |-> created + i] IN
          /\ Create(Rate, n)
          /\ m_lua' = IF n = Rate THEN [m_lua EXCEPT ![u] = Head(new)] ELSE m_lua
          /\ m_pool' = IF n = Rate THEN Tail(new) ELSE new
          /\ UNCHANGED miscounted
  /\ UNCHANGED <<leaving, stacks>>

\* Broken variant: an interpreter is also put back by the copy of its pointer.
Returned_Twice(l) == <<l, l>>

Returned(l) == <<l>>

\* The destructor of LuaPoolInterface puts a copy of its pointer back, under the
\* lock...
ReleaseLuaInterface(u) ==
  /\ m_lua[u] # NoLua /\ refs[m_lua[u]] > 0
  /\ m_pool' = m_pool \o Returned(m_lua[u])
  /\ m_lua' = [m_lua EXCEPT ![u] = NoLua]
  /\ leaving' = [leaving EXCEPT ![u] = m_lua[u]]
  /\ refs' = [refs EXCEPT ![m_lua[u]] = @ + 1]
  /\ UNCHANGED <<created, miscounted, stacks>>

\* ... and drops the pointer without the lock.  A count that was torn may have
\* come out right (or too high, which nobody notices), or reach zero, which
\* deletes the interpreter.
DropPointer(u) ==
  LET l == leaving[u] IN
  /\ l # NoLua /\ refs[l] > 0
  /\ \/ refs' = [refs EXCEPT ![l] = @ - 1] /\ UNCHANGED stacks
     \/ /\ l \in miscounted
        /\ refs' = [refs EXCEPT ![l] = 0]
        /\ stack' = [stack EXCEPT ![l] = <<>>]
        /\ height' = [height EXCEPT ![l] = 0] /\ short' = [short EXCEPT ![l] = 0]
  /\ leaving' = [leaving EXCEPT ![u] = NoLua]
  /\ UNCHANGED <<m_pool, created, m_lua, miscounted>>

-----------------------------------------------------------------------------
(***************************************************************************)
(* CLuaInterface, on the interpreter l: each operation leaves a stack, and *)
(* has a note of how much higher it is.                                    *)
(***************************************************************************)
Leaves(l, s, note) ==
  /\ Len(s) <= MaxStack
  /\ stack' = [stack EXCEPT ![l] = s]
  /\ height' = [height EXCEPT ![l] = @ + note]
  /\ UNCHANGED <<m_pool, created, m_lua, pointers>>

Top(s) == s[Len(s)]
Pop(s, n) == SubSeq(s, 1, Len(s) - n)

\* SetInt, SetFloat, SetString, SetLightUserData, SetLuaFunction, CreateNewTable,
\* SavedStackSize, and LoadBuffer and LoadFile if they succeed.
Push(l) ==
  /\ \E k \in Kinds : Leaves(l, Append(stack[l], k), 1)
  /\ UNCHANGED short

\* LoadBuffer and LoadFile pop their message; SetGlobalInt, SetGlobalString,
\* SetGlobalLightUserData, RegisterFun, and SetFieldInt into the table on top
\* take what they have pushed.
PushAndPop(l) ==
  /\ Leaves(l, Pop(Append(stack[l], "value"), 1), 0)
  /\ UNCHANGED short

\* Call of the function under nArgs arguments, with nRets results; or an error,
\* whose message is popped.
Call(l, nArgs, nRets) ==
  LET s == stack[l] IN
  /\ Len(s) > nArgs /\ s[Len(s) - nArgs] = "function"
  /\ \/ \E rets \in [1 .. nRets -> Kinds] :
          Leaves(l, Pop(s, nArgs + 1) \o rets, nRets - nArgs - 1)
     \/ Leaves(l, Pop(Append(Pop(s, nArgs + 1), "value"), 1), -nArgs - 1)
  /\ UNCHANGED short

\* GetInt and GetFloat of a global, GetFieldInt and GetFieldFloat of the table
\* on top: the value is popped, whether it is a number or not.
GetNumber(l, named) ==
  LET s == IF named THEN Append(stack[l], "value") ELSE stack[l] IN
  /\ s # <<>>
  /\ Leaves(l, Pop(s, 1), IF named THEN 0 ELSE -1)
  /\ UNCHANGED short

\* GetString, and GetFieldString by number, do not pop what does not fit.
TooShort(s) == s

\* GetString of a global or of the top, and GetFieldString by number.
GetString(l, named) ==
  LET s    == IF named THEN Append(stack[l], "value") ELSE stack[l]
      note == IF named THEN 0 ELSE -1
  IN
  /\ s # <<>>
  /\ \/ Leaves(l, Pop(s, 1), note) /\ UNCHANGED short
     \/ /\ short[l] < MaxShort
        /\ Leaves(l, TooShort(s), note)
        /\ short' = [short EXCEPT ![l] = @ + 1]

\* GetFieldIntInTableList and GetFieldStringInTableList: a field of a table in
\* the table on top.
GetFieldInTableList(l) ==
  /\ stack[l] # <<>> /\ Top(stack[l]) = "table"
  /\ Leaves(l, Pop(stack[l] \o <<"table", "value">>, 2), 0)
  /\ UNCHANGED short

\* GetTable of a global, GetFieldTable of the table on top.
GetTable(l) ==
  /\ \/ Leaves(l, Append(stack[l], "table"), 1)
     \/ Leaves(l, Pop(Append(stack[l], "value"), 1), 0)
  /\ UNCHANGED short

\* CloseTable; FinishTable, and SetFieldTable into the table below.
CloseTable(l) ==
  /\ stack[l] # <<>> /\ Top(stack[l]) = "table"
  /\ Leaves(l, Pop(stack[l], 1), -1)
  /\ UNCHANGED short

LuaNext ==
  \E u \in LuaUsers :
    \/ GetLuaInterface(u)
    \/ ReleaseLuaInterface(u)
    \/ DropPointer(u)
    \/ /\ m_lua[u] # NoLua /\ refs[m_lua[u]] > 0
       /\ \/ Push(m_lua[u])
          \/ PushAndPop(m_lua[u])
          \/ \E nArgs, nRets \in 0 .. 1 : Call(m_lua[u], nArgs, nRets)
          \/ \E named \in BOOLEAN : GetNumber(m_lua[u], named) \/ GetString(m_lua[u], named)
          \/ GetFieldInTableList(m_lua[u])
          \/ GetTable(m_lua[u])
          \/ CloseTable(m_lua[u])

-----------------------------------------------------------------------------
LuaTypeOK ==
  /\ m_pool \in Seq(1 .. created) /\ created \in 0 .. MaxLua
  /\ m_lua \in [LuaUsers -> 1 .. created \cup {NoLua}]
  /\ leaving \in [LuaUsers -> 1 .. created \cup {NoLua}]
  /\ refs \in [Luas -> Nat] /\ miscounted \subseteq 1 .. created
  /\ \A l \in Luas : stack[l] \in Seq(Kinds) /\ Len(stack[l]) <= MaxStack

\* Every interpreter is in the pool once or with one user, and its stack is as
\* high as the notes say, but for the strings that did not fit: each of those
\* stays on the stack, for the next user too.  Its pointers are counted, the
\* one that a user has still to drop as well, but for a count that was torn.
LuaAccounted ==
  LET used == {m_lua[u] : u \in LuaUsers} \ {NoLua} IN
  /\ IsInjective(m_pool)
  /\ \A u, v \in LuaUsers : m_lua[u] = m_lua[v] /\ m_lua[u] # NoLua => u = v
  /\ Range(m_pool) \cap used = {} /\ Range(m_pool) \cup used = 1 .. created
  /\ \A l \in Luas : Len(stack[l]) = height[l] + short[l]
  /\ \A l \in 1 .. created \ miscounted :
       refs[l] = IF l \in Range(leaving) THEN 2 ELSE 1
=============================================================================
