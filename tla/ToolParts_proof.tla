---------------------------- MODULE ToolParts_proof ----------------------------
(***************************************************************************)
(* Proofs about the tools.  Each has a section with its inductive          *)
(* invariant: the invariant holds at the start, every step keeps it, and   *)
(* it implies what QueuesInOrder says of the tool.                         *)
(***************************************************************************)
EXTENDS ToolParts, Functions, FiniteSetTheorems, SequenceTheorems, TLAPS

\* The elements of a list with one left out, or put in behind m others.
Cut(s, i) == SubSeq(s, 1, i - 1) \o SubSeq(s, i + 1, Len(s))
Put(s, m, e) == SubSeq(s, 1, m) \o <<e>> \o SubSeq(s, m + 1, Len(s))

\* What a list is without its i-th element.
LEMMA CutAt ==
  ASSUME NEW S, NEW s \in Seq(S), NEW i \in 1 .. Len(s)
  PROVE  /\ Cut(s, i) \in Seq(S) /\ Len(Cut(s, i)) = Len(s) - 1
         /\ \A k \in 1 .. Len(s) - 1 : Cut(s, i)[k] = IF k < i THEN s[k] ELSE s[k + 1]
<1>1. PICK n, a, b, r : n = Len(s) /\ a = SubSeq(s, 1, i - 1) /\ b = SubSeq(s, i + 1, n) /\ r = a \o b
  OBVIOUS
<1>2. n \in Nat /\ i \in 1 .. n
  BY <1>1
<1>3. a \in Seq(S) /\ Len(a) = i - 1 /\ \A k \in 1 .. i - 1 : a[k] = s[k]
  BY ONLY <1>1, <1>2, s \in Seq(S), SMTT(30)
<1>4. b \in Seq(S) /\ Len(b) = n - i /\ \A k \in 1 .. n - i : b[k] = s[k + i]
  BY ONLY <1>1, <1>2, s \in Seq(S), SMTT(30)
<1>5. r = a \o b
  BY <1>1
<1>6. r \in Seq(S) /\ Len(r) = n - 1
  <2>1. a \in Seq(S) /\ b \in Seq(S)
    BY <1>3, <1>4
  <2>2. r \in Seq(S) /\ Len(r) = Len(a) + Len(b)
    BY ONLY <1>5, <2>1
  <2>3. Len(a) + Len(b) = n - 1
    BY ONLY <1>2, <1>3, <1>4
  <2> QED BY <2>2, <2>3
<1>7. ASSUME NEW k \in 1 .. n - 1 PROVE r[k] = IF k < i THEN s[k] ELSE s[k + 1]
  <2>1. r[k] = IF k <= Len(a) THEN a[k] ELSE b[k - Len(a)]
    BY ONLY <1>2, <1>3, <1>4, <1>5, k \in 1 .. n - 1
  <2>2. CASE k < i
    <3>1. k \in 1 .. i - 1 /\ k <= i - 1
      BY <1>2, <2>2
    <3> QED BY ONLY <1>3, <2>1, <2>2, <3>1
  <2>3. CASE ~(k < i)
    <3>1. k - (i - 1) \in 1 .. n - i /\ k - (i - 1) + i = k + 1 /\ ~(k <= i - 1)
      BY <1>2, <2>3
    <3>2. r[k] = b[k - (i - 1)]
      BY ONLY <1>3, <2>1, <3>1
    <3> QED BY ONLY <1>4, <2>3, <3>1, <3>2
  <2> QED BY <2>2, <2>3
<1> QED BY <1>1, <1>6, <1>7 DEF Cut

HasPut(S, r, s, m, e) ==
  /\ r \in Seq(S) /\ Len(r) = Len(s) + 1
  /\ \A k \in 1 .. Len(s) + 1 :
       r[k] = IF k <= m THEN s[k] ELSE IF k = m + 1 THEN e ELSE s[k - 1]

\* What a list is with an element behind its m-th.
LEMMA PutAt ==
  ASSUME NEW S, NEW s \in Seq(S), NEW m \in 0 .. Len(s), NEW e \in S
  PROVE  HasPut(S, Put(s, m, e), s, m, e)
<1>1. PICK n, a, b : n = Len(s) /\ a = SubSeq(s, 1, m) /\ b = SubSeq(s, m + 1, n)
  OBVIOUS
<1>2. n \in Nat /\ m \in 0 .. n
  BY <1>1
<1>3. a \in Seq(S) /\ Len(a) = m /\ \A k \in 1 .. m : a[k] = s[k]
  BY <1>1
<1>4. b \in Seq(S) /\ Len(b) = n - m /\ \A k \in 1 .. n - m : b[k] = s[k + m]
  BY ONLY <1>1, <1>2, s \in Seq(S), SMTT(30)
<1>9. PICK c : c = a \o <<e>>
  OBVIOUS
<1>5. PICK r : r = c \o b
  OBVIOUS
<1>6. /\ c \in Seq(S) /\ Len(c) = m + 1 /\ c[m + 1] = e
      /\ \A k \in 1 .. m : c[k] = s[k]
  <2>1. c \in Seq(S) /\ Len(c) = m + 1
    BY ONLY <1>9, <1>2, <1>3, e \in S
  <2>2. \A k \in 1 .. m + 1 : c[k] = IF k <= m THEN a[k] ELSE e
    BY ONLY <1>9, <1>2, <1>3, e \in S
  <2> QED BY ONLY <1>2, <1>3, <2>1, <2>2
<1>7. r \in Seq(S) /\ Len(r) = n + 1
  <2>1. r \in Seq(S) /\ Len(r) = Len(c) + Len(b)
    <3>1. c \in Seq(S) /\ b \in Seq(S)
      BY <1>4, <1>6
    <3> QED BY ONLY <1>5, <3>1
  <2>2. Len(c) + Len(b) = n + 1
    BY ONLY <1>2, <1>4, <1>6
  <2> QED BY <2>1, <2>2
<1>8. ASSUME NEW k \in 1 .. n + 1
      PROVE  r[k] = IF k <= m THEN s[k] ELSE IF k = m + 1 THEN e ELSE s[k - 1]
  <2>1. r[k] = IF k <= Len(c) THEN c[k] ELSE b[k - Len(c)]
    <3>1. c \in Seq(S) /\ b \in Seq(S) /\ Len(c) = m + 1 /\ Len(b) = n - m
      BY <1>4, <1>6
    <3>2. k \in 1 .. Len(c) + Len(b)
      BY ONLY <1>2, <3>1, k \in 1 .. n + 1
    <3> QED BY ONLY <1>5, <3>1, <3>2, SMTT(30)
  <2>2. CASE k <= m + 1
    BY ONLY <1>2, <1>6, <2>1, <2>2, k \in 1 .. n + 1
  <2>3. CASE ~(k <= m + 1)
    <3>1. k - (m + 1) \in 1 .. n - m /\ k - (m + 1) + m = k - 1 /\ ~(k <= m) /\ k # m + 1
      BY <1>2, <2>3
    <3>2. r[k] = b[k - (m + 1)]
      BY ONLY <1>6, <2>1, <2>3
    <3> QED BY ONLY <1>4, <2>3, <3>1, <3>2
  <2> QED BY <1>2, <2>2, <2>3
<1>10. r = Put(s, m, e)
  BY ONLY <1>1, <1>9, <1>5 DEF Put
<1>11. HasPut(S, r, s, m, e)
  BY ONLY <1>1, <1>7, <1>8 DEF HasPut
<1> QED BY ONLY <1>10, <1>11

-----------------------------------------------------------------------------
(***************************************************************************)
(* Task threads.                                                           *)
(***************************************************************************)

\* A thread that is awake looks at the queue before it waits.
Awake(w) == work[w] \in {"look", "run", "end"}

\* The tasks are numbered through, those begun before those that are queued;
\* some thread is awake when one is queued.
WorkInv ==
  /\ m_queueTask \in Seq(Nat) /\ begun \in Seq(Nat) /\ added \in Nat
  /\ work \in [Work!Workers -> {"look", "empty", "wait", "run", "end"}]
  /\ Len(begun) + Len(m_queueTask) = added
  /\ \A i \in 1 .. Len(begun) : begun[i] = i
  /\ \A i \in 1 .. Len(m_queueTask) : m_queueTask[i] = Len(begun) + i
  /\ m_queueTask # <<>> /\ ~unheard => \E w \in Work!Workers : Awake(w)

LEMMA WorkStarts == ASSUME Work!WorkInit PROVE WorkInv
BY DEF Work!WorkInit, WorkInv

\* After an event some thread is awake, or one has not heard of it.
LEMMA EventWakes ==
  ASSUME Work!SetEvent, work \in [Work!Workers -> {"look", "empty", "wait", "run", "end"}]
  PROVE  /\ work' \in [Work!Workers -> {"look", "empty", "wait", "run", "end"}]
         /\ unheard' \/ \E w \in Work!Workers : Awake(w)'
         /\ unheard => unheard'
         /\ \A w \in Work!Workers : Awake(w) => Awake(w)'
<1>1. 1 \in Work!Workers
  BY WorkAssumption DEF Work!Workers
<1> QED BY <1>1 DEF Work!SetEvent, Awake

LEMMA WorkStepKeepsInv == ASSUME WorkInv, Work!WorkNext PROVE WorkInv'
<1>1. CASE Work!AddTask
  <2>1. /\ added' = added + 1 /\ m_queueTask' = Append(m_queueTask, added + 1)
        /\ begun' = begun /\ Work!SetEvent
    BY <1>1 DEF Work!AddTask
  <2>2. PICK q : q = m_queueTask'
    OBVIOUS
  <2>3. /\ q \in Seq(Nat) /\ Len(q) = Len(m_queueTask) + 1
        /\ \A i \in 1 .. Len(m_queueTask) + 1 :
             q[i] = IF i <= Len(m_queueTask) THEN m_queueTask[i] ELSE added + 1
    BY <2>1, <2>2 DEF WorkInv
  <2>4. \A i \in 1 .. Len(q) : q[i] = Len(begun) + i
    <3>1. PICK n : n = Len(begun)
      OBVIOUS
    <3>2. /\ n \in Nat /\ Len(m_queueTask) \in Nat /\ added = n + Len(m_queueTask)
          /\ \A i \in 1 .. Len(m_queueTask) : m_queueTask[i] = n + i
      BY <3>1 DEF WorkInv
    <3>3. \A i \in 1 .. Len(m_queueTask) + 1 : q[i] = n + i
      BY ONLY <2>3, <3>2
    <3> QED BY ONLY <2>3, <3>1, <3>3
  <2> QED BY <2>1, <2>2, <2>3, <2>4, EventWakes, SMTT(30) DEF WorkInv
<1>2. CASE Work!DestroyInstance
  <2>1. Work!SetEvent /\ UNCHANGED <<m_queueTask, added, begun>>
    BY <1>2 DEF Work!DestroyInstance
  <2> QED BY <2>1, EventWakes DEF WorkInv
<1>3. CASE Work!JoinThread
  BY <1>3 DEF Work!JoinThread, WorkInv, Awake
<1>4. ASSUME NEW w \in Work!Workers, Work!TakeTask(w) PROVE WorkInv'
  <2>1. /\ m_queueTask # <<>> /\ m_queueTask' = Tail(m_queueTask)
        /\ begun' = Append(begun, Head(m_queueTask))
        /\ work' = [work EXCEPT ![w] = "run"] /\ UNCHANGED <<added, unheard>>
    BY <1>4 DEF Work!TakeTask, Work!Popped
  <2>2. PICK q, b, n : q = m_queueTask' /\ b = begun' /\ n = Len(begun)
    OBVIOUS
  <2>3. /\ m_queueTask \in Seq(Nat) /\ begun \in Seq(Nat) /\ n \in Nat
        /\ Len(m_queueTask) \in Nat /\ Len(m_queueTask) >= 1
        /\ Head(m_queueTask) = n + 1
    BY <2>1, <2>2 DEF WorkInv
  <2>4. /\ q \in Seq(Nat) /\ Len(q) = Len(m_queueTask) - 1
        /\ \A i \in 1 .. Len(q) : q[i] = m_queueTask[i + 1]
    BY ONLY <2>1, <2>2, <2>3, HeadTailProperties
  <2>5. /\ b \in Seq(Nat) /\ Len(b) = n + 1
        /\ \A i \in 1 .. n + 1 : b[i] = IF i <= n THEN begun[i] ELSE n + 1
    BY ONLY <2>1, <2>2, <2>3
  <2>6. \A i \in 1 .. Len(q) : i + 1 \in 1 .. Len(m_queueTask) /\ q[i] = Len(b) + i
    BY <2>2, <2>3, <2>4, <2>5, SMTT(30) DEF WorkInv
  <2>7. \A i \in 1 .. Len(b) : b[i] = i
    BY <2>2, <2>3, <2>5 DEF WorkInv
  <2>8. Awake(w)'
    BY <2>1 DEF WorkInv, Awake
  <2>9. work' \in [Work!Workers -> {"look", "empty", "wait", "run", "end"}]
    BY <2>1 DEF WorkInv
  <2>10. Len(b) + Len(q) = added' /\ added' \in Nat
    <3>1. added \in Nat /\ n + Len(m_queueTask) = added /\ added' = added
      BY <2>1, <2>2 DEF WorkInv
    <3>2. /\ Len(q) = Len(m_queueTask) - 1 /\ Len(b) = n + 1
          /\ n \in Nat /\ Len(m_queueTask) \in Nat
      BY <2>3, <2>4, <2>5
    <3> QED BY ONLY <3>1, <3>2
  <2> QED BY <2>2, <2>4, <2>5, <2>6, <2>7, <2>8, <2>9, <2>10 DEF WorkInv
<1>5. ASSUME NEW w \in Work!Workers, Work!FindNone(w) PROVE WorkInv'
  BY <1>5 DEF Work!FindNone, WorkInv
<1>6. ASSUME NEW w \in Work!Workers,
             Work!FinishTask(w) \/ Work!WaitForSingleEvent(w) \/ Work!SpuriousWakeUp(w)
               \/ Work!ThreadEnds(w)
      PROVE  WorkInv'
  <2>1. /\ UNCHANGED <<m_queueTask, added, begun, unheard>>
        /\ \A v \in Work!Workers : Awake(v) => Awake(v)'
        /\ work' \in [Work!Workers -> {"look", "empty", "wait", "run", "end"}]
    BY <1>6 DEF Work!FinishTask, Work!WaitForSingleEvent, Work!SpuriousWakeUp, Work!ThreadEnds,
       WorkInv, Awake
  <2> QED BY <2>1 DEF WorkInv
<1> QED BY <1>1, <1>2, <1>3, <1>4, <1>5, <1>6 DEF Work!WorkNext

LEMMA TasksAreInOrder == ASSUME WorkInv PROVE Work!TasksInOrder
<1>1. PICK s, n : s = begun \o m_queueTask /\ n = Len(begun)
  OBVIOUS
<1>2. begun \in Seq(Nat) /\ m_queueTask \in Seq(Nat) /\ n \in Nat /\ n + Len(m_queueTask) = added
  BY <1>1 DEF WorkInv
<1>3. /\ s \in Seq(Nat) /\ Len(s) = added
      /\ \A i \in 1 .. added : s[i] = IF i <= n THEN begun[i] ELSE m_queueTask[i - n]
  BY ONLY <1>1, <1>2, ConcatProperties
<1>4. \A i \in 1 .. added : s[i] = i
  BY <1>1, <1>2, <1>3 DEF WorkInv
<1>5. s = [i \in 1 .. added |-> i]
  BY ONLY <1>3, <1>4
<1>6. \A w \in Work!Workers : Awake(w) => work[w] # "wait"
  BY DEF Awake
<1> QED BY <1>1, <1>5, <1>6 DEF Work!TasksInOrder, WorkInv

LEMMA WorkStutters == ASSUME WorkInv, UNCHANGED workVars PROVE WorkInv'
BY DEF workVars, WorkInv, Awake

-----------------------------------------------------------------------------
(***************************************************************************)
(* The log.                                                                *)
(***************************************************************************)

Lines == [type : LogTypes, nr : Nat]

\* The last line the writer took, and the last that it has done with.
LastTaken == logged - Len(m_logList)
LastDone == LastTaken - (Len(tList) + 1 - pos)

\* A list of lines that follow line n.
Follow(list, n) == list \in Seq(Lines) /\ \A i \in 1 .. Len(list) : list[i].nr = n + i

\* Files hold the lines of set d, in order, and no line twice.
Increasing(s) == \A i, j \in DOMAIN s : i < j => s[i] < s[j]
Holds(w, d) ==
  /\ w \in [LogTypes -> Seq(Nat)] /\ \A t \in LogTypes : Increasing(w[t])
  /\ \A t, u \in LogTypes : t # u => Range(w[t]) \cap Range(w[u]) = {}
  /\ UNION {Range(w[t]) : t \in LogTypes} = d

\* Lines are numbered through: those done with, those the writer has and those
\* that wait.  Each that is done with is in a file, was dropped or had no file.
LogPlaces ==
  /\ logged \in Nat /\ pos \in 1 .. Len(tList) + 1 /\ LastDone \in Nat
  /\ writer # "write" => tList = <<>> /\ pos = 1
  /\ Follow(tList, LastTaken - Len(tList)) /\ Follow(m_logList, LastTaken)

LogDone ==
  /\ Holds(written, (1 .. LastDone) \ (dropped \cup unsaved))
  /\ dropped \cup unsaved \subseteq 1 .. LastDone /\ dropped \cap unsaved = {}

LogInv == LogPlaces /\ LogDone

\* The numbers of lines that follow one another.
LEMMA NumbersOf ==
  ASSUME NEW g, NEW b \in Int, NEW m \in Int, NEW n \in Int,
         \A i \in m .. n : g[i].nr = b + i
  PROVE  {g[i].nr : i \in m .. n} = b + m .. b + n
<1>1. \A k \in b + m .. b + n : k - b \in m .. n /\ g[k - b].nr = k
  OBVIOUS
<1>2. \A i \in m .. n : g[i].nr \in b + m .. b + n
  OBVIOUS
<1> QED BY <1>1, <1>2

LEMMA LogStarts == ASSUME Log!LogInit PROVE LogInv
<1>1. /\ m_logList = <<>> /\ tList = <<>> /\ pos = 1 /\ logged = 0
      /\ written = [t \in LogTypes |-> <<>>] /\ dropped = {} /\ unsaved = {}
  BY DEF Log!LogInit
<1>2. LogPlaces /\ LastDone = 0
  <2>1. Len(<<>>) = 0
    OBVIOUS
  <2>2. LastTaken = 0 - 0 /\ LastDone = LastTaken - (0 + 1 - 1)
    BY ONLY <1>1, <2>1 DEF LastTaken, LastDone
  <2>4. LastDone = 0 /\ LastTaken = 0
    BY ONLY <2>2
  <2>3. \A n : Follow(<<>>, n)
    BY DEF Follow
  <2> QED BY <1>1, <2>1, <2>4, <2>3 DEF LogPlaces
<1>3. \A t \in LogTypes : Range(written[t]) = {}
  BY <1>1 DEF Range
<1>4. Holds(written, {})
  BY <1>1, <1>3 DEF Holds, Increasing
<1> QED BY <1>1, <1>2, <1>4 DEF LogInv, LogDone

\* A line that is logged follows the others.
LEMMA Logs ==
  ASSUME LogInv, NEW t \in LogTypes, Log!Log(t)
  PROVE  LogInv'
<1>1. PICK x, m, n : x = [type |-> t, nr |-> logged + 1] /\ m = m_logList' /\ n = Len(m_logList)
  OBVIOUS
<1>2. /\ logged' = logged + 1 /\ m = Append(m_logList, x)
      /\ UNCHANGED <<tList, pos, writer, written, dropped, unsaved>>
  BY <1>1 DEF Log!Log, Log!files
<1>3. /\ m_logList \in Seq(Lines) /\ x \in Lines /\ n \in Nat /\ logged \in Nat
      /\ \A i \in 1 .. n : m_logList[i].nr = logged - n + i
  BY <1>1 DEF LogInv, LogPlaces, Follow, Lines, LastTaken
<1>4. /\ m \in Seq(Lines) /\ Len(m) = n + 1
      /\ \A i \in 1 .. n + 1 : m[i] = IF i <= n THEN m_logList[i] ELSE x
  BY ONLY <1>1, <1>2, <1>3
<1>5. LastTaken' = LastTaken /\ LastDone' = LastDone
  <2>1. LastTaken' = LastTaken
    BY <1>1, <1>2, <1>3, <1>4 DEF LastTaken
  <2> QED BY <1>2, <2>1 DEF LastDone
<1>6. Follow(m, logged - n)
  <2>1. x.nr = logged + 1
    BY <1>1
  <2>2. ASSUME NEW i \in 1 .. n + 1 PROVE m[i].nr = logged - n + i
    <3>1. CASE i <= n
      BY <1>3, <1>4, <3>1
    <3>2. CASE i = n + 1
      <4>1. m[i] = x
        BY ONLY <1>3, <1>4, <3>2
      <4> QED BY <1>3, <2>1, <3>2, <4>1
    <3> QED BY <1>3, <3>1, <3>2
  <2> QED BY <1>4, <2>2 DEF Follow
<1>7. LogPlaces'
  <2>1. LastTaken = logged - n
    BY <1>1 DEF LastTaken
  <2> QED BY <1>1, <1>2, <1>3, <1>5, <1>6, <2>1 DEF LogInv, LogPlaces
<1> QED BY <1>2, <1>5, <1>7 DEF LogInv, LogDone

\* The writer takes the list, and drops its first lines if it is too long.
LEMMA TakesList == ASSUME LogInv, Log!TakeList PROVE LogInv'
<1>1. PICK n, m, b : n = Len(m_logList) /\ m = m_logList /\ b = LastTaken
  OBVIOUS
<1>2. /\ tList = <<>> /\ pos = 1 /\ LastDone = b /\ b \in Nat /\ n \in Nat
      /\ logged = b + n /\ Follow(m, b)
  BY <1>1 DEF Log!TakeList, LogInv, LogPlaces, LastDone, LastTaken, Follow
<1>3. /\ tList' = m /\ m_logList' = <<>> /\ logged' = logged /\ UNCHANGED <<written, unsaved>>
  BY <1>1 DEF Log!TakeList, Log!LeftAfterTake
<1>4. PICK e : e = Log!Excess(m)
  OBVIOUS
<1>5. e \in 0 .. n
  BY <1>1, <1>2, <1>4, LogAssumption DEF Log!Excess
<1>6. Len(m_logList') = 0 /\ LastTaken' = b + n
  BY <1>2, <1>3 DEF LastTaken
<1>7. CASE m = <<>>
  <2>1. UNCHANGED <<writer, pos, dropped>> /\ n = 0
    BY <1>1, <1>7 DEF Log!TakeList
  <2>2. LastTaken' = b /\ LastDone' = b
    BY <1>1, <1>2, <1>3, <1>6, <1>7, <2>1 DEF LastDone
  <2>3. LogPlaces'
    BY <1>1, <1>2, <1>3, <1>7, <2>1, <2>2 DEF LogPlaces, LogInv, Follow
  <2> QED BY <1>2, <1>3, <2>1, <2>2, <2>3 DEF LogInv, LogDone
<1>8. CASE m # <<>>
  <2>1. /\ writer' = "write" /\ pos' = e + 1
        /\ dropped' = dropped \cup {m[i].nr : i \in 1 .. e}
    BY <1>1, <1>4, <1>8 DEF Log!TakeList
  <2>2. LastDone' = b + e
    BY <1>1, <1>2, <1>3, <1>5, <1>6, <2>1 DEF LastDone
  <2>3. {m[i].nr : i \in 1 .. e} = b + 1 .. b + e
    <3>1. \A i \in 1 .. e : m[i].nr = b + i
      BY <1>1, <1>2, <1>5 DEF Follow
    <3>2. b \in Int /\ 1 \in Int /\ e \in Int
      BY <1>2, <1>5
    <3>3. \A k \in b + 1 .. b + e : k - b \in 1 .. e /\ m[k - b].nr = k
      BY ONLY <3>1, <3>2
    <3>4. \A i \in 1 .. e : m[i].nr \in b + 1 .. b + e
      BY ONLY <3>1, <3>2
    <3> QED BY ONLY <3>3, <3>4
  <2>4. LogPlaces'
    <3>1. Follow(m_logList', b + n)
      BY <1>3 DEF Follow
    <3>2. LastTaken' - Len(tList') = b
      BY <1>1, <1>2, <1>3, <1>6
    <3>3. pos' \in 1 .. Len(tList') + 1 /\ LastDone' \in Nat /\ logged' \in Nat
      BY <1>1, <1>2, <1>3, <1>5, <2>1, <2>2
    <3> QED BY <1>2, <1>3, <1>6, <2>1, <3>1, <3>2, <3>3 DEF LogPlaces
  <2>5. LogDone'
    <3>1. PICK d, u : d = dropped' /\ u = unsaved
      OBVIOUS
    <3>2. /\ Holds(written, (1 .. b) \ (dropped \cup u))
          /\ dropped \cup u \subseteq 1 .. b /\ dropped \cap u = {}
      BY <1>2, <3>1 DEF LogInv, LogDone
    <3>3. d = dropped \cup (b + 1 .. b + e)
      BY <2>1, <2>3, <3>1
    <3>4. /\ (1 .. b) \ (dropped \cup u) = (1 .. b + e) \ (d \cup u)
          /\ d \cup u \subseteq 1 .. b + e /\ d \cap u = {}
      BY ONLY <1>2, <1>5, <3>2, <3>3
    <3> QED BY <1>3, <2>2, <3>1, <3>2, <3>4 DEF LogDone
  <2> QED BY <2>4, <2>5 DEF LogInv
<1> QED BY <1>7, <1>8

\* A line that is written follows those of its file.
LEMMA HoldsMore ==
  ASSUME NEW w, NEW d \in SUBSET Nat, Holds(w, d), NEW t \in LogTypes, NEW k \in Nat,
         \A i \in d : i < k
  PROVE  Holds([w EXCEPT ![t] = Append(@, k)], d \cup {k})
<1>1. PICK s, v : s = Append(w[t], k) /\ v = [w EXCEPT ![t] = s]
  OBVIOUS
<1>2. w[t] \in Seq(Nat) /\ s \in Seq(Nat) /\ Len(s) = Len(w[t]) + 1
  BY <1>1 DEF Holds
<1>3. \A i \in 1 .. Len(w[t]) + 1 : s[i] = IF i <= Len(w[t]) THEN w[t][i] ELSE k
  BY ONLY <1>1, <1>2, k \in Nat
<1>4. \A u \in LogTypes : Range(w[u]) \subseteq d
  BY DEF Holds
<1>5. Range(s) = Range(w[t]) \cup {k}
  <2>1. DOMAIN s = 1 .. Len(w[t]) + 1 /\ DOMAIN w[t] = 1 .. Len(w[t]) /\ Len(w[t]) \in Nat
    BY ONLY <1>2
  <2>2. s[Len(w[t]) + 1] = k
    BY <1>3, <2>1
  <2>3. Len(w[t]) + 1 \in DOMAIN s
    BY <2>1
  <2> QED BY <1>3, <2>1, <2>2, <2>3 DEF Range
<1>6. Increasing(s)
  <2>1. DOMAIN s = 1 .. Len(w[t]) + 1 /\ DOMAIN w[t] = 1 .. Len(w[t]) /\ Len(w[t]) \in Nat
    BY ONLY <1>2
  <2>2. \A i \in 1 .. Len(w[t]) : w[t][i] < k
    <3>1. \A i \in 1 .. Len(w[t]) : w[t][i] \in Range(w[t])
      BY <2>1 DEF Range
    <3> QED BY <1>4, <3>1
  <2>3. \A i, j \in 1 .. Len(w[t]) : i < j => w[t][i] < w[t][j]
    BY <2>1 DEF Holds, Increasing
  <2>4. \A i, j \in 1 .. Len(w[t]) + 1 : i < j => s[i] < s[j]
    BY ONLY <1>3, <2>1, <2>2, <2>3
  <2> QED BY <2>1, <2>4 DEF Increasing
<1>7. v \in [LogTypes -> Seq(Nat)] /\ \A u \in LogTypes : v[u] = IF u = t THEN s ELSE w[u]
  BY <1>1, <1>2 DEF Holds
<1>8. k \notin d
  OBVIOUS
<1>9. \A u, x \in LogTypes : u # x => Range(v[u]) \cap Range(v[x]) = {}
  <2>1. \A u, x \in LogTypes : u # x => Range(w[u]) \cap Range(w[x]) = {}
    BY DEF Holds
  <2>2. \A u \in LogTypes : Range(v[u]) = IF u = t THEN Range(w[t]) \cup {k} ELSE Range(w[u])
    BY <1>5, <1>7
  <2>3. \A u \in LogTypes : k \notin Range(w[u])
    BY <1>4, <1>8
  <2> QED BY ONLY <2>1, <2>2, <2>3
<1>10. UNION {Range(v[u]) : u \in LogTypes} = d \cup {k}
  <2>1. UNION {Range(w[u]) : u \in LogTypes} = d
    BY DEF Holds
  <2>2. \A u \in LogTypes : Range(v[u]) = IF u = t THEN Range(w[t]) \cup {k} ELSE Range(w[u])
    BY <1>5, <1>7
  <2> QED BY <2>1, <2>2
<1>11. \A u \in LogTypes : Increasing(v[u])
  BY <1>6, <1>7 DEF Holds
<1>12. v = [w EXCEPT ![t] = Append(@, k)]
  BY <1>1
<1>13. Holds(v, d \cup {k})
  BY ONLY <1>7, <1>9, <1>10, <1>11 DEF Holds
<1> QED BY ONLY <1>12, <1>13

\* The writer's next line goes to its file, if that is open.
LEMMA WritesLine == ASSUME LogInv, Log!WriteLine PROVE LogInv'
<1>1. PICK k, x, b : k = LastDone /\ x = tList[pos] /\ b = LastTaken
  OBVIOUS
<1>2. /\ k \in Nat /\ pos \in 1 .. Len(tList) /\ x \in Lines /\ x.nr = k + 1
      /\ b = LastTaken /\ b \in Int /\ k = b - (Len(tList) + 1 - pos)
  <2>1. /\ pos \in 1 .. Len(tList) + 1 /\ pos <= Len(tList) /\ Len(tList) \in Nat /\ b \in Int
        /\ Follow(tList, b - Len(tList)) /\ k \in Nat /\ k = b - (Len(tList) + 1 - pos)
    <3>1. pos <= Len(tList)
      BY DEF Log!WriteLine
    <3>2. /\ pos \in 1 .. Len(tList) + 1 /\ Len(tList) \in Nat /\ Len(m_logList) \in Nat
          /\ logged \in Nat /\ k \in Nat /\ Follow(tList, LastTaken - Len(tList))
      BY <1>1 DEF LogInv, LogPlaces, Follow
    <3>3. b \in Int
      BY <1>1, <3>2 DEF LastTaken
    <3>4. k = b - (Len(tList) + 1 - pos)
      BY <1>1 DEF LastDone
    <3> QED BY <1>1, <3>1, <3>2, <3>3, <3>4
  <2>2. pos \in 1 .. Len(tList)
    BY <2>1
  <2>3. x \in Lines /\ x.nr = b - Len(tList) + pos
    BY <1>1, <2>1, <2>2 DEF Follow
  <2> QED BY <1>1, <2>1, <2>2, <2>3
<1>3. pos' = pos + 1 /\ UNCHANGED <<m_logList, tList, writer, logged, dropped>> /\ writer = "write"
  BY DEF Log!WriteLine
<1>4. LastTaken' = b
  BY <1>1, <1>3 DEF LastTaken
<1>5. LastDone' = k + 1
  BY <1>2, <1>3, <1>4 DEF LastDone
<1>6. LogPlaces'
  BY <1>1, <1>2, <1>3, <1>4, <1>5 DEF LogInv, LogPlaces
<1>7. /\ Holds(written, (1 .. k) \ (dropped \cup unsaved))
      /\ dropped \cup unsaved \subseteq 1 .. k /\ dropped \cap unsaved = {}
  BY <1>1 DEF LogInv, LogDone
<1>8. x.type \in LogTypes
  BY <1>2 DEF Lines
<1>9. CASE file[x.type].open
  <2>1. written' = [written EXCEPT ![x.type] = Append(@, k + 1)] /\ unsaved' = unsaved
    BY <1>1, <1>2, <1>9 DEF Log!WriteLine
  <2>2. PICK d, e : d = (1 .. k) \ (dropped \cup unsaved) /\ e = (1 .. k + 1) \ (dropped \cup unsaved)
    OBVIOUS
  <2>3. e = d \cup {k + 1} /\ d \in SUBSET Nat /\ k + 1 \in Nat /\ \A i \in d : i < k + 1
    BY ONLY <1>2, <1>7, <2>2
  <2>4. Holds(written', e)
    <3>1. PICK w, y, n : w = written /\ y = x.type /\ n = k + 1
      OBVIOUS
    <3>2. Holds(w, d) /\ d \in SUBSET Nat /\ y \in LogTypes /\ n \in Nat /\ \A i \in d : i < n
      BY <1>7, <1>8, <2>2, <2>3, <3>1
    <3>3. Holds([w EXCEPT ![y] = Append(@, n)], d \cup {n})
      BY ONLY <3>2, HoldsMore
    <3>4. e = d \cup {n} /\ written' = [w EXCEPT ![y] = Append(@, n)]
      BY <2>1, <2>3, <3>1
    <3> QED BY ONLY <3>3, <3>4
  <2>5. dropped \cup unsaved \subseteq 1 .. k + 1
    BY <1>2, <1>7
  <2> QED BY <1>3, <1>5, <1>6, <1>7, <2>1, <2>2, <2>4, <2>5 DEF LogInv, LogDone
<1>10. CASE ~file[x.type].open
  <2>1. written' = written /\ unsaved' = unsaved \cup {k + 1}
    BY <1>1, <1>2, <1>10 DEF Log!WriteLine
  <2>2. PICK u : u = unsaved'
    OBVIOUS
  <2>3. /\ (1 .. k) \ (dropped \cup unsaved) = (1 .. k + 1) \ (dropped \cup u)
        /\ dropped \cup u \subseteq 1 .. k + 1 /\ dropped \cap u = {}
    BY ONLY <1>2, <1>7, <2>1, <2>2
  <2> QED BY <1>3, <1>5, <1>6, <1>7, <2>1, <2>2, <2>3 DEF LogInv, LogDone
<1> QED BY <1>9, <1>10

\* When the list is written the writer has none.
LEMMA FlushesAll == ASSUME LogInv, Log!FlushAll PROVE LogInv'
<1>1. /\ tList' = <<>> /\ pos' = 1 /\ pos > Len(tList)
      /\ UNCHANGED <<m_logList, logged, written, unsaved, dropped>>
  BY DEF Log!FlushAll
<1>2. pos = Len(tList) + 1 /\ Len(tList) \in Nat /\ LastTaken \in Int /\ LastDone \in Nat
  BY <1>1 DEF LogInv, LogPlaces, LastTaken, Follow
<1>3. LastTaken' = LastTaken /\ LastDone = LastTaken
  BY <1>1, <1>2 DEF LastTaken, LastDone
<1>4. LastDone' = LastTaken
  BY <1>1, <1>2, <1>3 DEF LastDone
<1>5. Follow(<<>>, LastTaken)
  BY DEF Follow
<1> QED BY <1>1, <1>2, <1>3, <1>4, <1>5 DEF LogInv, LogPlaces, LogDone

LEMMA LogStepKeepsInv == ASSUME LogInv, Log!LogNext PROVE LogInv'
<1>1. CASE Log!RunEnds \/ Log!EndThread \/ Log!WaitForEnd \/ Log!Joined
  <2>1. /\ UNCHANGED <<m_logList, tList, pos, logged, dropped, written, unsaved>>
        /\ writer' = "write" => writer = "write"
        /\ writer = "write" => writer' = "write"
    BY <1>1 DEF Log!RunEnds, Log!EndThread, Log!WaitForEnd, Log!Joined, Log!files
  <2>2. LastTaken' = LastTaken /\ LastDone' = LastDone
    BY <2>1 DEF LastTaken, LastDone
  <2> QED BY <2>1, <2>2 DEF LogInv, LogPlaces, LogDone
<1> QED BY <1>1, Logs, TakesList, WritesLine, FlushesAll DEF Log!LogNext

\* Each line is in one place.
Apart(a, b, c, d, e) ==
  /\ a \cap b = {} /\ a \cap c = {} /\ a \cap d = {} /\ a \cap e = {} /\ b \cap c = {}
  /\ b \cap d = {} /\ b \cap e = {} /\ c \cap d = {} /\ c \cap e = {} /\ d \cap e = {}

LEMMA InOnePlace ==
  ASSUME NEW a, NEW b, NEW c, NEW d, NEW e, Apart(a, b, c, d, e), NEW p, p = <<a, b, c, d, e>>
  PROVE  /\ \A i, j \in DOMAIN p : i # j => p[i] \cap p[j] = {}
         /\ UNION Range(p) = a \cup b \cup c \cup d \cup e
<1>1. DOMAIN p = {1, 2, 3, 4, 5}
  OBVIOUS
<1>2. p[1] = a /\ p[2] = b /\ p[3] = c /\ p[4] = d /\ p[5] = e
  OBVIOUS
<1>3. Range(p) = {a, b, c, d, e}
  BY ONLY <1>1, <1>2 DEF Range
<1>4. \A i, j \in DOMAIN p : i # j => p[i] \cap p[j] = {}
  BY ONLY <1>1, <1>2, Apart(a, b, c, d, e) DEF Apart
<1> QED BY ONLY <1>3, <1>4

LEMMA LinesAreWritten == ASSUME LogInv PROVE Log!LinesWritten
<1>0. \A s : Log!Range(s) = Range(s)
  BY DEF Log!Range, Range
<1>1. PICK a, b, c, p : /\ a = UNION {Range(written[t]) : t \in LogTypes}
                        /\ b = Log!Pending /\ c = Log!Current
                        /\ p = <<a, b, c, dropped, unsaved>>
  OBVIOUS
<1>2. PICK k, l : k = LastDone /\ l = LastTaken
  OBVIOUS
<1>3. /\ k \in Nat /\ l \in Nat /\ l = k + (Len(tList) + 1 - pos) /\ logged = l + Len(m_logList)
      /\ Len(tList) \in Nat /\ Len(m_logList) \in Nat /\ pos \in 1 .. Len(tList) + 1
      /\ m_logList \in Seq(Lines)
  BY <1>2 DEF LogInv, LogPlaces, LastDone, LastTaken, Follow
<1>4. b = l + 1 .. logged
  <2>1. b = {m_logList[i].nr : i \in 1 .. Len(m_logList)}
    BY <1>1, <1>3 DEF Log!Pending
  <2>2. \A i \in 1 .. Len(m_logList) : m_logList[i].nr = l + i
    BY <1>2 DEF LogInv, LogPlaces, Follow
  <2>3. l \in Int /\ 1 \in Int /\ Len(m_logList) \in Int
    BY <1>3
  <2>4. {m_logList[i].nr : i \in 1 .. Len(m_logList)} = l + 1 .. l + Len(m_logList)
    <3>1. PICK g, n : g = m_logList /\ n = Len(m_logList)
      OBVIOUS
    <3>2. l \in Int /\ 1 \in Int /\ n \in Int /\ \A i \in 1 .. n : g[i].nr = l + i
      BY <2>2, <2>3, <3>1
    <3>3. {g[i].nr : i \in 1 .. n} = l + 1 .. l + n
      BY ONLY <3>2, NumbersOf, SMTT(30)
    <3> QED BY ONLY <3>1, <3>3
  <2> QED BY <1>3, <2>1, <2>4
<1>5. c = k + 1 .. l
  <2>1. c = {tList[i].nr : i \in pos .. Len(tList)}
    BY <1>1 DEF Log!Current
  <2>2. \A i \in 1 .. Len(tList) : tList[i].nr = l - Len(tList) + i
    BY <1>2 DEF LogInv, LogPlaces, Follow
  <2>3. PICK o : o = l - Len(tList)
    OBVIOUS
  <2>4. /\ o \in Int /\ pos \in Int /\ Len(tList) \in Int
        /\ \A i \in pos .. Len(tList) : tList[i].nr = o + i
    BY <1>3, <2>2, <2>3
  <2>5. {tList[i].nr : i \in pos .. Len(tList)} = o + pos .. o + Len(tList)
    BY ONLY <2>4, NumbersOf, SMTT(30)
  <2>6. o + pos = k + 1 /\ o + Len(tList) = l
    BY <1>3, <2>3
  <2> QED BY <2>1, <2>5, <2>6
<1>6. /\ Holds(written, (1 .. k) \ (dropped \cup unsaved))
      /\ dropped \cup unsaved \subseteq 1 .. k /\ dropped \cap unsaved = {}
  BY <1>2 DEF LogInv, LogDone
<1>7. a = (1 .. k) \ (dropped \cup unsaved)
  BY <1>1, <1>6 DEF Holds
<1>8. /\ a \cap b = {} /\ a \cap c = {} /\ a \cap dropped = {} /\ a \cap unsaved = {}
      /\ b \cap c = {} /\ b \cap dropped = {} /\ b \cap unsaved = {} /\ c \cap dropped = {}
      /\ c \cap unsaved = {} /\ a \cup b \cup c \cup dropped \cup unsaved = 1 .. logged
  <2>1. k \in Nat /\ l \in Nat /\ logged \in Nat /\ k <= l /\ l <= logged
    BY ONLY <1>3
  <2>2. PICK r : r = 1 .. k
    OBVIOUS
  <2>3. r \cap b = {} /\ r \cap c = {} /\ b \cap c = {}
    BY ONLY <1>4, <1>5, <2>1, <2>2
  <2>4. r \cup b \cup c = 1 .. logged
    BY ONLY <1>4, <1>5, <2>1, <2>2
  <2>5. a = r \ (dropped \cup unsaved) /\ dropped \cup unsaved \subseteq r
    BY ONLY <1>6, <1>7, <2>2
  <2>6. a \cup dropped \cup unsaved = r
    BY ONLY <2>5
  <2> QED BY ONLY <2>3, <2>4, <2>5, <2>6
<1>9. /\ \A i, j \in DOMAIN p : i # j => p[i] \cap p[j] = {}
      /\ UNION Range(p) = 1 .. logged
  <2>1. Apart(a, b, c, dropped, unsaved) /\ p = <<a, b, c, dropped, unsaved>>
    BY <1>1, <1>6, <1>8 DEF Apart
  <2>2. /\ \A i, j \in DOMAIN p : i # j => p[i] \cap p[j] = {}
        /\ UNION Range(p) = a \cup b \cup c \cup dropped \cup unsaved
    BY ONLY <2>1, InOnePlace
  <2> QED BY ONLY <1>8, <2>2
<1>10. /\ \A t \in LogTypes : Increasing(written[t])
       /\ \A t, u \in LogTypes : t # u => Range(written[t]) \cap Range(written[u]) = {}
  BY <1>6 DEF Holds
<1>11. p = <<UNION {Log!Range(written[t]) : t \in LogTypes}, Log!Pending, Log!Current,
             dropped, unsaved>>
  BY <1>0, <1>1
<1>12. UNION Log!Range(p) = 1 .. logged
  BY <1>0, <1>9
<1>13. /\ \A t \in LogTypes : \A i, j \in DOMAIN written[t] : i < j => written[t][i] < written[t][j]
       /\ \A t, u \in LogTypes : t # u => Log!Range(written[t]) \cap Log!Range(written[u]) = {}
  BY <1>0, <1>10 DEF Increasing
<1> QED BY ONLY <1>9, <1>11, <1>12, <1>13 DEF Log!LinesWritten

LEMMA LogStutters == ASSUME LogInv, UNCHANGED logVars PROVE LogInv'
BY DEF logVars, LogInv, LogPlaces, LogDone, LastDone, LastTaken

-----------------------------------------------------------------------------
(***************************************************************************)
(* The queue of antlib.                                                    *)
(***************************************************************************)
Handling == tool = "queue"

PushAts == {"rest", "index", "write", "link", "tail", "count"}
PopAts  == {"rest", "take", "read", "move", "done"}
           \cup IF Handling THEN {"next"} ELSE {"reserve", "restore"}

QueueNodes == [slots : [Queue!Slots -> Queue!Items \cup {Queue!NULL}],
               _head : 0 .. SQUEUE_NODE_SIZE, _tail : 0 .. SQUEUE_NODE_SIZE,
               _next : Queue!Nodes \cup {0}]
QueueAts == {"rest", "index", "write", "link", "tail", "count", "take", "read", "move", "done",
             "next", "reserve", "restore"}
QueueSteps == [at : QueueAts, node : Queue!Nodes \cup {0}, index : Queue!Slots, batch : Int]

QueueTypes ==
  /\ node \in [Queue!Nodes -> QueueNodes]
  /\ nodes \in Queue!Nodes /\ qtail \in 1 .. nodes /\ qhead \in 1 .. qtail
  /\ free_ptr \in 1 .. qhead /\ qcount \in Int
  /\ _locker \in Poppers \cup {0}
  /\ pc \in [Pushers \cup Poppers -> QueueSteps]
  /\ \A p \in Pushers : pc[p].at \in PushAts
  /\ \A c \in Poppers : pc[c].at \in PopAts
  /\ sent \in [Pushers -> 0 .. MaxItems] /\ got \in Seq(Queue!Items)

\* The nodes before the tail have been filled, those before the head emptied,
\* and each is linked to the next.
NodesInRow ==
  \A n \in Queue!Nodes :
    /\ n < qtail => node[n]._head = SQUEUE_NODE_SIZE
    /\ n > qtail => node[n]._head = 0
    /\ n < qhead => node[n]._tail = SQUEUE_NODE_SIZE
    /\ n > qhead => node[n]._tail = 0
    /\ node[n]._tail <= node[n]._head
    /\ n < nodes => node[n]._next = n + 1

\* Who has the last slot of a node links the next, or moves on to it.
Closes(p) == pc[p].at \in {"link", "tail"} \/ (pc[p].at = "write" /\ pc[p].index = Queue!LastSlot)
Moves(c)  == pc[c].at = "move" \/ (pc[c].at = "read" /\ pc[c].index = Queue!LastSlot)

LastSlots ==
  /\ \A p \in Pushers : Closes(p) => pc[p].node = qtail
  /\ \A p, q \in Pushers : Closes(p) /\ Closes(q) => p = q
  /\ node[qtail]._head = SQUEUE_NODE_SIZE <=> \E p \in Pushers : Closes(p)
  /\ nodes = qtail + 1 <=> \E p \in Pushers : pc[p].at = "tail"
  /\ nodes <= qtail + 1
  /\ \A c \in Poppers : Moves(c) => pc[c].node = qhead
  /\ \A c, d \in Poppers : Moves(c) /\ Moves(d) => c = d
  /\ node[qhead]._tail = SQUEUE_NODE_SIZE <=> \E c \in Poppers : Moves(c)

Slot(n, i) == node[n].slots[i]
Before(n, i, m, j) == n < m \/ (n = m /\ i < j)
Writes(p, n, i) == pc[p].at = "write" /\ pc[p].node = n /\ pc[p].index = i
Reads(c, n, i)  == pc[c].at = "read" /\ pc[c].node = n /\ pc[c].index = i

\* A slot that was counted is being written, or has its item; each item has
\* one slot, and those of a pusher come in the order he pushes them.
WritersPlaced ==
  \A p \in Pushers :
    /\ pc[p].at \in {"index", "write"} => pc[p].node \in 1 .. qtail /\ sent[p] > 0
    /\ pc[p].at = "write" =>
         /\ pc[p].index < node[pc[p].node]._head
         /\ Slot(pc[p].node, pc[p].index) = Queue!NULL

WritersApart ==
  \A p, q \in Pushers : \A n \in Queue!Nodes, i \in Queue!Slots :
    Writes(p, n, i) /\ Writes(q, n, i) => p = q

SlotsFilled ==
  \A n \in Queue!Nodes, i \in Queue!Slots :
    /\ i >= node[n]._head => Slot(n, i) = Queue!NULL
    /\ i < node[n]._head /\ Slot(n, i) = Queue!NULL => \E p \in Pushers : Writes(p, n, i)

\* Item k of pusher p is in slot i of node n.
HasItem(n, i, p, k) == Slot(n, i) = <<p, k>>

ItemsSent ==
  \A n \in Queue!Nodes, i \in Queue!Slots, p \in Pushers, k \in 1 .. MaxItems :
    HasItem(n, i, p, k) =>
      k <= sent[p] /\ (pc[p].at \in {"index", "write"} => k < sent[p])

ItemsOrdered ==
  \A n, m \in Queue!Nodes, i, j \in Queue!Slots, p \in Pushers, k, l \in 1 .. MaxItems :
    /\ HasItem(n, i, p, k) /\ HasItem(m, j, p, l) /\ Before(n, i, m, j) => k < l
    /\ HasItem(n, i, p, k) /\ Writes(p, m, j) => Before(n, i, m, j)

\* A slot is read by one thread at most, and not again; a handler's messages
\* have been read in the order of their slots.
ReadersPlaced ==
  \A c \in Poppers :
    /\ pc[c].at \in {"take", "read"} => pc[c].node \in 1 .. qhead
    /\ pc[c].at = "read" => pc[c].index < node[pc[c].node]._tail
    /\ pc[c].at = "move" => Slot(qhead, Queue!LastSlot) # Queue!NULL

ReadersApart ==
  \A c, d \in Poppers : \A n \in Queue!Nodes, i \in Queue!Slots :
    Reads(c, n, i) /\ Reads(d, n, i) => c = d

\* The item e has been read from slot i of node n.
ReadFrom(n, i, e) == Slot(n, i) = e /\ i < node[n]._tail /\ \A c \in Poppers : ~Reads(c, n, i)

GotRead ==
  \A k \in DOMAIN got : \E n \in Queue!Nodes, i \in Queue!Slots : ReadFrom(n, i, got[k])

GotOrdered ==
  Handling => \A n, m \in Queue!Nodes, i, j \in Queue!Slots, k \in DOMAIN got :
    Slot(n, i) = got[k] =>
      /\ \A l \in DOMAIN got : k < l /\ Slot(m, j) = got[l] => Before(n, i, m, j)
      /\ \A c \in Poppers : Reads(c, m, j) => Before(n, i, m, j)

Pushed == WritersPlaced /\ WritersApart /\ SlotsFilled /\ ItemsSent /\ ItemsOrdered
Popped == ReadersPlaced /\ ReadersApart /\ GotRead /\ IsInjective(got) /\ GotOrdered

\* Slots counted by pushers and poppers, and the threads on their way.
Begun == (qtail - 1) * SQUEUE_NODE_SIZE + node[qtail]._head
Taken == (qhead - 1) * SQUEUE_NODE_SIZE + node[qhead]._tail
ThreadsAt(S, ats) == {t \in S : pc[t].at \in ats}
Pushing == Cardinality(ThreadsAt(Pushers, {"write", "link", "tail", "count"}))
Taking  == Cardinality(ThreadsAt(Poppers, {"take"}))
Ending  == Cardinality(ThreadsAt(Poppers, {"read", "move", "done"}))
Failing == Cardinality(ThreadsAt(Poppers, {"restore"}))

\* The items that have a slot or get one.
BegunItems == {e \in Queue!Items : /\ e[2] <= sent[e[1]]
                                   /\ pc[e[1]].at = "index" => e[2] < sent[e[1]]}

\* Nobody takes a slot that no pusher has counted: in a handler's queue the
\* count is what has been pushed and not handled; in a pool it counts every pop
\* twice, and is too low.
Counted ==
  /\ Begun = Cardinality(BegunItems)
  /\ Taken + Taking <= Begun - Pushing
  /\ Ending <= Taken
  /\ qcount = IF Handling THEN Begun - Pushing - Taken + Ending
              ELSE Begun - Pushing - 2 * Taken - Taking + Ending - Failing

\* One thread runs the handler, and has a batch of messages that are there.
OneHandles ==
  Handling =>
    /\ \A c \in Poppers : pc[c].at # "rest" <=> c = _locker
    /\ \A c \in Poppers : pc[c].at = "next" => pc[c].batch \in 0 .. qcount
    /\ \A c \in Poppers : pc[c].at \in {"take", "read", "move", "done"} =>
         pc[c].batch \in 1 .. qcount

QueueInv == QueueTypes /\ NodesInRow /\ LastSlots /\ Pushed /\ Popped /\ Counted /\ OneHandles

-----------------------------------------------------------------------------
\* Thread t is where x says.
Steps(t, x) == pc' = [pc EXCEPT ![t] = x]

LEMMA StepsTo ==
  ASSUME QueueTypes, NEW t \in Pushers \cup Poppers, NEW x \in QueueSteps, Steps(t, x)
  PROVE  /\ pc' \in [Pushers \cup Poppers -> QueueSteps]
         /\ \A u \in Pushers \cup Poppers : pc'[u] = IF u = t THEN x ELSE pc[u]
BY DEF QueueTypes, Steps

\* A set of threads has one more, or one less.
LEMMA OneChanges ==
  ASSUME NEW S, IsFiniteSet(S), NEW X \in SUBSET S, NEW Y \in SUBSET S, NEW t,
         \A u \in S : u # t => (u \in X <=> u \in Y)
  PROVE  /\ Cardinality(X) \in Nat /\ Cardinality(Y) \in Nat
         /\ Cardinality(Y) = Cardinality(X) - (IF t \in X THEN 1 ELSE 0) + (IF t \in Y THEN 1 ELSE 0)
<1>1. IsFiniteSet(X) /\ IsFiniteSet(Y)
  BY FS_Subset
<1>2. Cardinality(X) \in Nat /\ Cardinality(Y) \in Nat
  BY <1>1, FS_CardinalityType
<1>3. CASE t \in X /\ t \notin Y
  <2>1. Y = X \ {t}
    BY <1>3
  <2> QED BY <1>1, <1>2, <1>3, <2>1, FS_RemoveElement
<1>4. CASE t \notin X /\ t \in Y
  <2>1. X = Y \ {t}
    BY <1>4
  <2>2. Cardinality(X) = Cardinality(Y) - 1
    BY <1>1, <1>4, <2>1, FS_RemoveElement
  <2> QED BY <1>2, <1>4, <2>2
<1>5. CASE t \in X <=> t \in Y
  <2>1. X = Y
    BY <1>5
  <2> QED BY <1>2, <1>5, <2>1
<1> QED BY <1>3, <1>4, <1>5

LEMMA StepCounts ==
  ASSUME QueueTypes, NEW t \in Pushers \cup Poppers, NEW x \in QueueSteps, Steps(t, x),
         NEW S \in {Pushers, Poppers}, NEW ats
  PROVE  /\ Cardinality(ThreadsAt(S, ats)) \in Nat /\ Cardinality(ThreadsAt(S, ats)') \in Nat
         /\ Cardinality(ThreadsAt(S, ats)') = Cardinality(ThreadsAt(S, ats))
              - (IF t \in S /\ pc[t].at \in ats THEN 1 ELSE 0)
              + (IF t \in S /\ x.at \in ats THEN 1 ELSE 0)
<1>1. PICK X, Y : X = ThreadsAt(S, ats) /\ Y = ThreadsAt(S, ats)'
  OBVIOUS
<1>2. X \in SUBSET S /\ Y \in SUBSET S /\ IsFiniteSet(S)
  BY <1>1, QueueAssumption DEF ThreadsAt, QueueAssumption
<1>3. \A u \in S : (u \in X <=> pc[u].at \in ats) /\ (u \in Y <=> (IF u = t THEN x ELSE pc[u]).at \in ats)
  BY <1>1, StepsTo DEF ThreadsAt
<1>4. /\ Cardinality(X) \in Nat /\ Cardinality(Y) \in Nat
      /\ Cardinality(Y) = Cardinality(X) - (IF t \in X THEN 1 ELSE 0) + (IF t \in Y THEN 1 ELSE 0)
  BY ONLY <1>2, <1>3, OneChanges
<1>5. (t \in X <=> t \in S /\ pc[t].at \in ats) /\ (t \in Y <=> t \in S /\ x.at \in ats)
  BY <1>2, <1>3
<1> QED BY ONLY <1>1, <1>4, <1>5

Busy == {"write", "link", "tail", "read", "move"}

\* Who does nothing with a slot, before and after.
LEMMA QuietSteps ==
  ASSUME QueueTypes, NEW t \in Pushers \cup Poppers, NEW x \in QueueSteps, Steps(t, x),
         pc[t].at \notin Busy, x.at \notin Busy
  PROVE  \A u \in Pushers \cup Poppers :
           /\ Closes(u)' <=> Closes(u)
           /\ Moves(u)' <=> Moves(u)
           /\ u # t => pc'[u] = pc[u]
           /\ pc'[u].at = "tail" <=> pc[u].at = "tail"
           /\ \A n, i : (Writes(u, n, i)' <=> Writes(u, n, i)) /\ (Reads(u, n, i)' <=> Reads(u, n, i))
<1>1. SUFFICES ASSUME NEW u \in Pushers \cup Poppers
               PROVE  /\ Closes(u)' <=> Closes(u)
                      /\ Moves(u)' <=> Moves(u)
                      /\ u # t => pc'[u] = pc[u]
                      /\ pc'[u].at = "tail" <=> pc[u].at = "tail"
                      /\ \A n, i : (Writes(u, n, i)' <=> Writes(u, n, i)) /\ (Reads(u, n, i)' <=> Reads(u, n, i))
  OBVIOUS
<1>2. pc'[u] = IF u = t THEN x ELSE pc[u]
  BY StepsTo
<1>3. CASE u = t
  BY <1>2, <1>3 DEF Busy, Closes, Moves, Writes, Reads
<1>4. CASE u # t
  BY <1>2, <1>4 DEF Closes, Moves, Writes, Reads
<1> QED BY <1>3, <1>4

\* Such a step leaves the slots and the nodes as they are.
LEMMA QuietKeeps ==
  ASSUME QueueInv, NEW t \in Pushers \cup Poppers, NEW x \in QueueSteps, Steps(t, x),
         UNCHANGED <<tool, node, nodes, qtail, qhead, got>>,
         pc[t].at \notin Busy, x.at \notin Busy,
         x.at = "index" => x.node \in 1 .. qtail /\ sent'[t] > 0,
         x.at = "take" => x.node \in 1 .. qhead,
         \A p \in Pushers : sent'[p] \in Int /\ sent[p] <= sent'[p],
         x.at = "index" /\ t \in Pushers => pc[t].at = "index" \/ sent[t] < sent'[t]
  PROVE  NodesInRow' /\ LastSlots' /\ Pushed' /\ Popped'
<1> USE QueueAssumption DEF QueueAssumption
<1>1. QueueTypes
  BY DEF QueueInv
<1>2. \A u \in Pushers \cup Poppers :
        /\ Closes(u)' <=> Closes(u)
        /\ Moves(u)' <=> Moves(u)
        /\ u # t => pc'[u] = pc[u]
        /\ pc'[u].at = "tail" <=> pc[u].at = "tail"
        /\ \A n, i : (Writes(u, n, i)' <=> Writes(u, n, i)) /\ (Reads(u, n, i)' <=> Reads(u, n, i))
  BY <1>1, QuietSteps
<1>3. pc'[t] = x
  BY <1>1, StepsTo
<1>4. NodesInRow'
  BY DEF QueueInv, NodesInRow
<1>5. LastSlots'
  <2>1. \A p \in Pushers : Closes(p) => p # t /\ pc'[p].node = pc[p].node
    BY <1>2 DEF Closes, Busy
  <2>2. \A c \in Poppers : Moves(c) => c # t /\ pc'[c].node = pc[c].node
    BY <1>2 DEF Moves, Busy
  <2> QED BY <1>2, <2>1, <2>2 DEF QueueInv, LastSlots
<1>6. WritersPlaced'
  <2>1. SUFFICES ASSUME NEW p \in Pushers
                 PROVE  /\ pc'[p].at \in {"index", "write"} => pc'[p].node \in 1 .. qtail /\ sent'[p] > 0
                        /\ pc'[p].at = "write" =>
                             /\ pc'[p].index < node[pc'[p].node]._head
                             /\ node[pc'[p].node].slots[pc'[p].index] = Queue!NULL
    BY DEF WritersPlaced, Slot
  <2>2. CASE p = t
    BY <1>3, <2>2 DEF Busy
  <2>3. CASE p # t
    <3>1. pc'[p] = pc[p] /\ sent[p] \in 0 .. MaxItems
      BY <1>1, <1>2, <2>3 DEF QueueTypes
    <3> QED BY <3>1 DEF QueueInv, Pushed, WritersPlaced, Slot
  <2> QED BY <2>2, <2>3
<1>7. WritersApart'
  BY <1>2 DEF QueueInv, Pushed, WritersApart
<1>8. SlotsFilled'
  BY <1>2 DEF QueueInv, Pushed, SlotsFilled, Slot
<1>9. ItemsSent'
  <2>1. SUFFICES ASSUME NEW n \in Queue!Nodes, NEW i \in Queue!Slots, NEW p \in Pushers,
                        NEW k \in 1 .. MaxItems, HasItem(n, i, p, k)
                 PROVE  k <= sent'[p] /\ (pc'[p].at \in {"index", "write"} => k < sent'[p])
    BY DEF ItemsSent, HasItem, Slot
  <2>2. k <= sent[p] /\ (pc[p].at \in {"index", "write"} => k < sent[p])
    BY <2>1 DEF QueueInv, Pushed, ItemsSent
  <2>3. sent[p] \in 0 .. MaxItems
    BY <1>1 DEF QueueTypes
  <2>4. CASE p = t
    BY <1>3, <2>2, <2>3, <2>4 DEF Busy
  <2>5. CASE p # t
    BY <1>2, <2>2, <2>3, <2>5
  <2> QED BY <2>4, <2>5
<1>10. ItemsOrdered'
  BY <1>2 DEF QueueInv, Pushed, ItemsOrdered, HasItem, Slot
<1>11. ReadersPlaced'
  <2>1. SUFFICES ASSUME NEW c \in Poppers
                 PROVE  /\ pc'[c].at \in {"take", "read"} => pc'[c].node \in 1 .. qhead
                        /\ pc'[c].at = "read" => pc'[c].index < node[pc'[c].node]._tail
                        /\ pc'[c].at = "move" => node[qhead].slots[Queue!LastSlot] # Queue!NULL
    BY DEF ReadersPlaced, Slot
  <2>2. CASE c = t
    BY <1>3, <2>2 DEF Busy
  <2>3. CASE c # t
    BY <1>2, <2>3 DEF QueueInv, Popped, ReadersPlaced, Slot
  <2> QED BY <2>2, <2>3
<1>12. ReadersApart'
  BY <1>2 DEF QueueInv, Popped, ReadersApart
<1>13. GotRead' /\ GotOrdered'
  <2>1. \A n \in Queue!Nodes, i \in Queue!Slots : \A e : ReadFrom(n, i, e) => ReadFrom(n, i, e)'
    BY <1>2 DEF ReadFrom, Slot
  <2>2. GotRead'
    BY <2>1 DEF QueueInv, Popped, GotRead
  <2>3. GotOrdered'
    BY <1>2 DEF QueueInv, Popped, GotOrdered, Handling, Slot
  <2> QED BY <2>2, <2>3
<1>14. IsInjective(got)'
  BY DEF QueueInv, Popped
<1> QED BY <1>4, <1>5, <1>6, <1>7, <1>8, <1>9, <1>10, <1>11, <1>12, <1>13, <1>14 DEF Pushed, Popped

\* What pushers do does not disturb those who pop, nor the other way round.
LEMMA PopsKept ==
  ASSUME Popped, UNCHANGED <<tool, qhead, got>>, qhead \in Queue!Nodes,
         \A c \in Poppers : pc'[c] = pc[c],
         \A n \in Queue!Nodes : node'[n]._tail = node[n]._tail,
         \A n \in Queue!Nodes, i \in Queue!Slots : Slot(n, i) # Queue!NULL => Slot(n, i)' = Slot(n, i),
         \A n \in Queue!Nodes, i \in Queue!Slots, k \in DOMAIN got :
           Slot(n, i)' = got[k] => Slot(n, i) = got[k],
         \A k \in DOMAIN got : got[k] # Queue!NULL,
         Queue!LastSlot \in Queue!Slots, Poppers \cap Pushers = {},
         \A c \in Poppers : pc[c].index \in Queue!Slots,
         NEW last \in Nat, Queue!Nodes = 1 .. last
  PROVE  Popped'
<1>1. \A c \in Poppers : \A n, i : Reads(c, n, i)' <=> Reads(c, n, i)
  BY DEF Reads
<1>2. ReadersPlaced'
  <2>1. SUFFICES ASSUME NEW c \in Poppers
                 PROVE  /\ pc[c].at \in {"take", "read"} => pc[c].node \in 1 .. qhead
                        /\ pc[c].at = "read" => pc[c].index < node'[pc[c].node]._tail
                        /\ pc[c].at = "move" => Slot(qhead, Queue!LastSlot)' # Queue!NULL
    BY DEF ReadersPlaced, Slot
  <2>2. /\ pc[c].at \in {"take", "read"} => pc[c].node \in 1 .. qhead
        /\ pc[c].at = "read" => pc[c].index < node[pc[c].node]._tail
        /\ pc[c].at = "move" => Slot(qhead, Queue!LastSlot) # Queue!NULL
    BY DEF Popped, ReadersPlaced
  <2>3. Slot(qhead, Queue!LastSlot) # Queue!NULL =>
          node'[qhead].slots[Queue!LastSlot] = Slot(qhead, Queue!LastSlot)
    BY DEF Slot
  <2>4. qhead \in Int /\ 1 .. qhead \subseteq Queue!Nodes
    OBVIOUS
  <2> QED BY <2>2, <2>3, <2>4 DEF Slot
<1>3. ReadersApart'
  BY <1>1 DEF Popped, ReadersApart
<1>4. GotRead'
  <2>1. SUFFICES ASSUME NEW k \in DOMAIN got
                 PROVE  \E n \in Queue!Nodes, i \in Queue!Slots : ReadFrom(n, i, got[k])'
    BY DEF GotRead, ReadFrom, Slot
  <2>2. PICK n \in Queue!Nodes, i \in Queue!Slots : ReadFrom(n, i, got[k])
    BY DEF Popped, GotRead
  <2>3. ReadFrom(n, i, got[k])'
    BY <1>1, <2>2 DEF ReadFrom
  <2> QED BY <2>3
<1>5. GotOrdered'
  <2>1. SUFFICES ASSUME Handling, NEW n \in Queue!Nodes, NEW m \in Queue!Nodes, NEW i \in Queue!Slots,
                        NEW j \in Queue!Slots, NEW k \in DOMAIN got, Slot(n, i)' = got[k]
                 PROVE  /\ \A l \in DOMAIN got : k < l /\ Slot(m, j)' = got[l] => Before(n, i, m, j)
                        /\ \A c \in Poppers : Reads(c, m, j) => Before(n, i, m, j)
    BY <1>1 DEF GotOrdered, Handling, Before
  <2>2. Slot(n, i) = got[k]
    BY <2>1
  <2> QED BY <2>1, <2>2 DEF Popped, GotOrdered
<1> QED BY <1>2, <1>3, <1>4, <1>5 DEF Popped

LEMMA PushesKept ==
  ASSUME Pushed, UNCHANGED sent, qtail \in Int, qtail' \in Int, qtail <= qtail',
         \A p \in Pushers :
           /\ pc[p].at \in {"index", "write"} \/ pc'[p].at \in {"index", "write"} => pc'[p] = pc[p]
           /\ pc[p].at = "write" => pc[p].node \in Queue!Nodes,
         \A n \in Queue!Nodes : node'[n]._head = node[n]._head /\ node'[n].slots = node[n].slots
  PROVE  Pushed'
<1>1. \A p \in Pushers : \A n, i : Writes(p, n, i)' <=> Writes(p, n, i)
  BY DEF Writes
<1>2. WritersPlaced'
  <2>1. SUFFICES ASSUME NEW p \in Pushers, pc'[p].at \in {"index", "write"}
                 PROVE  /\ pc'[p].node \in 1 .. qtail' /\ sent[p] > 0
                        /\ pc'[p].at = "write" =>
                             /\ pc'[p].index < node'[pc'[p].node]._head
                             /\ node'[pc'[p].node].slots[pc'[p].index] = Queue!NULL
    BY DEF WritersPlaced, Slot
  <2>2. pc'[p] = pc[p]
    BY <2>1
  <2>3. /\ pc[p].node \in 1 .. qtail /\ sent[p] > 0
        /\ pc[p].at = "write" =>
             /\ pc[p].index < node[pc[p].node]._head
             /\ node[pc[p].node].slots[pc[p].index] = Queue!NULL
    BY <2>1, <2>2 DEF Pushed, WritersPlaced, Slot
  <2> QED BY <2>2, <2>3
<1>3. WritersApart'
  BY <1>1 DEF Pushed, WritersApart
<1>4. SlotsFilled'
  BY <1>1 DEF Pushed, SlotsFilled, Slot
<1>5. ItemsSent'
  BY DEF Pushed, ItemsSent, HasItem, Slot
<1>6. ItemsOrdered'
  BY <1>1 DEF Pushed, ItemsOrdered, HasItem, Slot
<1> QED BY <1>2, <1>3, <1>4, <1>5, <1>6 DEF Pushed

LEMMA Extent ==
  /\ SQUEUE_NODE_SIZE \in Nat \ {0}
  /\ Queue!Slots = 0 .. (SQUEUE_NODE_SIZE - 1) /\ Queue!LastSlot = SQUEUE_NODE_SIZE - 1
  /\ Queue!LastSlot \in Queue!Slots
  /\ \E last \in Nat : Queue!Nodes = 1 .. last /\ 1 \in 1 .. last
  /\ \A e \in Queue!Items : e # Queue!NULL
  /\ Poppers \cap Pushers = {}
<1> USE QueueAssumption DEF QueueAssumption
<1>1. SQUEUE_NODE_SIZE \in Nat \ {0} /\ Poppers \cap Pushers = {}
  OBVIOUS
<1>2. Queue!LastSlot = SQUEUE_NODE_SIZE - 1
  BY DEF Queue!LastSlot
<1>3. Queue!Slots = 0 .. (SQUEUE_NODE_SIZE - 1)
  BY <1>2 DEF Queue!Slots
<1>4. Queue!LastSlot \in Queue!Slots
  BY <1>1, <1>2, <1>3
<1>5. \E last \in Nat : Queue!Nodes = 1 .. last /\ 1 \in 1 .. last
  <2>1. Queue!Cardinality(Pushers) = Cardinality(Pushers)
    BY DEF Queue!Cardinality, Cardinality
  <2>2. PICK n : n = Cardinality(Pushers) * MaxItems
    OBVIOUS
  <2>3. n \in Nat
    BY <2>2, FS_CardinalityType
  <2>4. (n \div SQUEUE_NODE_SIZE) \in Nat
    BY ONLY <2>3, <1>1
  <2>5. Queue!Nodes = 1 .. ((n \div SQUEUE_NODE_SIZE) + 1)
    BY <2>1, <2>2 DEF Queue!Nodes
  <2> QED BY <2>4, <2>5
<1>6. \A e \in Queue!Items : e # Queue!NULL
  BY DEF Queue!Items, Queue!NULL
<1> QED BY <1>1, <1>2, <1>3, <1>4, <1>5, <1>6

\* What the types say of nodes and threads.
LEMMA NodeTypes ==
  ASSUME QueueTypes
  PROVE  /\ \A n \in Queue!Nodes :
              /\ node[n]._head \in 0 .. SQUEUE_NODE_SIZE /\ node[n]._tail \in 0 .. SQUEUE_NODE_SIZE
              /\ node[n]._next \in Queue!Nodes \cup {0}
              /\ \A i \in Queue!Slots : Slot(n, i) \in Queue!Items \cup {Queue!NULL}
         /\ nodes \in Queue!Nodes /\ qtail \in Queue!Nodes /\ qhead \in Queue!Nodes
         /\ qhead <= qtail /\ qtail <= nodes
         /\ \A n \in Queue!Nodes : n \in Int /\ 1 <= n
         /\ \A t \in Pushers \cup Poppers :
              pc[t] \in QueueSteps /\ pc[t].index \in Queue!Slots /\ pc[t].node \in Queue!Nodes \cup {0}
         /\ \A p \in Pushers : sent[p] \in 0 .. MaxItems
         /\ DOMAIN got \subseteq Nat /\ \A k \in DOMAIN got : got[k] \in Queue!Items
<1>1. PICK last \in Nat : Queue!Nodes = 1 .. last
  BY Extent
<1>2. \A n \in Queue!Nodes : node[n] \in QueueNodes
  BY DEF QueueTypes
<1>3. \A n \in Queue!Nodes :
        /\ node[n]._head \in 0 .. SQUEUE_NODE_SIZE /\ node[n]._tail \in 0 .. SQUEUE_NODE_SIZE
        /\ node[n]._next \in Queue!Nodes \cup {0}
        /\ \A i \in Queue!Slots : Slot(n, i) \in Queue!Items \cup {Queue!NULL}
  BY <1>2 DEF QueueNodes, Slot
<1>4. /\ nodes \in Queue!Nodes /\ qtail \in Queue!Nodes /\ qhead \in Queue!Nodes
      /\ qhead <= qtail /\ qtail <= nodes
      /\ \A n \in Queue!Nodes : n \in Int /\ 1 <= n
  BY <1>1 DEF QueueTypes
<1>5. \A t \in Pushers \cup Poppers :
        pc[t] \in QueueSteps /\ pc[t].index \in Queue!Slots /\ pc[t].node \in Queue!Nodes \cup {0}
  <2>1. \A t \in Pushers \cup Poppers : pc[t] \in QueueSteps
    BY DEF QueueTypes
  <2> QED BY <2>1 DEF QueueSteps
<1>6. \A p \in Pushers : sent[p] \in 0 .. MaxItems
  BY DEF QueueTypes
<1>7. DOMAIN got \subseteq Nat /\ \A k \in DOMAIN got : got[k] \in Queue!Items
  BY DEF QueueTypes
<1> QED BY <1>3, <1>4, <1>5, <1>6, <1>7

\* A pusher counts the next slot of the tail.
LEMMA PushIndexKeeps ==
  ASSUME QueueInv, UNCHANGED tool, NEW p \in Pushers, Queue!PushIndex(p),
         node[pc[p].node]._head < SQUEUE_NODE_SIZE
  PROVE  NodesInRow' /\ LastSlots' /\ Pushed' /\ Popped'
<1> DEFINE i == node[pc[p].node]._head
<1>t. QueueTypes
  BY DEF QueueInv
<1>e. /\ SQUEUE_NODE_SIZE \in Nat \ {0} /\ Queue!Slots = 0 .. (SQUEUE_NODE_SIZE - 1)
      /\ Queue!LastSlot = SQUEUE_NODE_SIZE - 1 /\ Queue!LastSlot \in Queue!Slots
      /\ Poppers \cap Pushers = {}
  BY Extent
<1>1. pc[p].node \in 1 .. qtail /\ pc[p].at = "index" /\ sent[p] > 0
  BY DEF QueueInv, Pushed, WritersPlaced, Queue!PushIndex, Queue!At
<1>2. pc[p].node = qtail
  <2>1. pc[p].node \in Queue!Nodes /\ qtail \in Queue!Nodes
    BY <1>t, <1>1, NodeTypes, Extent
  <2>2. pc[p].node < qtail => node[pc[p].node]._head = SQUEUE_NODE_SIZE
    BY <2>1 DEF QueueInv, NodesInRow
  <2>3. node[pc[p].node]._head \in Int /\ pc[p].node \in Int /\ qtail \in Int
    BY <1>t, <2>1, NodeTypes
  <2> QED BY <1>1, <1>e, <2>2, <2>3
<1>3. i \in Queue!Slots /\ i = node[qtail]._head
  BY <1>t, <1>e, <1>2, NodeTypes
<1>4. \A n \in Queue!Nodes :
        /\ node'[n].slots = node[n].slots /\ node'[n]._tail = node[n]._tail /\ node'[n]._next = node[n]._next
        /\ node'[n]._head = IF n = qtail THEN i + 1 ELSE node[n]._head
  <2>1. node' = [node EXCEPT ![qtail]._head = i + 1]
    BY <1>2, <1>3, <1>e DEF Queue!PushIndex, Queue!CountUp
  <2>2. \A n \in Queue!Nodes : node[n] \in QueueNodes
    BY <1>t DEF QueueTypes
  <2>3. node \in [Queue!Nodes -> QueueNodes]
    BY <1>t DEF QueueTypes
  <2> QED BY ONLY <2>1, <2>2, <2>3 DEF QueueNodes
<1>5. /\ pc'[p].at = "write" /\ pc'[p].index = i /\ pc'[p].node = qtail
      /\ \A u \in Pushers \cup Poppers : u # p => pc'[u] = pc[u]
  <2>1. pc' = [pc EXCEPT ![p] = [pc[p] EXCEPT !.at = "write", !.index = i]]
    BY <1>3, <1>e DEF Queue!PushIndex
  <2>2. pc \in [Pushers \cup Poppers -> QueueSteps] /\ pc[p] \in QueueSteps
    BY <1>t DEF QueueTypes
  <2> QED BY ONLY <2>1, <2>2, <1>2 DEF QueueSteps
<1>6. UNCHANGED <<nodes, qtail, qhead, sent, got>>
  BY DEF Queue!PushIndex, Queue!queue
<1>7. \A q \in Pushers : ~Closes(q)
  BY <1>3, <1>e DEF QueueInv, LastSlots
<1>8. \A q \in Pushers : Closes(q)' <=> q = p /\ i = Queue!LastSlot
  <2>1. SUFFICES ASSUME NEW q \in Pushers PROVE Closes(q)' <=> q = p /\ i = Queue!LastSlot
    OBVIOUS
  <2>2. CASE q = p
    BY <1>5, <2>2 DEF Closes
  <2>3. CASE q # p
    BY <1>5, <1>7, <2>3 DEF Closes
  <2> QED BY <2>2, <2>3
<1>9. \A c \in Poppers : pc'[c] = pc[c] /\ (Moves(c)' <=> Moves(c))
  BY <1>5, <1>e DEF Moves
<1>10. NodesInRow'
  <2>1. \A n \in Queue!Nodes : node[n]._tail <= node[n]._head
    BY DEF QueueInv, NodesInRow
  <2>2. \A n \in Queue!Nodes : node[n]._head \in Int /\ node[n]._tail \in Int /\ i \in Int
    BY <1>t, <1>3, <1>e, NodeTypes
  <2>3. \A n \in Queue!Nodes : node'[n]._tail <= node'[n]._head
    BY <1>3, <1>4, <2>1, <2>2
  <2> QED BY <1>4, <1>6, <2>3, <1>t, NodeTypes DEF QueueInv, NodesInRow
<1>11. LastSlots'
  <2>1. \A q \in Pushers : pc'[q].at # "tail" /\ pc[q].at # "tail"
    BY <1>5, <1>7 DEF Closes
  <2>2. node'[qtail]._head = SQUEUE_NODE_SIZE <=> i = Queue!LastSlot
    BY <1>t, <1>3, <1>4, <1>e, NodeTypes
  <2>3. node'[qhead]._tail = node[qhead]._tail
    BY <1>t, <1>4, NodeTypes
  <2>4. \A q \in Pushers : Closes(q)' => pc'[q].node = qtail
    BY <1>5, <1>8
  <2>5. \A q, r \in Pushers : Closes(q)' /\ Closes(r)' => q = r
    BY <1>8
  <2>6. node'[qtail]._head = SQUEUE_NODE_SIZE <=> \E q \in Pushers : Closes(q)'
    BY <1>8, <2>2
  <2> QED BY <1>6, <1>9, <2>1, <2>3, <2>4, <2>5, <2>6 DEF QueueInv, LastSlots
<1>12. \A q \in Pushers : \A n, j : Writes(q, n, j)' <=> Writes(q, n, j) \/ (q = p /\ n = qtail /\ j = i)
  <2>1. SUFFICES ASSUME NEW q \in Pushers, NEW n, NEW j
                 PROVE  Writes(q, n, j)' <=> Writes(q, n, j) \/ (q = p /\ n = qtail /\ j = i)
    OBVIOUS
  <2>2. CASE q = p
    BY <1>1, <1>5, <2>2 DEF Writes
  <2>3. CASE q # p
    BY <1>5, <2>3 DEF Writes
  <2> QED BY <2>2, <2>3
<1>13. Slot(qtail, i) = Queue!NULL
  <2>1. i >= node[qtail]._head /\ qtail \in Queue!Nodes
    BY <1>t, <1>3, <1>e, NodeTypes
  <2> QED BY <1>3, <2>1 DEF QueueInv, Pushed, SlotsFilled
<1>14. \A n, j : Slot(n, j)' = Slot(n, j) \/ n \notin Queue!Nodes
  BY <1>4 DEF Slot
<1>15. WritersPlaced'
  <2>1. SUFFICES ASSUME NEW q \in Pushers
                 PROVE  /\ pc'[q].at \in {"index", "write"} => pc'[q].node \in 1 .. qtail /\ sent[q] > 0
                        /\ pc'[q].at = "write" =>
                             /\ pc'[q].index < node'[pc'[q].node]._head
                             /\ node'[pc'[q].node].slots[pc'[q].index] = Queue!NULL
    BY <1>6 DEF WritersPlaced, Slot
  <2>2. CASE q = p
    <3>1. node'[qtail]._head = i + 1 /\ node'[qtail].slots = node[qtail].slots /\ qtail \in 1 .. qtail
      BY <1>t, <1>4, NodeTypes
    <3> QED BY <1>1, <1>3, <1>e, <1>5, <1>13, <2>2, <3>1 DEF Slot
  <2>3. CASE q # p
    <3>1. /\ pc[q].at \in {"index", "write"} => pc[q].node \in 1 .. qtail /\ sent[q] > 0
          /\ pc[q].at = "write" =>
               /\ pc[q].index < node[pc[q].node]._head
               /\ node[pc[q].node].slots[pc[q].index] = Queue!NULL
      BY DEF QueueInv, Pushed, WritersPlaced, Slot
    <3>2. pc[q].at = "write" => pc[q].node \in Queue!Nodes /\ pc[q].index \in Int
      BY <1>t, <1>e, <3>1, NodeTypes, Extent
    <3>3. pc'[q] = pc[q]
      BY <1>5, <2>3
    <3>4. \A n \in Queue!Nodes : node[n]._head <= node'[n]._head /\ node'[n].slots = node[n].slots
                                /\ node[n]._head \in Int /\ node'[n]._head \in Int
      BY <1>t, <1>3, <1>e, <1>4, NodeTypes
    <3>5. pc[q].at = "write" =>
            /\ pc[q].index < node'[pc[q].node]._head
            /\ node'[pc[q].node].slots[pc[q].index] = Queue!NULL
      BY ONLY <3>1, <3>2, <3>4
    <3> QED BY ONLY <3>1, <3>3, <3>5
  <2> QED BY <2>2, <2>3
<1>16. WritersApart'
  <2>1. \A q \in Pushers : ~Writes(q, qtail, i)
    BY <1>t, <1>3, <1>e, NodeTypes DEF QueueInv, Pushed, WritersPlaced, Writes
  <2> QED BY <1>12, <2>1 DEF QueueInv, Pushed, WritersApart
<1>17. SlotsFilled'
  <2>1. SUFFICES ASSUME NEW n \in Queue!Nodes, NEW j \in Queue!Slots
                 PROVE  /\ j >= node'[n]._head => Slot(n, j)' = Queue!NULL
                        /\ j < node'[n]._head /\ Slot(n, j)' = Queue!NULL => \E q \in Pushers : Writes(q, n, j)'
    BY DEF SlotsFilled
  <2>2. /\ j >= node[n]._head => Slot(n, j) = Queue!NULL
        /\ j < node[n]._head /\ Slot(n, j) = Queue!NULL => \E q \in Pushers : Writes(q, n, j)
    BY DEF QueueInv, Pushed, SlotsFilled
  <2>3. Slot(n, j)' = Slot(n, j) /\ j \in Int /\ i \in Int /\ node[n]._head \in Int
    BY <1>t, <1>14, <1>3, <1>e, NodeTypes
  <2>4. CASE n = qtail
    <3>1. node'[n]._head = i + 1 /\ node[n]._head = i
      BY <1>3, <1>4, <2>4
    <3>2. CASE j = i
      BY <1>12, <2>3, <2>4, <3>1, <3>2
    <3>3. CASE j # i
      BY <1>12, <2>2, <2>3, <2>4, <3>1, <3>3
    <3> QED BY <3>2, <3>3
  <2>5. CASE n # qtail
    BY <1>4, <1>12, <2>2, <2>3, <2>5
  <2> QED BY <2>4, <2>5
<1>18. ItemsSent'
  <2>1. \A q \in Pushers : pc'[q].at \in {"index", "write"} => pc[q].at \in {"index", "write"}
    BY <1>1, <1>5
  <2> QED BY <1>6, <1>14, <2>1 DEF QueueInv, Pushed, ItemsSent, HasItem
<1>19. ItemsOrdered'
  <2>1. \A n \in Queue!Nodes, j \in Queue!Slots, k \in 1 .. MaxItems :
          HasItem(n, j, p, k) => Before(n, j, qtail, i)
    <3>1. SUFFICES ASSUME NEW n \in Queue!Nodes, NEW j \in Queue!Slots, NEW k \in 1 .. MaxItems,
                          HasItem(n, j, p, k)
                   PROVE  Before(n, j, qtail, i)
      OBVIOUS
    <3>2. Slot(n, j) # Queue!NULL
      BY <3>1 DEF HasItem, Queue!NULL
    <3>3. j < node[n]._head
      BY <1>t, <1>e, <3>2, NodeTypes DEF QueueInv, Pushed, SlotsFilled
    <3>4. ~(n > qtail)
      BY <1>t, <1>e, <3>3 DEF QueueInv, NodesInRow
    <3> QED BY <1>t, <1>3, <3>3, <3>4, NodeTypes DEF Before
  <2> QED BY <1>12, <1>14, <2>1 DEF QueueInv, Pushed, ItemsOrdered, HasItem, Before
<1>20. Popped'
  <2>1. PICK last \in Nat : Queue!Nodes = 1 .. last
    BY Extent
  <2>2. \A k \in DOMAIN got : got[k] # Queue!NULL
    BY <1>t, NodeTypes, Extent
  <2>3. \A c \in Poppers : pc[c].index \in Queue!Slots
    BY <1>t, NodeTypes
  <2>4. \A n \in Queue!Nodes, j \in Queue!Slots : Slot(n, j)' = Slot(n, j)
    BY <1>14
  <2>5. Popped /\ qhead \in Queue!Nodes /\ \A n \in Queue!Nodes : node'[n]._tail = node[n]._tail
    BY <1>t, <1>4, NodeTypes DEF QueueInv
  <2> QED BY <1>6, <1>9, <1>e, <2>1, <2>2, <2>3, <2>4, <2>5, PopsKept
<1> QED BY <1>10, <1>11, <1>15, <1>16, <1>17, <1>18, <1>19, <1>20 DEF Pushed

\* A pusher writes its item into the slot that it counted.
LEMMA PushWriteKeeps ==
  ASSUME QueueInv, UNCHANGED tool, NEW p \in Pushers, Queue!PushWrite(p)
  PROVE  NodesInRow' /\ LastSlots' /\ Pushed' /\ Popped'
<1> DEFINE n == pc[p].node
           i == pc[p].index
           k == sent[p]
<1>t. QueueTypes
  BY DEF QueueInv
<1>e. /\ SQUEUE_NODE_SIZE \in Nat \ {0} /\ Queue!Slots = 0 .. (SQUEUE_NODE_SIZE - 1)
      /\ Queue!LastSlot = SQUEUE_NODE_SIZE - 1 /\ Queue!LastSlot \in Queue!Slots
      /\ Poppers \cap Pushers = {}
  BY Extent
<1>1. /\ pc[p].at = "write" /\ n \in 1 .. qtail /\ sent[p] > 0
      /\ i < node[n]._head /\ Slot(n, i) = Queue!NULL
  BY DEF QueueInv, Pushed, WritersPlaced, Queue!PushWrite, Queue!At
<1>2. n \in Queue!Nodes /\ i \in Queue!Slots /\ k \in 1 .. MaxItems
  BY <1>t, <1>1, NodeTypes, Extent
<1>3. UNCHANGED <<nodes, qtail, qhead, sent, got>>
  BY DEF Queue!PushWrite, Queue!queue
<1>4. /\ \A m \in Queue!Nodes :
           node'[m]._tail = node[m]._tail /\ node'[m]._next = node[m]._next /\ node'[m]._head = node[m]._head
      /\ \A m \in Queue!Nodes, j \in Queue!Slots :
           Slot(m, j)' = IF m = n /\ j = i THEN <<p, k>> ELSE Slot(m, j)
  <2>1. PICK e : e = <<p, k>>
    OBVIOUS
  <2>2. node' = [node EXCEPT ![n].slots[i] = e]
    BY <2>1 DEF Queue!PushWrite
  <2>3. \A m \in Queue!Nodes : node[m] \in QueueNodes
    BY <1>t DEF QueueTypes
  <2>4. node \in [Queue!Nodes -> QueueNodes]
    BY <1>t DEF QueueTypes
  <2>5. \A m \in Queue!Nodes :
          node'[m] = IF m = n THEN [node[n] EXCEPT !.slots = [node[n].slots EXCEPT ![i] = e]] ELSE node[m]
    BY ONLY <2>2, <2>4, <1>2
  <2>6. \A m \in Queue!Nodes :
          /\ node'[m]._tail = node[m]._tail /\ node'[m]._next = node[m]._next /\ node'[m]._head = node[m]._head
          /\ node'[m].slots = IF m = n THEN [node[n].slots EXCEPT ![i] = e] ELSE node[m].slots
    BY ONLY <2>3, <2>5 DEF QueueNodes
  <2>7. \A m \in Queue!Nodes : DOMAIN node[m].slots = Queue!Slots
    BY ONLY <2>3 DEF QueueNodes
  <2>8. \A m \in Queue!Nodes, j \in Queue!Slots :
          node'[m].slots[j] = IF m = n /\ j = i THEN e ELSE node[m].slots[j]
    BY ONLY <2>6, <2>7, <1>2
  <2> QED BY <2>1, <2>6, <2>8 DEF Slot
<1>5. /\ pc'[p].at = IF i = Queue!LastSlot THEN "link" ELSE "count"
      /\ pc'[p].node = n
      /\ \A u \in Pushers \cup Poppers : u # p => pc'[u] = pc[u]
  <2>1. pc' = [pc EXCEPT ![p].at = IF i = Queue!LastSlot THEN "link" ELSE "count"]
    BY DEF Queue!PushWrite, Queue!Goes
  <2>2. pc \in [Pushers \cup Poppers -> QueueSteps] /\ pc[p] \in QueueSteps
    BY <1>t DEF QueueTypes
  <2> QED BY ONLY <2>1, <2>2 DEF QueueSteps
<1>6. \A q \in Pushers : /\ Closes(q)' <=> Closes(q)
                         /\ pc'[q].node = pc[q].node
                         /\ pc'[q].at = "tail" <=> pc[q].at = "tail"
  <2>1. SUFFICES ASSUME NEW q \in Pushers
                 PROVE  /\ Closes(q)' <=> Closes(q)
                        /\ pc'[q].node = pc[q].node
                        /\ pc'[q].at = "tail" <=> pc[q].at = "tail"
    OBVIOUS
  <2>2. CASE q = p
    BY <1>1, <1>5, <2>2 DEF Closes
  <2>3. CASE q # p
    BY <1>5, <2>3 DEF Closes
  <2> QED BY <2>2, <2>3
<1>7. \A q \in Pushers : \A m, j : Writes(q, m, j)' <=> Writes(q, m, j) /\ q # p
  <2>1. SUFFICES ASSUME NEW q \in Pushers, NEW m, NEW j
                 PROVE  Writes(q, m, j)' <=> Writes(q, m, j) /\ q # p
    OBVIOUS
  <2>2. CASE q = p
    BY <1>5, <2>2 DEF Writes
  <2>3. CASE q # p
    BY <1>5, <2>3 DEF Writes
  <2> QED BY <2>2, <2>3
<1>8. \A c \in Poppers : pc'[c] = pc[c] /\ (Moves(c)' <=> Moves(c))
  BY <1>5, <1>e DEF Moves
<1>9. Writes(p, n, i)
  BY <1>1 DEF Writes
<1>10. NodesInRow'
  BY <1>3, <1>4 DEF QueueInv, NodesInRow
<1>11. LastSlots'
  BY <1>3, <1>4, <1>6, <1>8, <1>t, NodeTypes DEF QueueInv, LastSlots
<1>12. WritersPlaced'
  <2>1. SUFFICES ASSUME NEW q \in Pushers, pc'[q].at \in {"index", "write"}
                 PROVE  /\ pc'[q].node \in 1 .. qtail /\ sent[q] > 0
                        /\ pc'[q].at = "write" =>
                             /\ pc'[q].index < node'[pc'[q].node]._head
                             /\ node'[pc'[q].node].slots[pc'[q].index] = Queue!NULL
    BY <1>3 DEF WritersPlaced, Slot
  <2>2. q # p /\ pc'[q] = pc[q]
    BY <1>5, <2>1
  <2>3. /\ pc[q].node \in 1 .. qtail /\ sent[q] > 0
        /\ pc[q].at = "write" =>
             /\ pc[q].index < node[pc[q].node]._head
             /\ Slot(pc[q].node, pc[q].index) = Queue!NULL
    BY <2>1, <2>2 DEF QueueInv, Pushed, WritersPlaced
  <2>4. pc[q].node \in Queue!Nodes /\ pc[q].index \in Queue!Slots
    BY <1>t, <2>3, NodeTypes, Extent
  <2>5. pc[q].at = "write" => ~(pc[q].node = n /\ pc[q].index = i)
    BY <1>9, <1>2, <2>2 DEF QueueInv, Pushed, WritersApart, Writes
  <2>6. pc[q].at = "write" => Slot(pc[q].node, pc[q].index) = node'[pc[q].node].slots[pc[q].index]
    BY <1>4, <2>4, <2>5 DEF Slot
  <2> QED BY <1>4, <2>2, <2>3, <2>4, <2>6
<1>13. WritersApart'
  BY <1>7 DEF QueueInv, Pushed, WritersApart
<1>14. SlotsFilled'
  <2>1. SUFFICES ASSUME NEW m \in Queue!Nodes, NEW j \in Queue!Slots
                 PROVE  /\ j >= node'[m]._head => Slot(m, j)' = Queue!NULL
                        /\ j < node'[m]._head /\ Slot(m, j)' = Queue!NULL => \E q \in Pushers : Writes(q, m, j)'
    BY DEF SlotsFilled
  <2>2. /\ j >= node[m]._head => Slot(m, j) = Queue!NULL
        /\ j < node[m]._head /\ Slot(m, j) = Queue!NULL => \E q \in Pushers : Writes(q, m, j)
    BY DEF QueueInv, Pushed, SlotsFilled
  <2>3. CASE m = n /\ j = i
    <3>1. ~(j >= node'[m]._head) /\ Slot(m, j)' # Queue!NULL
      <4>1. <<p, k>> # Queue!NULL
        BY DEF Queue!NULL
      <4>2. node'[m]._head = node[n]._head /\ node[n]._head \in Int /\ j \in Int
        BY <1>t, <1>2, <1>e, <1>4, <2>3, NodeTypes
      <4> QED BY <1>1, <1>4, <2>3, <4>1, <4>2
    <3> QED BY <3>1
  <2>4. CASE ~(m = n /\ j = i)
    <3>1. ~Writes(p, m, j)
      BY <2>4 DEF Writes
    <3> QED BY <1>4, <1>7, <2>2, <2>4, <3>1
  <2> QED BY <2>3, <2>4
<1>15. ItemsSent'
  <2>1. SUFFICES ASSUME NEW m \in Queue!Nodes, NEW j \in Queue!Slots, NEW q \in Pushers,
                        NEW l \in 1 .. MaxItems, HasItem(m, j, q, l)'
                 PROVE  l <= sent[q] /\ (pc'[q].at \in {"index", "write"} => l < sent[q])
    BY <1>3 DEF ItemsSent
  <2>2. CASE m = n /\ j = i
    <3>1. q = p /\ l = k
      BY <1>4, <2>1, <2>2 DEF HasItem
    <3> QED BY <1>5, <3>1
  <2>3. CASE ~(m = n /\ j = i)
    <3>1. HasItem(m, j, q, l)
      BY <1>4, <2>1, <2>3 DEF HasItem
    <3>2. l <= sent[q] /\ (pc[q].at \in {"index", "write"} => l < sent[q])
      BY <3>1 DEF QueueInv, Pushed, ItemsSent
    <3> QED BY <1>5, <3>2
  <2> QED BY <2>2, <2>3
<1>16. \A m \in Queue!Nodes, j \in Queue!Slots, l \in 1 .. MaxItems :
         HasItem(m, j, p, l) => Before(m, j, n, i) /\ l < k
  BY <1>1, <1>2, <1>9 DEF QueueInv, Pushed, ItemsOrdered, ItemsSent
<1>17. ItemsOrdered'
  <2>1. SUFFICES ASSUME NEW a \in Queue!Nodes, NEW m \in Queue!Nodes, NEW b \in Queue!Slots, NEW j \in Queue!Slots,
                        NEW q \in Pushers, NEW l \in 1 .. MaxItems, NEW r \in 1 .. MaxItems,
                        HasItem(a, b, q, l)'
                 PROVE  /\ HasItem(m, j, q, r)' /\ Before(a, b, m, j) => l < r
                        /\ Writes(q, m, j)' => Before(a, b, m, j)
    BY DEF ItemsOrdered, Before
  <2>2. \A x \in Queue!Nodes, y \in Queue!Slots, z \in 1 .. MaxItems :
          HasItem(x, y, q, z)' <=> IF x = n /\ y = i THEN q = p /\ z = k ELSE HasItem(x, y, q, z)
    BY <1>4, <1>2 DEF HasItem
  <2>3. CASE HasItem(a, b, q, l)
    <3>1. Writes(q, m, j)' => Before(a, b, m, j)
      BY <1>7, <2>3 DEF QueueInv, Pushed, ItemsOrdered
    <3>2. HasItem(m, j, q, r)' /\ Before(a, b, m, j) => l < r
      <4>1. CASE m = n /\ j = i
        BY <1>16, <2>2, <2>3, <4>1
      <4>2. CASE ~(m = n /\ j = i)
        BY <2>2, <2>3, <4>2 DEF QueueInv, Pushed, ItemsOrdered
      <4> QED BY <4>1, <4>2
    <3> QED BY <3>1, <3>2
  <2>4. CASE ~HasItem(a, b, q, l)
    <3>1. a = n /\ b = i /\ q = p /\ l = k
      BY <2>1, <2>2, <2>4
    <3>2. ~Writes(q, m, j)'
      BY <1>7, <3>1
    <3>3. HasItem(m, j, q, r)' => ~Before(a, b, m, j)
      <4>1. CASE m = n /\ j = i
        BY <1>t, <1>2, <1>e, <3>1, <4>1, NodeTypes DEF Before
      <4>2. CASE ~(m = n /\ j = i)
        <5>1. HasItem(m, j, q, r)' => Before(m, j, a, b)
          BY <1>16, <2>2, <3>1, <4>2
        <5>2. Before(m, j, a, b) => ~Before(a, b, m, j)
          BY <1>t, <1>e, NodeTypes DEF Before
        <5> QED BY <5>1, <5>2
      <4> QED BY <4>1, <4>2
    <3> QED BY <3>2, <3>3
  <2> QED BY <2>3, <2>4
<1>18. Popped'
  <2>1. PICK last \in Nat : Queue!Nodes = 1 .. last
    BY Extent
  <2>2. \A x \in DOMAIN got : got[x] # Queue!NULL
    BY <1>t, NodeTypes, Extent
  <2>3. \A c \in Poppers : pc[c].index \in Queue!Slots
    BY <1>t, NodeTypes
  <2>4. \A m \in Queue!Nodes, j \in Queue!Slots : Slot(m, j) # Queue!NULL => Slot(m, j)' = Slot(m, j)
    BY <1>1, <1>4
  <2>5. \A m \in Queue!Nodes, j \in Queue!Slots, x \in DOMAIN got : Slot(m, j)' = got[x] => Slot(m, j) = got[x]
    <3>1. \A x \in DOMAIN got : got[x] # <<p, k>>
      <4>1. SUFFICES ASSUME NEW x \in DOMAIN got, got[x] = <<p, k>> PROVE FALSE
        OBVIOUS
      <4>2. PICK m \in Queue!Nodes, j \in Queue!Slots : ReadFrom(m, j, got[x])
        BY DEF QueueInv, Popped, GotRead
      <4>3. HasItem(m, j, p, k)
        BY <4>1, <4>2 DEF ReadFrom, HasItem
      <4>4. k < k
        BY <1>2, <1>16, <4>3
      <4> QED BY <1>2, <4>4
    <3> QED BY <1>4, <3>1
  <2>6. Popped /\ qhead \in Queue!Nodes /\ \A m \in Queue!Nodes : node'[m]._tail = node[m]._tail
    BY <1>t, <1>4, NodeTypes DEF QueueInv
  <2> QED BY <1>3, <1>8, <1>e, <2>1, <2>2, <2>3, <2>4, <2>5, <2>6, PopsKept
<1> QED BY <1>10, <1>11, <1>12, <1>13, <1>14, <1>15, <1>17, <1>18 DEF Pushed

\* As many nodes are linked as the items need.
LEMMA RoomForNode ==
  ASSUME NEW s \in Nat \ {0}, NEW q \in Int, NEW n \in Nat, q * s <= n
  PROVE  q <= n \div s
<1>1. PICK d : d = n \div s
  OBVIOUS
<1>2. d \in Int /\ n < (d + 1) * s
  BY <1>1
<1>3. CASE q >= d + 1
  <2>1. q * s >= (d + 1) * s
    BY <1>2, <1>3
  <2>2. PICK a, b : a = q * s /\ b = (d + 1) * s
    OBVIOUS
  <2> QED BY ONLY <1>2, <2>1, <2>2, q * s <= n, n \in Nat, a \in Int, b \in Int
<1> QED BY <1>1, <1>2, <1>3

LEMMA NodeLeft ==
  ASSUME QueueTypes, Begun = Cardinality(BegunItems), node[qtail]._head = SQUEUE_NODE_SIZE
  PROVE  qtail + 1 \in Queue!Nodes
<1> USE QueueAssumption DEF QueueAssumption
<1>1. PICK s, q, n : s = SQUEUE_NODE_SIZE /\ q = qtail /\ n = Cardinality(Pushers) * MaxItems
  OBVIOUS
<1>2. s \in Nat \ {0} /\ q \in Nat \ {0} /\ n \in Nat /\ IsFiniteSet(Pushers)
  BY <1>1, NodeTypes, FS_CardinalityType
<1>3. q * s <= n
  <2>1. IsFiniteSet(1 .. MaxItems) /\ Cardinality(1 .. MaxItems) = MaxItems
    BY FS_Interval
  <2>2. IsFiniteSet(Queue!Items) /\ Cardinality(Queue!Items) = n
    BY <1>1, <2>1, FS_Product DEF Queue!Items
  <2>3. BegunItems \subseteq Queue!Items
    BY DEF BegunItems
  <2>4. Cardinality(BegunItems) <= n
    BY <2>2, <2>3, FS_Subset
  <2>5. Begun = (q - 1) * s + s
    BY <1>1 DEF Begun
  <2>6. Begun = q * s
    BY ONLY <1>2, <2>5
  <2> QED BY <2>4, <2>6
<1>4. q <= n \div s
  BY ONLY <1>2, <1>3, RoomForNode
<1>5. PICK d : d = n \div s
  OBVIOUS
<1>6. d \in Int
  BY ONLY <1>2, <1>5
<1>7. Queue!Cardinality(Pushers) = Cardinality(Pushers)
  BY DEF Queue!Cardinality, Cardinality
<1>8. Queue!Nodes = 1 .. (d + 1)
  BY <1>1, <1>5, <1>7 DEF Queue!Nodes
<1> QED BY <1>1, <1>2, <1>4, <1>5, <1>6, <1>8

\* Who has the last slot links the next node.
LEMMA PushLinkKeeps ==
  ASSUME QueueInv, UNCHANGED tool, NEW p \in Pushers, Queue!PushLink(p)
  PROVE  nodes' \in Queue!Nodes /\ NodesInRow' /\ LastSlots' /\ Pushed' /\ Popped'
<1>t. QueueTypes
  BY DEF QueueInv
<1>e. /\ SQUEUE_NODE_SIZE \in Nat \ {0} /\ Queue!Slots = 0 .. (SQUEUE_NODE_SIZE - 1)
      /\ Queue!LastSlot = SQUEUE_NODE_SIZE - 1 /\ Queue!LastSlot \in Queue!Slots
      /\ Poppers \cap Pushers = {}
  BY Extent
<1>1. pc[p].at = "link" /\ Closes(p)
  BY DEF Queue!PushLink, Queue!At, Closes
<1>2. pc[p].node = qtail /\ node[qtail]._head = SQUEUE_NODE_SIZE /\ nodes = qtail
  <2>1. \A q \in Pushers : pc[q].at # "tail"
    BY <1>1 DEF QueueInv, LastSlots, Closes
  <2> QED BY <1>t, <1>1, <2>1, NodeTypes DEF QueueInv, LastSlots
<1>3. nodes' = qtail + 1 /\ nodes' \in Queue!Nodes
  <2>1. Begun = Cardinality(BegunItems)
    BY DEF QueueInv, Counted
  <2> QED BY <1>t, <1>2, <2>1, NodeLeft DEF Queue!PushLink
<1>4. UNCHANGED <<qtail, qhead, sent, got>>
  BY DEF Queue!PushLink, Queue!queue
<1>5. \A m \in Queue!Nodes :
        /\ node'[m]._tail = node[m]._tail /\ node'[m]._head = node[m]._head /\ node'[m].slots = node[m].slots
        /\ node'[m]._next = IF m = qtail THEN qtail + 1 ELSE node[m]._next
  <2>1. node' = [node EXCEPT ![qtail]._next = qtail + 1]
    BY <1>3 DEF Queue!PushLink
  <2>2. \A m \in Queue!Nodes : node[m] \in QueueNodes
    BY <1>t DEF QueueTypes
  <2>3. node \in [Queue!Nodes -> QueueNodes]
    BY <1>t DEF QueueTypes
  <2> QED BY ONLY <2>1, <2>2, <2>3 DEF QueueNodes
<1>6. /\ pc'[p].at = "tail" /\ pc'[p].node = pc[p].node
      /\ \A u \in Pushers \cup Poppers : u # p => pc'[u] = pc[u]
  <2>1. pc' = [pc EXCEPT ![p].at = "tail"]
    BY DEF Queue!PushLink, Queue!Goes
  <2>2. pc \in [Pushers \cup Poppers -> QueueSteps] /\ pc[p] \in QueueSteps
    BY <1>t DEF QueueTypes
  <2> QED BY ONLY <2>1, <2>2 DEF QueueSteps
<1>7. \A q \in Pushers : (Closes(q)' <=> Closes(q)) /\ pc'[q].node = pc[q].node
  <2>1. SUFFICES ASSUME NEW q \in Pushers PROVE (Closes(q)' <=> Closes(q)) /\ pc'[q].node = pc[q].node
    OBVIOUS
  <2>2. CASE q = p
    BY <1>1, <1>6, <2>2 DEF Closes
  <2>3. CASE q # p
    BY <1>6, <2>3 DEF Closes
  <2> QED BY <2>2, <2>3
<1>8. \A c \in Poppers : pc'[c] = pc[c] /\ (Moves(c)' <=> Moves(c))
  BY <1>6, <1>e DEF Moves
<1>9. NodesInRow'
  <2>1. SUFFICES ASSUME NEW n \in Queue!Nodes
                 PROVE  /\ n < qtail => node'[n]._head = SQUEUE_NODE_SIZE
                        /\ n > qtail => node'[n]._head = 0
                        /\ n < qhead => node'[n]._tail = SQUEUE_NODE_SIZE
                        /\ n > qhead => node'[n]._tail = 0
                        /\ node'[n]._tail <= node'[n]._head
                        /\ n < nodes' => node'[n]._next = n + 1
    BY <1>4 DEF NodesInRow
  <2>2. n < nodes' => n < nodes \/ n = qtail
    <3>1. n \in Int /\ qtail \in Int
      BY <1>t, NodeTypes
    <3> QED BY <1>2, <1>3, <3>1
  <2> QED BY <1>5, <2>2 DEF QueueInv, NodesInRow
<1>10. LastSlots'
  <2>1. nodes' = qtail + 1 <=> \E q \in Pushers : pc'[q].at = "tail"
    BY <1>3, <1>6
  <2>2. nodes' <= qtail + 1
    BY <1>t, <1>3, NodeTypes
  <2> QED BY <1>t, <1>4, <1>5, <1>7, <1>8, <2>1, <2>2, NodeTypes DEF QueueInv, LastSlots
<1>11. Pushed'
  <2>1. \A q \in Pushers :
          /\ pc[q].at \in {"index", "write"} \/ pc'[q].at \in {"index", "write"} => pc'[q] = pc[q]
          /\ pc[q].at = "write" => pc[q].node \in Queue!Nodes
    <3>1. SUFFICES ASSUME NEW q \in Pushers
                   PROVE  /\ pc[q].at \in {"index", "write"} \/ pc'[q].at \in {"index", "write"} => pc'[q] = pc[q]
                          /\ pc[q].at = "write" => pc[q].node \in Queue!Nodes
      OBVIOUS
    <3>2. pc[q].at = "write" => pc[q].node \in Queue!Nodes
      BY <1>t, NodeTypes, Extent DEF QueueInv, Pushed, WritersPlaced
    <3> QED BY <1>1, <1>6, <3>2
  <2>2. Pushed /\ qtail \in Int /\ qtail' \in Int /\ qtail <= qtail'
    BY <1>t, <1>4, NodeTypes DEF QueueInv
  <2> QED BY <1>4, <1>5, <1>e, <2>1, <2>2, PushesKept
<1>12. Popped'
  <2>1. PICK last \in Nat : Queue!Nodes = 1 .. last
    BY Extent
  <2>2. \A x \in DOMAIN got : got[x] # Queue!NULL
    BY <1>t, NodeTypes, Extent
  <2>3. \A c \in Poppers : pc[c].index \in Queue!Slots
    BY <1>t, NodeTypes
  <2>4. \A m \in Queue!Nodes, j \in Queue!Slots : Slot(m, j)' = Slot(m, j)
    BY <1>5 DEF Slot
  <2>5. Popped /\ qhead \in Queue!Nodes
    BY <1>t, NodeTypes DEF QueueInv
  <2> QED BY <1>4, <1>5, <1>8, <1>e, <2>1, <2>2, <2>3, <2>4, <2>5, PopsKept
<1> QED BY <1>3, <1>9, <1>10, <1>11, <1>12

\* And makes it the tail.
LEMMA PushTailKeeps ==
  ASSUME QueueInv, UNCHANGED tool, NEW p \in Pushers, Queue!PushTail(p)
  PROVE  qtail' = qtail + 1 /\ qtail' = nodes /\ NodesInRow' /\ LastSlots' /\ Pushed' /\ Popped'
<1>t. QueueTypes
  BY DEF QueueInv
<1>e. /\ SQUEUE_NODE_SIZE \in Nat \ {0} /\ Queue!LastSlot \in Queue!Slots /\ Poppers \cap Pushers = {}
  BY Extent
<1>1. pc[p].at = "tail" /\ Closes(p)
  BY DEF Queue!PushTail, Queue!At, Closes
<1>2. node[qtail]._head = SQUEUE_NODE_SIZE /\ nodes = qtail + 1
  BY <1>1 DEF QueueInv, LastSlots
<1>3. qtail' = qtail + 1 /\ qtail' = nodes
  BY <1>t, <1>2, NodeTypes DEF Queue!PushTail, QueueInv, NodesInRow
<1>4. UNCHANGED <<node, nodes, qhead, sent, got>>
  BY DEF Queue!PushTail
<1>5. /\ pc'[p].at = "count"
      /\ \A u \in Pushers \cup Poppers : u # p => pc'[u] = pc[u]
  <2>1. pc' = [pc EXCEPT ![p].at = "count"]
    BY DEF Queue!PushTail, Queue!Goes
  <2>2. pc \in [Pushers \cup Poppers -> QueueSteps] /\ pc[p] \in QueueSteps
    BY <1>t DEF QueueTypes
  <2> QED BY ONLY <2>1, <2>2 DEF QueueSteps
<1>6. \A q \in Pushers : ~Closes(q)'
  <2>1. SUFFICES ASSUME NEW q \in Pushers PROVE ~Closes(q)'
    OBVIOUS
  <2>2. CASE q = p
    BY <1>5, <2>2 DEF Closes
  <2>3. CASE q # p
    BY <1>1, <1>5, <2>3 DEF Closes, QueueInv, LastSlots
  <2> QED BY <2>2, <2>3
<1>7. \A c \in Poppers : pc'[c] = pc[c] /\ (Moves(c)' <=> Moves(c))
  BY <1>5, <1>e DEF Moves
<1>8. NodesInRow'
  <2>1. SUFFICES ASSUME NEW n \in Queue!Nodes
                 PROVE  /\ n < qtail' => node[n]._head = SQUEUE_NODE_SIZE
                        /\ n > qtail' => node[n]._head = 0
                        /\ n < qhead => node[n]._tail = SQUEUE_NODE_SIZE
                        /\ n > qhead => node[n]._tail = 0
                        /\ node[n]._tail <= node[n]._head
                        /\ n < nodes => node[n]._next = n + 1
    BY <1>4 DEF NodesInRow
  <2>2. (n < qtail' => n < qtail \/ n = qtail) /\ (n > qtail' => n > qtail)
    BY <1>t, <1>3, NodeTypes
  <2> QED BY <1>2, <2>2 DEF QueueInv, NodesInRow
<1>9. LastSlots'
  <2>1. node[qtail']._head = 0 /\ nodes # qtail' + 1 /\ nodes <= qtail' + 1
    <3>1. qtail' > qtail /\ qtail' \in Queue!Nodes
      BY <1>t, <1>3, NodeTypes
    <3> QED BY <1>t, <1>3, <3>1, NodeTypes DEF QueueInv, NodesInRow
  <2>2. \A q \in Pushers : pc'[q].at # "tail"
    BY <1>6 DEF Closes
  <2>3. node'[qtail']._head # SQUEUE_NODE_SIZE /\ nodes' # qtail' + 1 /\ nodes' <= qtail' + 1
    BY <1>4, <1>e, <2>1
  <2> QED BY <1>4, <1>6, <1>7, <2>2, <2>3 DEF QueueInv, LastSlots
<1>10. Pushed'
  <2>1. \A q \in Pushers :
          /\ pc[q].at \in {"index", "write"} \/ pc'[q].at \in {"index", "write"} => pc'[q] = pc[q]
          /\ pc[q].at = "write" => pc[q].node \in Queue!Nodes
    <3>1. SUFFICES ASSUME NEW q \in Pushers
                   PROVE  /\ pc[q].at \in {"index", "write"} \/ pc'[q].at \in {"index", "write"} => pc'[q] = pc[q]
                          /\ pc[q].at = "write" => pc[q].node \in Queue!Nodes
      OBVIOUS
    <3>2. pc[q].at = "write" => pc[q].node \in Queue!Nodes
      BY <1>t, NodeTypes, Extent DEF QueueInv, Pushed, WritersPlaced
    <3> QED BY <1>1, <1>5, <3>2
  <2>2. Pushed /\ qtail \in Int /\ qtail' \in Int /\ qtail <= qtail'
    BY <1>t, <1>3, NodeTypes DEF QueueInv
  <2> QED BY <1>4, <1>e, <2>1, <2>2, PushesKept
<1>11. Popped'
  <2>1. PICK last \in Nat : Queue!Nodes = 1 .. last
    BY Extent
  <2>2. \A x \in DOMAIN got : got[x] # Queue!NULL
    BY <1>t, NodeTypes, Extent
  <2>3. \A c \in Poppers : pc[c].index \in Queue!Slots
    BY <1>t, NodeTypes
  <2>4. \A m \in Queue!Nodes, j \in Queue!Slots : Slot(m, j)' = Slot(m, j)
    BY <1>4 DEF Slot
  <2>5. Popped /\ qhead \in Queue!Nodes
    BY <1>t, NodeTypes DEF QueueInv
  <2> QED BY <1>4, <1>7, <1>e, <2>1, <2>2, <2>3, <2>4, <2>5, PopsKept
<1> QED BY <1>3, <1>8, <1>9, <1>10, <1>11

-----------------------------------------------------------------------------
\* An item is in one slot.
LEMMA SlotUnique ==
  ASSUME QueueTypes, Pushed, NEW n \in Queue!Nodes, NEW m \in Queue!Nodes,
         NEW i \in Queue!Slots, NEW j \in Queue!Slots, Slot(n, i) # Queue!NULL, Slot(n, i) = Slot(m, j)
  PROVE  n = m /\ i = j
<1>1. PICK p \in Pushers, k \in 1 .. MaxItems : Slot(n, i) = <<p, k>>
  <2>1. Slot(n, i) \in Queue!Items
    BY NodeTypes
  <2> QED BY <2>1 DEF Queue!Items
<1>2. HasItem(n, i, p, k) /\ HasItem(m, j, p, k)
  BY <1>1 DEF HasItem
<1>3. ~Before(n, i, m, j) /\ ~Before(m, j, n, i)
  <2>1. Before(n, i, m, j) => k < k
    BY <1>2 DEF Pushed, ItemsOrdered
  <2>2. Before(m, j, n, i) => k < k
    BY <1>2 DEF Pushed, ItemsOrdered
  <2> QED BY <2>1, <2>2
<1>4. n \in Int /\ m \in Int /\ i \in Int /\ j \in Int
  BY NodeTypes, Extent
<1> QED BY ONLY <1>3, <1>4 DEF Before

\* Who takes a slot finds one that a pusher has counted.
LEMMA SlotLeft ==
  ASSUME QueueInv, NEW c \in Poppers, pc[c].at = "take", node[qhead]._tail < SQUEUE_NODE_SIZE
  PROVE  node[qhead]._tail < node[qhead]._head
<1>t. QueueTypes
  BY DEF QueueInv
<1>1. Taking \in Nat /\ Taking > 0 /\ Pushing \in Nat
  <2> USE QueueAssumption DEF QueueAssumption
  <2>1. IsFiniteSet(ThreadsAt(Poppers, {"take"})) /\ c \in ThreadsAt(Poppers, {"take"})
    BY FS_Subset DEF ThreadsAt
  <2>2. IsFiniteSet(ThreadsAt(Pushers, {"write", "link", "tail", "count"}))
    BY FS_Subset DEF ThreadsAt
  <2> QED BY <2>1, <2>2, FS_CardinalityType, FS_EmptySet DEF Taking, Pushing
<1>2. Taken + Taking <= Begun - Pushing
  BY DEF QueueInv, Counted
<1>3. qhead \in Int /\ qtail \in Int /\ qhead <= qtail /\ node[qhead]._tail \in Int /\ node[qhead]._head \in Int
  BY <1>t, NodeTypes
<1>4. CASE qhead < qtail
  BY <1>t, <1>4, NodeTypes DEF QueueInv, NodesInRow
<1>5. CASE qhead = qtail
  <2>1. PICK b, t, h : b = (qhead - 1) * SQUEUE_NODE_SIZE /\ t = node[qhead]._tail /\ h = node[qhead]._head
    OBVIOUS
  <2>2. b \in Int /\ t \in Int /\ h \in Int
    BY <1>3, <2>1, Extent
  <2>3. Taken = b + t /\ Begun = b + h
    BY <1>5, <2>1 DEF Taken, Begun
  <2> QED BY <1>1, <1>2, <2>1, <2>2, <2>3
<1> QED BY <1>3, <1>4, <1>5

LEMMA PopIndexKeeps ==
  ASSUME QueueInv, UNCHANGED tool, NEW c \in Poppers, Queue!PopIndex(c),
         node[pc[c].node]._tail < SQUEUE_NODE_SIZE
  PROVE  NodesInRow' /\ LastSlots' /\ Pushed' /\ Popped'
<1> DEFINE i == node[pc[c].node]._tail
<1>t. QueueTypes
  BY DEF QueueInv
<1>e. /\ SQUEUE_NODE_SIZE \in Nat \ {0} /\ Queue!Slots = 0 .. (SQUEUE_NODE_SIZE - 1)
      /\ Queue!LastSlot = SQUEUE_NODE_SIZE - 1 /\ Queue!LastSlot \in Queue!Slots
      /\ Poppers \cap Pushers = {}
  BY Extent
<1>1. pc[c].node \in 1 .. qhead /\ pc[c].at = "take"
  BY DEF QueueInv, Popped, ReadersPlaced, Queue!PopIndex, Queue!At
<1>2. pc[c].node = qhead
  <2>1. pc[c].node \in Queue!Nodes /\ qhead \in Queue!Nodes
    BY <1>t, <1>1, NodeTypes, Extent
  <2>2. pc[c].node < qhead => node[pc[c].node]._tail = SQUEUE_NODE_SIZE
    BY <2>1 DEF QueueInv, NodesInRow
  <2>3. node[pc[c].node]._tail \in Int /\ pc[c].node \in Int /\ qhead \in Int
    BY <1>t, <2>1, NodeTypes
  <2> QED BY <1>1, <1>e, <2>2, <2>3
<1>3. i \in Queue!Slots /\ i = node[qhead]._tail /\ i < node[qhead]._head
  BY <1>t, <1>e, <1>1, <1>2, NodeTypes, SlotLeft
<1>4. \A n \in Queue!Nodes :
        /\ node'[n].slots = node[n].slots /\ node'[n]._head = node[n]._head /\ node'[n]._next = node[n]._next
        /\ node'[n]._tail = IF n = qhead THEN i + 1 ELSE node[n]._tail
  <2>1. node' = [node EXCEPT ![qhead]._tail = i + 1]
    BY <1>2, <1>3, <1>e DEF Queue!PopIndex, Queue!CountUp
  <2>2. \A n \in Queue!Nodes : node[n] \in QueueNodes
    BY <1>t DEF QueueTypes
  <2>3. node \in [Queue!Nodes -> QueueNodes]
    BY <1>t DEF QueueTypes
  <2> QED BY ONLY <2>1, <2>2, <2>3 DEF QueueNodes
<1>5. /\ pc'[c].at = "read" /\ pc'[c].index = i /\ pc'[c].node = qhead
      /\ \A u \in Pushers \cup Poppers : u # c => pc'[u] = pc[u]
  <2>1. pc' = [pc EXCEPT ![c] = [pc[c] EXCEPT !.at = "read", !.index = i]]
    BY <1>3, <1>e DEF Queue!PopIndex
  <2>2. pc \in [Pushers \cup Poppers -> QueueSteps] /\ pc[c] \in QueueSteps
    BY <1>t DEF QueueTypes
  <2> QED BY ONLY <2>1, <2>2, <1>2 DEF QueueSteps
<1>6. UNCHANGED <<nodes, qtail, qhead, sent, got>>
  BY DEF Queue!PopIndex, Queue!queue
<1>7. \A d \in Poppers : ~Moves(d)
  BY <1>3, <1>e DEF QueueInv, LastSlots
<1>8. \A d \in Poppers : Moves(d)' <=> d = c /\ i = Queue!LastSlot
  <2>1. SUFFICES ASSUME NEW d \in Poppers PROVE Moves(d)' <=> d = c /\ i = Queue!LastSlot
    OBVIOUS
  <2>2. CASE d = c
    BY <1>5, <2>2 DEF Moves
  <2>3. CASE d # c
    BY <1>5, <1>7, <2>3 DEF Moves
  <2> QED BY <2>2, <2>3
<1>9. \A p \in Pushers : pc'[p] = pc[p] /\ (Closes(p)' <=> Closes(p))
  BY <1>5, <1>e DEF Closes
<1>10. NodesInRow'
  <2>1. SUFFICES ASSUME NEW n \in Queue!Nodes
                 PROVE  /\ n < qtail => node'[n]._head = SQUEUE_NODE_SIZE
                        /\ n > qtail => node'[n]._head = 0
                        /\ n < qhead => node'[n]._tail = SQUEUE_NODE_SIZE
                        /\ n > qhead => node'[n]._tail = 0
                        /\ node'[n]._tail <= node'[n]._head
                        /\ n < nodes => node'[n]._next = n + 1
    BY <1>6 DEF NodesInRow
  <2>2. node[n]._tail <= node[n]._head /\ node[n]._head \in Int /\ i \in Int
    BY <1>t, <1>3, <1>e, NodeTypes DEF QueueInv, NodesInRow
  <2>3. node'[n]._tail <= node'[n]._head
    BY <1>3, <1>4, <2>2
  <2>4. (n < qhead => n # qhead) /\ (n > qhead => n # qhead)
    BY <1>t, NodeTypes
  <2> QED BY <1>4, <2>3, <2>4 DEF QueueInv, NodesInRow
<1>11. LastSlots'
  <2>1. node'[qhead]._tail = SQUEUE_NODE_SIZE <=> i = Queue!LastSlot
    BY <1>t, <1>3, <1>4, <1>e, NodeTypes
  <2>2. \A d \in Poppers : Moves(d)' => pc'[d].node = qhead
    BY <1>5, <1>8
  <2>3. \A d, f \in Poppers : Moves(d)' /\ Moves(f)' => d = f
    BY <1>8
  <2>4. node'[qhead]._tail = SQUEUE_NODE_SIZE <=> \E d \in Poppers : Moves(d)'
    BY <1>8, <2>1
  <2>5. node'[qtail]._head = node[qtail]._head
    BY <1>t, <1>4, NodeTypes
  <2> QED BY <1>6, <1>9, <2>2, <2>3, <2>4, <2>5 DEF QueueInv, LastSlots
<1>12. Pushed'
  <2>1. \A q \in Pushers : pc[q].at = "write" => pc[q].node \in Queue!Nodes
    BY <1>t, NodeTypes, Extent DEF QueueInv, Pushed, WritersPlaced
  <2>2. Pushed /\ qtail \in Int /\ qtail' \in Int /\ qtail <= qtail'
    BY <1>t, <1>6, NodeTypes DEF QueueInv
  <2> QED BY <1>4, <1>6, <1>9, <1>e, <2>1, <2>2, PushesKept
<1>13. \A d \in Poppers : \A n, j : Reads(d, n, j)' <=> Reads(d, n, j) \/ (d = c /\ n = qhead /\ j = i)
  <2>1. SUFFICES ASSUME NEW d \in Poppers, NEW n, NEW j
                 PROVE  Reads(d, n, j)' <=> Reads(d, n, j) \/ (d = c /\ n = qhead /\ j = i)
    OBVIOUS
  <2>2. CASE d = c
    BY <1>1, <1>5, <2>2 DEF Reads
  <2>3. CASE d # c
    BY <1>5, <2>3 DEF Reads
  <2> QED BY <2>2, <2>3
<1>14. \A n \in Queue!Nodes : node[n]._tail <= node'[n]._tail /\ node[n]._tail \in Int /\ node'[n]._tail \in Int
  BY <1>t, <1>3, <1>e, <1>4, NodeTypes
<1>15. ReadersPlaced'
  <2>1. SUFFICES ASSUME NEW d \in Poppers
                 PROVE  /\ pc'[d].at \in {"take", "read"} => pc'[d].node \in 1 .. qhead
                        /\ pc'[d].at = "read" => pc'[d].index < node'[pc'[d].node]._tail
                        /\ pc'[d].at = "move" => node'[qhead].slots[Queue!LastSlot] # Queue!NULL
    BY <1>6 DEF ReadersPlaced, Slot
  <2>2. CASE d = c
    <3>1. node'[qhead]._tail = i + 1 /\ qhead \in 1 .. qhead /\ i < i + 1
      BY <1>t, <1>3, <1>e, <1>4, NodeTypes
    <3> QED BY <1>5, <2>2, <3>1
  <2>3. CASE d # c
    <3>1. /\ pc[d].at \in {"take", "read"} => pc[d].node \in 1 .. qhead
          /\ pc[d].at = "read" => pc[d].index < node[pc[d].node]._tail
          /\ pc[d].at = "move" => node[qhead].slots[Queue!LastSlot] # Queue!NULL
      BY DEF QueueInv, Popped, ReadersPlaced, Slot
    <3>2. 1 .. qhead \subseteq Queue!Nodes /\ pc[d].index \in Int /\ qhead \in Queue!Nodes
      BY <1>t, <1>e, NodeTypes, Extent
    <3>3. pc'[d] = pc[d]
      BY <1>5, <2>3
    <3>4. pc[d].at = "read" => pc[d].index < node'[pc[d].node]._tail
      BY ONLY <1>14, <3>1, <3>2
    <3>5. node'[qhead].slots = node[qhead].slots
      BY <1>4, <3>2
    <3> QED BY ONLY <3>1, <3>3, <3>4, <3>5
  <2> QED BY <2>2, <2>3
<1>16. ReadersApart'
  <2>1. \A d \in Poppers : ~Reads(d, qhead, i)
    BY <1>t, <1>3, <1>e, NodeTypes DEF QueueInv, Popped, ReadersPlaced, Reads
  <2> QED BY <1>13, <2>1 DEF QueueInv, Popped, ReadersApart
<1>17. \A n \in Queue!Nodes, j \in Queue!Slots : \A e : ReadFrom(n, j, e) => ReadFrom(n, j, e)' /\ Before(n, j, qhead, i)
  <2>1. SUFFICES ASSUME NEW n \in Queue!Nodes, NEW j \in Queue!Slots, NEW e, ReadFrom(n, j, e)
                 PROVE  ReadFrom(n, j, e)' /\ Before(n, j, qhead, i)
    OBVIOUS
  <2>2. Slot(n, j) = e /\ j < node[n]._tail /\ \A d \in Poppers : ~Reads(d, n, j)
    BY <2>1 DEF ReadFrom
  <2>3. j \in Int /\ n \in Int /\ qhead \in Int
    BY <1>t, <1>e, NodeTypes
  <2>4. ~(n = qhead /\ j = i) /\ j < node'[n]._tail
    BY <1>3, <1>14, <2>2, <2>3
  <2>5. ReadFrom(n, j, e)'
    BY <1>4, <1>13, <2>2, <2>4 DEF ReadFrom, Slot
  <2>6. ~(n > qhead)
    BY <1>e, <2>2, <2>3 DEF QueueInv, NodesInRow
  <2> QED BY <1>3, <2>2, <2>3, <2>5, <2>6 DEF Before
<1>18. GotRead'
  BY <1>6, <1>17 DEF QueueInv, Popped, GotRead
<1>19. GotOrdered'
  <2>1. SUFFICES ASSUME Handling, NEW n \in Queue!Nodes, NEW m \in Queue!Nodes, NEW a \in Queue!Slots,
                        NEW j \in Queue!Slots, NEW k \in DOMAIN got, Slot(n, a)' = got[k]
                 PROVE  /\ \A l \in DOMAIN got : k < l /\ Slot(m, j)' = got[l] => Before(n, a, m, j)
                        /\ \A d \in Poppers : Reads(d, m, j)' => Before(n, a, m, j)
    BY <1>6 DEF GotOrdered, Handling, Before
  <2>2. Slot(n, a) = got[k] /\ Slot(m, j)' = Slot(m, j)
    BY <1>4, <2>1 DEF Slot
  <2>3. Before(n, a, qhead, i)
    <3>1. PICK x \in Queue!Nodes, y \in Queue!Slots : ReadFrom(x, y, got[k])
      BY DEF QueueInv, Popped, GotRead
    <3>2. Slot(n, a) # Queue!NULL /\ Slot(n, a) = Slot(x, y)
      BY <1>t, <2>2, <3>1, NodeTypes, Extent DEF ReadFrom
    <3>3. n = x /\ a = y
      BY <1>t, <3>2, SlotUnique DEF QueueInv
    <3> QED BY <1>17, <3>1, <3>3
  <2> QED BY <1>13, <2>1, <2>2, <2>3 DEF QueueInv, Popped, GotOrdered
<1> QED BY <1>6, <1>10, <1>11, <1>12, <1>15, <1>16, <1>18, <1>19 DEF QueueInv, Popped

\* A thread reads the slot that it took, once its pusher has written it.
LEMMA PopReadKeeps ==
  ASSUME QueueInv, UNCHANGED tool, NEW c \in Poppers, Queue!PopRead(c)
  PROVE  got' \in Seq(Queue!Items) /\ NodesInRow' /\ LastSlots' /\ Pushed' /\ Popped'
<1> DEFINE n == pc[c].node
           i == pc[c].index
<1>t. QueueTypes
  BY DEF QueueInv
<1>e. /\ Queue!LastSlot \in Queue!Slots /\ Poppers \cap Pushers = {}
  BY Extent
<1>1. /\ pc[c].at = "read" /\ n \in 1 .. qhead /\ i < node[n]._tail /\ Slot(n, i) # Queue!NULL
  BY DEF QueueInv, Popped, ReadersPlaced, Queue!PopRead, Queue!At, Slot
<1>2. n \in Queue!Nodes /\ i \in Queue!Slots /\ Reads(c, n, i)
  BY <1>t, <1>1, NodeTypes, Extent DEF Reads
<1>3. Slot(n, i) \in Queue!Items
  BY <1>t, <1>1, <1>2, NodeTypes
<1>4. got \in Seq(Queue!Items)
  BY <1>t DEF QueueTypes
<1>5. PICK last : last = Len(got) + 1
  OBVIOUS
<1>6. /\ got' \in Seq(Queue!Items) /\ DOMAIN got' = DOMAIN got \cup {last}
      /\ last \in Nat /\ (\A k \in DOMAIN got : k < last)
      /\ got'[last] = Slot(n, i) /\ \A k \in DOMAIN got : got'[k] = got[k]
  <2>1. got' = Append(got, Slot(n, i))
    BY DEF Queue!PopRead, Slot
  <2> QED BY ONLY <1>3, <1>4, <1>5, <2>1
<1>7. /\ pc'[c].at = IF i = Queue!LastSlot THEN "move" ELSE "done"
      /\ pc'[c].node = n
      /\ \A u \in Pushers \cup Poppers : u # c => pc'[u] = pc[u]
  <2>1. pc' = [pc EXCEPT ![c].at = IF i = Queue!LastSlot THEN "move" ELSE "done"]
    BY DEF Queue!PopRead
  <2>2. pc \in [Pushers \cup Poppers -> QueueSteps] /\ pc[c] \in QueueSteps
    BY <1>t DEF QueueTypes
  <2> QED BY ONLY <2>1, <2>2 DEF QueueSteps
<1>8. UNCHANGED <<node, nodes, qtail, qhead, sent>>
  BY DEF Queue!PopRead, Queue!queue
<1>9. \A d \in Poppers : /\ Moves(d)' <=> Moves(d)
                         /\ pc'[d].node = pc[d].node
                         /\ \A m, j : Reads(d, m, j)' <=> Reads(d, m, j) /\ d # c
  <2>1. SUFFICES ASSUME NEW d \in Poppers
                 PROVE  /\ Moves(d)' <=> Moves(d)
                        /\ pc'[d].node = pc[d].node
                        /\ \A m, j : Reads(d, m, j)' <=> Reads(d, m, j) /\ d # c
    OBVIOUS
  <2>2. CASE d = c
    BY <1>1, <1>7, <2>2 DEF Moves, Reads
  <2>3. CASE d # c
    BY <1>7, <2>3 DEF Moves, Reads
  <2> QED BY <2>2, <2>3
<1>10. \A p \in Pushers : pc'[p] = pc[p] /\ (Closes(p)' <=> Closes(p))
  BY <1>7, <1>e DEF Closes
<1>11. NodesInRow'
  BY <1>8 DEF QueueInv, NodesInRow
<1>12. LastSlots'
  BY <1>8, <1>9, <1>10 DEF QueueInv, LastSlots
<1>13. Pushed'
  <2>1. \A q \in Pushers : pc[q].at = "write" => pc[q].node \in Queue!Nodes
    BY <1>t, NodeTypes, Extent DEF QueueInv, Pushed, WritersPlaced
  <2>2. Pushed /\ qtail \in Int /\ qtail' \in Int /\ qtail <= qtail'
    BY <1>t, <1>8, NodeTypes DEF QueueInv
  <2> QED BY <1>8, <1>10, <1>e, <2>1, <2>2, PushesKept
<1>14. ReadersPlaced'
  <2>1. SUFFICES ASSUME NEW d \in Poppers
                 PROVE  /\ pc'[d].at \in {"take", "read"} => pc'[d].node \in 1 .. qhead
                        /\ pc'[d].at = "read" => pc'[d].index < node[pc'[d].node]._tail
                        /\ pc'[d].at = "move" => node[qhead].slots[Queue!LastSlot] # Queue!NULL
    BY <1>8 DEF ReadersPlaced, Slot
  <2>2. CASE d = c
    <3>1. i = Queue!LastSlot => n = qhead
      BY <1>1 DEF Moves, QueueInv, LastSlots
    <3> QED BY <1>1, <1>7, <2>2, <3>1 DEF Slot
  <2>3. CASE d # c
    BY <1>7, <2>3 DEF QueueInv, Popped, ReadersPlaced, Slot
  <2> QED BY <2>2, <2>3
<1>15. ReadersApart'
  BY <1>9 DEF QueueInv, Popped, ReadersApart
<1>16. \A k \in DOMAIN got : got[k] # Slot(n, i)
  <2>1. SUFFICES ASSUME NEW k \in DOMAIN got, got[k] = Slot(n, i) PROVE FALSE
    OBVIOUS
  <2>2. PICK m \in Queue!Nodes, j \in Queue!Slots : ReadFrom(m, j, got[k])
    BY DEF QueueInv, Popped, GotRead
  <2>3. Slot(n, i) = Slot(m, j) /\ ~Reads(c, m, j)
    BY <2>1, <2>2 DEF ReadFrom
  <2>4. n = m /\ i = j
    BY <1>t, <1>1, <1>2, <2>3, SlotUnique DEF QueueInv
  <2> QED BY <1>2, <2>3, <2>4
<1>17. GotRead'
  <2>1. SUFFICES ASSUME NEW k \in DOMAIN got'
                 PROVE  \E m \in Queue!Nodes, j \in Queue!Slots :
                          node[m].slots[j] = got'[k] /\ j < node[m]._tail /\ \A d \in Poppers : ~Reads(d, m, j)'
    BY <1>8 DEF GotRead, ReadFrom, Slot
  <2>2. CASE k \in DOMAIN got
    <3>1. PICK m \in Queue!Nodes, j \in Queue!Slots : ReadFrom(m, j, got[k])
      BY <2>2 DEF QueueInv, Popped, GotRead
    <3>2. node[m].slots[j] = got'[k] /\ j < node[m]._tail /\ \A d \in Poppers : ~Reads(d, m, j)'
      BY <1>6, <1>9, <2>2, <3>1 DEF ReadFrom, Slot
    <3> QED BY <3>2
  <2>3. CASE k = last
    <3>1. PICK m \in Queue!Nodes, j \in Queue!Slots : m = n /\ j = i
      BY <1>2
    <3>2. \A d \in Poppers : Reads(d, m, j) => d = c
      BY <1>2, <3>1 DEF QueueInv, Popped, ReadersApart
    <3>3. \A d \in Poppers : ~Reads(d, m, j)'
      BY <1>9, <3>2
    <3>4. node[m].slots[j] = got'[k] /\ j < node[m]._tail
      BY <1>1, <1>6, <2>3, <3>1 DEF Slot
    <3> QED BY <3>3, <3>4
  <2> QED BY <1>6, <2>1, <2>2, <2>3
<1>18. IsInjective(got)'
  <2>1. \A k, l \in DOMAIN got : got[k] = got[l] => k = l
    BY DEF QueueInv, Popped, IsInjective
  <2>2. \A k, l \in DOMAIN got' : got'[k] = got'[l] => k = l
    BY <1>6, <1>16, <2>1
  <2> QED BY <2>2 DEF IsInjective
<1>19. GotOrdered'
  <2>1. SUFFICES ASSUME Handling, NEW a \in Queue!Nodes, NEW m \in Queue!Nodes, NEW b \in Queue!Slots,
                        NEW j \in Queue!Slots, NEW k \in DOMAIN got', Slot(a, b) = got'[k]
                 PROVE  /\ \A l \in DOMAIN got' : k < l /\ Slot(m, j) = got'[l] => Before(a, b, m, j)
                        /\ \A d \in Poppers : Reads(d, m, j)' => Before(a, b, m, j)
    BY <1>8 DEF GotOrdered, Handling, Before, Slot
  <2>2. CASE k \in DOMAIN got
    <3>1. Slot(a, b) = got[k]
      BY <1>6, <2>1, <2>2
    <3>2. \A l \in DOMAIN got : k < l /\ Slot(m, j) = got[l] => Before(a, b, m, j)
      BY <2>1, <2>2, <3>1 DEF QueueInv, Popped, GotOrdered
    <3>3. \A d \in Poppers : Reads(d, m, j) => Before(a, b, m, j)
      BY <2>1, <2>2, <3>1 DEF QueueInv, Popped, GotOrdered
    <3>4. Slot(m, j) = Slot(n, i) => Before(a, b, m, j)
      <4>1. Slot(m, j) = Slot(n, i) => m = n /\ j = i
        BY <1>t, <1>1, <1>2, SlotUnique DEF QueueInv
      <4> QED BY <1>2, <3>3, <4>1
    <3> QED BY <1>6, <1>9, <3>2, <3>3, <3>4
  <2>3. CASE k = last
    <3>1. \A l \in DOMAIN got' : ~(k < l)
      BY <1>4, <1>6, <2>3
    <3>2. \A d \in Poppers : ~Reads(d, m, j)'
      <4>1. \A d \in Poppers : Reads(d, m, j) => pc[d].at # "rest"
        BY DEF Reads
      <4>2. \A d \in Poppers : Reads(d, m, j) => d = c
        BY <1>1, <2>1, <4>1 DEF QueueInv, OneHandles
      <4> QED BY <1>9, <4>2
    <3> QED BY <3>1, <3>2
  <2> QED BY <1>6, <2>1, <2>2, <2>3
<1> QED BY <1>6, <1>11, <1>12, <1>13, <1>14, <1>15, <1>17, <1>18, <1>19 DEF Popped

\* The last slot was read: the head moves on.
LEMMA PopMoveKeeps ==
  ASSUME QueueInv, UNCHANGED tool, NEW c \in Poppers, Queue!PopMove(c)
  PROVE  qhead' = qhead + 1 /\ qhead' <= qtail /\ NodesInRow' /\ LastSlots' /\ Pushed' /\ Popped'
<1>t. QueueTypes
  BY DEF QueueInv
<1>e. /\ SQUEUE_NODE_SIZE \in Nat \ {0} /\ Queue!LastSlot \in Queue!Slots /\ Poppers \cap Pushers = {}
  BY Extent
<1>1. pc[c].at = "move" /\ Moves(c)
  BY DEF Queue!PopMove, Queue!At, Moves
<1>2. node[qhead]._tail = SQUEUE_NODE_SIZE /\ qhead < qtail
  <2>1. node[qhead]._tail = SQUEUE_NODE_SIZE
    BY <1>1 DEF QueueInv, LastSlots
  <2>2. qhead # qtail
    BY DEF Queue!PopMove
  <2> QED BY <1>t, <2>1, <2>2, NodeTypes
<1>3. qhead' = qhead + 1 /\ qhead' <= qtail
  <2>1. qhead < nodes
    BY <1>t, <1>2, NodeTypes
  <2>2. node[qhead]._next = qhead + 1
    BY <1>t, <2>1, NodeTypes DEF QueueInv, NodesInRow
  <2> QED BY <1>t, <1>2, <2>2, NodeTypes DEF Queue!PopMove
<1>4. UNCHANGED <<node, nodes, qtail, sent, got>>
  BY DEF Queue!PopMove
<1>5. /\ pc'[c].at = "done"
      /\ \A u \in Pushers \cup Poppers : u # c => pc'[u] = pc[u]
  <2>1. pc' = [pc EXCEPT ![c].at = "done"]
    BY DEF Queue!PopMove, Queue!Goes
  <2>2. pc \in [Pushers \cup Poppers -> QueueSteps] /\ pc[c] \in QueueSteps
    BY <1>t DEF QueueTypes
  <2> QED BY ONLY <2>1, <2>2 DEF QueueSteps
<1>6. \A d \in Poppers : ~Moves(d)'
  <2>1. SUFFICES ASSUME NEW d \in Poppers PROVE ~Moves(d)'
    OBVIOUS
  <2>2. CASE d = c
    BY <1>5, <2>2 DEF Moves
  <2>3. CASE d # c
    BY <1>1, <1>5, <2>3 DEF Moves, QueueInv, LastSlots
  <2> QED BY <2>2, <2>3
<1>7. \A p \in Pushers : pc'[p] = pc[p] /\ (Closes(p)' <=> Closes(p))
  BY <1>5, <1>e DEF Closes
<1>8. NodesInRow'
  <2>1. SUFFICES ASSUME NEW n \in Queue!Nodes
                 PROVE  /\ n < qtail => node[n]._head = SQUEUE_NODE_SIZE
                        /\ n > qtail => node[n]._head = 0
                        /\ n < qhead' => node[n]._tail = SQUEUE_NODE_SIZE
                        /\ n > qhead' => node[n]._tail = 0
                        /\ node[n]._tail <= node[n]._head
                        /\ n < nodes => node[n]._next = n + 1
    BY <1>4 DEF NodesInRow
  <2>2. (n < qhead' => n < qhead \/ n = qhead) /\ (n > qhead' => n > qhead)
    <3>1. n \in Int /\ qhead \in Int
      BY <1>t, NodeTypes
    <3> QED BY <1>3, <3>1
  <2> QED BY <1>2, <2>2 DEF QueueInv, NodesInRow
<1>9. LastSlots'
  <2>1. node[qhead']._tail = 0
    <3>1. qhead' > qhead /\ qhead' \in Queue!Nodes
      BY <1>t, <1>3, NodeTypes, Extent
    <3> QED BY <3>1 DEF QueueInv, NodesInRow
  <2>2. node'[qhead']._tail # SQUEUE_NODE_SIZE
    BY <1>4, <1>e, <2>1
  <2> QED BY <1>4, <1>6, <1>7, <2>2 DEF QueueInv, LastSlots
<1>10. Pushed'
  <2>1. \A q \in Pushers : pc[q].at = "write" => pc[q].node \in Queue!Nodes
    BY <1>t, NodeTypes, Extent DEF QueueInv, Pushed, WritersPlaced
  <2>2. Pushed /\ qtail \in Int /\ qtail' \in Int /\ qtail <= qtail'
    BY <1>t, <1>4, NodeTypes DEF QueueInv
  <2> QED BY <1>4, <1>7, <1>e, <2>1, <2>2, PushesKept
<1>11. \A d \in Poppers : \A n, j : Reads(d, n, j)' <=> Reads(d, n, j)
  <2>1. SUFFICES ASSUME NEW d \in Poppers, NEW n, NEW j PROVE Reads(d, n, j)' <=> Reads(d, n, j)
    OBVIOUS
  <2>2. CASE d = c
    BY <1>1, <1>5, <2>2 DEF Reads
  <2>3. CASE d # c
    BY <1>5, <2>3 DEF Reads
  <2> QED BY <2>2, <2>3
<1>12. ReadersPlaced'
  <2>1. SUFFICES ASSUME NEW d \in Poppers, pc'[d].at \in {"take", "read", "move"}
                 PROVE  /\ pc'[d].at \in {"take", "read"} => pc'[d].node \in 1 .. qhead'
                        /\ pc'[d].at = "read" => pc'[d].index < node[pc'[d].node]._tail
                        /\ pc'[d].at # "move"
    BY <1>4 DEF ReadersPlaced, Slot
  <2>2. pc'[d] = pc[d] /\ pc'[d].at # "move"
    BY <1>5, <1>6, <2>1 DEF Moves
  <2>3. /\ pc[d].at \in {"take", "read"} => pc[d].node \in 1 .. qhead
        /\ pc[d].at = "read" => pc[d].index < node[pc[d].node]._tail
    BY DEF QueueInv, Popped, ReadersPlaced
  <2>4. 1 .. qhead \subseteq 1 .. qhead'
    BY <1>t, <1>3, NodeTypes
  <2> QED BY <2>2, <2>3, <2>4
<1>13. ReadersApart' /\ GotRead' /\ GotOrdered' /\ IsInjective(got)'
  <2>1. ReadersApart'
    BY <1>11 DEF QueueInv, Popped, ReadersApart
  <2>2. GotRead'
    BY <1>4, <1>11 DEF QueueInv, Popped, GotRead, ReadFrom, Slot
  <2>3. GotOrdered'
    BY <1>4, <1>11 DEF QueueInv, Popped, GotOrdered, Handling, Slot
  <2> QED BY <1>4, <2>1, <2>2, <2>3 DEF QueueInv, Popped
<1> QED BY <1>3, <1>8, <1>9, <1>10, <1>12, <1>13 DEF Popped

-----------------------------------------------------------------------------
(***************************************************************************)
(* What is counted.                                                        *)
(***************************************************************************)
PushersOut == {"write", "link", "tail", "count"}

LEMMA CountTypes ==
  ASSUME QueueTypes
  PROVE  /\ Begun \in Int /\ Taken \in Int
         /\ Pushing \in Nat /\ Taking \in Nat /\ Ending \in Nat /\ Failing \in Nat
         /\ Cardinality(BegunItems) \in Nat /\ IsFiniteSet(BegunItems)
<1> USE QueueAssumption DEF QueueAssumption
<1>1. Begun \in Int /\ Taken \in Int
  <2>1. (qtail - 1) * SQUEUE_NODE_SIZE \in Int /\ (qhead - 1) * SQUEUE_NODE_SIZE \in Int
    BY NodeTypes
  <2> QED BY <2>1, NodeTypes DEF Begun, Taken
<1>2. \A S \in {Pushers, Poppers} : \A ats : Cardinality(ThreadsAt(S, ats)) \in Nat
  <2>1. SUFFICES ASSUME NEW S \in {Pushers, Poppers}, NEW ats PROVE Cardinality(ThreadsAt(S, ats)) \in Nat
    OBVIOUS
  <2>2. IsFiniteSet(S) /\ ThreadsAt(S, ats) \subseteq S
    BY DEF ThreadsAt
  <2> QED BY <2>2, FS_Subset, FS_CardinalityType
<1>3. Cardinality(BegunItems) \in Nat /\ IsFiniteSet(BegunItems)
  <2>1. IsFiniteSet(1 .. MaxItems)
    BY FS_Interval
  <2>2. IsFiniteSet(Queue!Items)
    BY <2>1, FS_Product DEF Queue!Items
  <2>3. BegunItems \subseteq Queue!Items
    BY DEF BegunItems
  <2> QED BY <2>2, <2>3, FS_Subset, FS_CardinalityType
<1> QED BY <1>1, <1>2, <1>3 DEF Pushing, Taking, Ending, Failing

LEMMA PusherCounts ==
  ASSUME QueueTypes, NEW p \in Pushers, NEW x \in QueueSteps, Steps(p, x)
  PROVE  /\ Pushing' = Pushing - (IF pc[p].at \in PushersOut THEN 1 ELSE 0)
                               + (IF x.at \in PushersOut THEN 1 ELSE 0)
         /\ Taking' = Taking /\ Ending' = Ending /\ Failing' = Failing
<1>1. p \notin Poppers
  BY Extent
<1>2. Pushing' = Pushing - (IF pc[p].at \in PushersOut THEN 1 ELSE 0)
                         + (IF x.at \in PushersOut THEN 1 ELSE 0)
  <2>1. Pushing = Cardinality(ThreadsAt(Pushers, PushersOut))
    BY DEF Pushing, PushersOut
  <2>2. Pushing' = Cardinality(ThreadsAt(Pushers, PushersOut)')
    BY DEF Pushing, PushersOut, ThreadsAt
  <2>3. Cardinality(ThreadsAt(Pushers, PushersOut)') = Cardinality(ThreadsAt(Pushers, PushersOut))
          - (IF p \in Pushers /\ pc[p].at \in PushersOut THEN 1 ELSE 0)
          + (IF p \in Pushers /\ x.at \in PushersOut THEN 1 ELSE 0)
    BY StepCounts
  <2> QED BY <2>1, <2>2, <2>3
<1>3. \A ats : ThreadsAt(Poppers, ats)' = ThreadsAt(Poppers, ats)
  <2>1. \A c \in Poppers : pc'[c] = pc[c]
    BY <1>1, StepsTo
  <2> QED BY <2>1 DEF ThreadsAt
<1> QED BY <1>2, <1>3 DEF Taking, Ending, Failing, ThreadsAt

LEMMA PopperCounts ==
  ASSUME QueueTypes, NEW c \in Poppers, NEW x \in QueueSteps, Steps(c, x)
  PROVE  /\ Pushing' = Pushing
         /\ Taking' = Taking - (IF pc[c].at = "take" THEN 1 ELSE 0) + (IF x.at = "take" THEN 1 ELSE 0)
         /\ Ending' = Ending - (IF pc[c].at \in {"read", "move", "done"} THEN 1 ELSE 0)
                             + (IF x.at \in {"read", "move", "done"} THEN 1 ELSE 0)
         /\ Failing' = Failing - (IF pc[c].at = "restore" THEN 1 ELSE 0) + (IF x.at = "restore" THEN 1 ELSE 0)
<1>1. c \notin Pushers
  BY Extent
<1>2. ThreadsAt(Pushers, PushersOut)' = ThreadsAt(Pushers, PushersOut)
  <2>1. \A p \in Pushers : pc'[p] = pc[p]
    BY <1>1, StepsTo
  <2> QED BY <2>1 DEF ThreadsAt, PushersOut
<1>3. \A ats : Cardinality(ThreadsAt(Poppers, ats)') = Cardinality(ThreadsAt(Poppers, ats))
                 - (IF pc[c].at \in ats THEN 1 ELSE 0) + (IF x.at \in ats THEN 1 ELSE 0)
  BY StepCounts
<1>4. \A ats : Cardinality(ThreadsAt(Poppers, ats))' = Cardinality(ThreadsAt(Poppers, ats)')
  BY DEF ThreadsAt
<1>5. Taking' = Taking - (IF pc[c].at \in {"take"} THEN 1 ELSE 0) + (IF x.at \in {"take"} THEN 1 ELSE 0)
  BY <1>3, <1>4 DEF Taking
<1>6. Ending' = Ending - (IF pc[c].at \in {"read", "move", "done"} THEN 1 ELSE 0)
                       + (IF x.at \in {"read", "move", "done"} THEN 1 ELSE 0)
  BY <1>3, <1>4 DEF Ending
<1>7. Failing' = Failing - (IF pc[c].at \in {"restore"} THEN 1 ELSE 0) + (IF x.at \in {"restore"} THEN 1 ELSE 0)
  BY <1>3, <1>4 DEF Failing
<1>8. Pushing' = Pushing
  BY <1>2 DEF Pushing, ThreadsAt, PushersOut
<1> QED BY <1>5, <1>6, <1>7, <1>8

\* Counted holds again if everything is counted that changes.
LEMMA CountsAdd ==
  ASSUME QueueInv, UNCHANGED tool,
         NEW b \in Int, NEW p \in Int, NEW t \in Int, NEW w \in Int, NEW e \in Int, NEW f \in Int,
         Begun' = Begun + b, Cardinality(BegunItems') = Cardinality(BegunItems) + b,
         Pushing' = Pushing + p, Taken' = Taken + t, Taking' = Taking + w,
         Ending' = Ending + e, Failing' = Failing + f,
         qcount' = qcount + (IF Handling THEN b - p - t + e ELSE b - p - 2 * t - w + e - f),
         Taken + t + Taking + w <= Begun + b - Pushing - p, Ending + e <= Taken + t
  PROVE  Counted'
<1>1. QueueTypes /\ Counted
  BY DEF QueueInv
<1>2. PICK nBegun, nTaken, nPushing, nTaking, nEnding, nFailing, nItems :
        /\ nBegun = Begun /\ nTaken = Taken /\ nPushing = Pushing /\ nTaking = Taking
        /\ nEnding = Ending /\ nFailing = Failing /\ nItems = Cardinality(BegunItems)
  OBVIOUS
<1>3. /\ nBegun \in Int /\ nTaken \in Int /\ nPushing \in Int /\ nTaking \in Int
      /\ nEnding \in Int /\ nFailing \in Int /\ nItems \in Int
  BY <1>1, <1>2, CountTypes
<1>4. PICK h \in BOOLEAN : h <=> Handling
  OBVIOUS
<1>5. nBegun = nItems /\ qcount = IF h THEN nBegun - nPushing - nTaken + nEnding
                                  ELSE nBegun - nPushing - 2 * nTaken - nTaking + nEnding - nFailing
  BY <1>1, <1>2, <1>4 DEF Counted
<1>6. qcount' = IF h THEN (nBegun + b) - (nPushing + p) - (nTaken + t) + (nEnding + e)
                ELSE (nBegun + b) - (nPushing + p) - 2 * (nTaken + t) - (nTaking + w) + (nEnding + e) - (nFailing + f)
  <2>1. qcount' = qcount + (IF h THEN b - p - t + e ELSE b - p - 2 * t - w + e - f)
    BY <1>4
  <2> QED BY ONLY <1>3, <1>5, <2>1, b \in Int, p \in Int, t \in Int, w \in Int, e \in Int, f \in Int
<1>7. /\ nTaken + t + (nTaking + w) <= nBegun + b - (nPushing + p) /\ nEnding + e <= nTaken + t
      /\ nBegun + b = nItems + b
  BY <1>2, <1>3, <1>5
<1>8. Handling' <=> h
  BY <1>4 DEF Handling
<1>9. /\ Begun' = nBegun + b /\ Cardinality(BegunItems)' = nItems + b /\ Pushing' = nPushing + p
      /\ Taken' = nTaken + t /\ Taking' = nTaking + w /\ Ending' = nEnding + e /\ Failing' = nFailing + f
  BY <1>2
<1>10. qcount' = IF Handling' THEN Begun' - Pushing' - Taken' + Ending'
                 ELSE Begun' - Pushing' - 2 * Taken' - Taking' + Ending' - Failing'
  BY ONLY <1>6, <1>8, <1>9
<1>11. Begun' = Cardinality(BegunItems)' /\ Taken' + Taking' <= Begun' - Pushing' /\ Ending' <= Taken'
  <2>1. Begun' = Cardinality(BegunItems)'
    BY ONLY <1>7, <1>9
  <2>2. Taken' + Taking' <= Begun' - Pushing'
    BY ONLY <1>3, <1>7, <1>9, b \in Int, p \in Int, t \in Int, w \in Int
  <2>3. Ending' <= Taken'
    BY ONLY <1>7, <1>9
  <2> QED BY <2>1, <2>2, <2>3
<1> QED BY ONLY <1>10, <1>11 DEF Counted

\* The items that have begun: a pusher's count of a slot adds its item.
LEMMA ItemsSame ==
  ASSUME \A q \in Pushers : sent'[q] = sent[q] /\ (pc'[q].at = "index" <=> pc[q].at = "index")
  PROVE  BegunItems' = BegunItems
<1>1. \A e \in Queue!Items : e[1] \in Pushers
  BY DEF Queue!Items
<1>2. \A e \in Queue!Items : (e[2] <= sent'[e[1]] /\ (pc'[e[1]].at = "index" => e[2] < sent'[e[1]]))
                             <=> (e[2] <= sent[e[1]] /\ (pc[e[1]].at = "index" => e[2] < sent[e[1]]))
  BY <1>1
<1> QED BY <1>2 DEF BegunItems

LEMMA ItemsPushed ==
  ASSUME QueueTypes, NEW p \in Pushers, pc[p].at = "rest", pc'[p].at = "index",
         sent' = [sent EXCEPT ![p] = @ + 1], \A q \in Pushers : q # p => pc'[q] = pc[q]
  PROVE  BegunItems' = BegunItems
<1>1. \A e \in Queue!Items : e[1] \in Pushers /\ e[2] \in Int
  BY QueueAssumption DEF Queue!Items, QueueAssumption
<1>2. \A q \in Pushers : sent[q] \in Int /\ sent'[q] = IF q = p THEN sent[p] + 1 ELSE sent[q]
  BY DEF QueueTypes
<1>3. \A e \in Queue!Items : (e[2] <= sent'[e[1]] /\ (pc'[e[1]].at = "index" => e[2] < sent'[e[1]]))
                             <=> (e[2] <= sent[e[1]] /\ (pc[e[1]].at = "index" => e[2] < sent[e[1]]))
  <2>1. SUFFICES ASSUME NEW e \in Queue!Items
                 PROVE  (e[2] <= sent'[e[1]] /\ (pc'[e[1]].at = "index" => e[2] < sent'[e[1]]))
                        <=> (e[2] <= sent[e[1]] /\ (pc[e[1]].at = "index" => e[2] < sent[e[1]]))
    OBVIOUS
  <2>2. CASE e[1] = p
    BY <1>1, <1>2, <2>2
  <2>3. CASE e[1] # p
    BY <1>1, <1>2, <2>3
  <2> QED BY <2>2, <2>3
<1> QED BY <1>3 DEF BegunItems

LEMMA ItemsBegun ==
  ASSUME QueueTypes, NEW p \in Pushers, pc[p].at = "index", sent[p] > 0, pc'[p].at = "write",
         UNCHANGED sent, \A q \in Pushers : q # p => pc'[q] = pc[q]
  PROVE  Cardinality(BegunItems') = Cardinality(BegunItems) + 1
<1>1. PICK k : k = sent[p]
  OBVIOUS
<1>2. k \in 1 .. MaxItems
  BY <1>1 DEF QueueTypes
<1>3. \A e \in Queue!Items : e[1] \in Pushers /\ e[2] \in Int /\ (e = <<p, k>> <=> e[1] = p /\ e[2] = k)
  BY QueueAssumption DEF Queue!Items, QueueAssumption
<1>4. <<p, k>> \in Queue!Items /\ <<p, k>>[1] = p /\ <<p, k>>[2] = k
  BY <1>2 DEF Queue!Items
<1>5. \A e \in Queue!Items : e \in BegunItems' <=> e \in BegunItems \/ e = <<p, k>>
  <2>1. SUFFICES ASSUME NEW e \in Queue!Items
                 PROVE  (e[2] <= sent[e[1]] /\ (pc'[e[1]].at = "index" => e[2] < sent[e[1]]))
                        <=> (e[2] <= sent[e[1]] /\ (pc[e[1]].at = "index" => e[2] < sent[e[1]])) \/ e = <<p, k>>
    BY DEF BegunItems
  <2>2. CASE e[1] = p
    BY <1>1, <1>2, <1>3, <2>2
  <2>3. CASE e[1] # p
    BY <1>3, <2>3
  <2> QED BY <2>2, <2>3
<1>6. <<p, k>> \notin BegunItems
  BY <1>1, <1>2, <1>4 DEF BegunItems
<1>7. BegunItems' = BegunItems \cup {<<p, k>>}
  <2>1. BegunItems' \subseteq Queue!Items /\ BegunItems \subseteq Queue!Items
    BY DEF BegunItems
  <2> QED BY <1>4, <1>5, <2>1
<1> QED BY <1>6, <1>7, CountTypes, FS_AddElement

-----------------------------------------------------------------------------
\* Types, and the handler, after a pusher's step.
LEMMA PusherStep ==
  ASSUME QueueInv, UNCHANGED <<tool, _locker, qhead, free_ptr, got>>, NEW p \in Pushers, NEW x \in QueueSteps,
         Steps(p, x), x.at \in PushAts, node' \in [Queue!Nodes -> QueueNodes],
         nodes' \in Queue!Nodes, qtail' \in 1 .. nodes', qhead <= qtail', qcount' \in Int, qcount <= qcount',
         sent' \in [Pushers -> 0 .. MaxItems]
  PROVE  QueueTypes' /\ OneHandles'
<1>t. QueueTypes
  BY DEF QueueInv
<1>1. \A c \in Poppers : pc'[c] = pc[c]
  BY <1>t, StepsTo, Extent
<1>2. QueueTypes'
  <2>1. pc' \in [Pushers \cup Poppers -> QueueSteps] /\ \A q \in Pushers : pc'[q].at \in PushAts
    BY <1>t, StepsTo DEF QueueTypes
  <2>2. \A c \in Poppers : pc'[c].at \in PopAts'
    BY <1>t, <1>1 DEF QueueTypes, PopAts, Handling
  <2>3. qhead' \in 1 .. qtail' /\ free_ptr' \in 1 .. qhead'
    BY <1>t, Extent DEF QueueTypes
  <2>4. _locker' \in Poppers \cup {0} /\ got' \in Seq(Queue!Items)
    BY <1>t DEF QueueTypes
  <2> QED BY ONLY <2>1, <2>2, <2>3, <2>4, node' \in [Queue!Nodes -> QueueNodes], nodes' \in Queue!Nodes,
                  qtail' \in 1 .. nodes', qcount' \in Int, sent' \in [Pushers -> 0 .. MaxItems]
          DEF QueueTypes
<1>3. OneHandles'
  <2>1. qcount \in Int
    BY <1>t DEF QueueTypes
  <2>2. (0 .. qcount) \subseteq (0 .. qcount') /\ (1 .. qcount) \subseteq (1 .. qcount')
    BY <2>1
  <2> QED BY <1>1, <2>2 DEF QueueInv, OneHandles, Handling
<1> QED BY <1>2, <1>3

\* Types after a popper's step.
LEMMA PopperStep ==
  ASSUME QueueInv, UNCHANGED <<tool, nodes, qtail, sent>>, NEW c \in Poppers, NEW x \in QueueSteps,
         Steps(c, x), x.at \in PopAts, node' \in [Queue!Nodes -> QueueNodes],
         qhead' \in 1 .. qtail, free_ptr' \in 1 .. qhead', qcount' \in Int,
         _locker' \in Poppers \cup {0}, got' \in Seq(Queue!Items)
  PROVE  QueueTypes'
<1>t. QueueTypes
  BY DEF QueueInv
<1>1. pc' \in [Pushers \cup Poppers -> QueueSteps] /\ \A q \in Pushers : pc'[q].at \in PushAts
  BY <1>t, StepsTo, Extent DEF QueueTypes
<1>2. \A d \in Poppers : pc'[d].at \in PopAts'
  <2>1. PopAts' = PopAts
    BY DEF PopAts, Handling
  <2> QED BY <1>t, <2>1, StepsTo DEF QueueTypes
<1>3. nodes' \in Queue!Nodes /\ qtail' \in 1 .. nodes' /\ sent' \in [Pushers -> 0 .. MaxItems] /\ qhead' \in 1 .. qtail'
  BY <1>t DEF QueueTypes
<1> QED BY ONLY <1>1, <1>2, <1>3, node' \in [Queue!Nodes -> QueueNodes], free_ptr' \in 1 .. qhead', qcount' \in Int,
                _locker' \in Poppers \cup {0}, got' \in Seq(Queue!Items)
        DEF QueueTypes

-----------------------------------------------------------------------------
(***************************************************************************)
(* Every action keeps the invariant.                                       *)
(***************************************************************************)
LEMMA RestsType == Queue!Rests \in QueueSteps /\ Queue!Rests.at = "rest"
<1>1. 0 \in Queue!Slots
  BY Extent
<1> QED BY <1>1 DEF QueueSteps, QueueAts, Queue!Rests, Queue!NoNode

LEMMA PushKeepsInv ==
  ASSUME QueueInv, UNCHANGED tool, NEW p \in Pushers, Queue!Push(p)
  PROVE  QueueInv'
<1>t. QueueTypes
  BY DEF QueueInv
<1>1. PICK x : x = [pc[p] EXCEPT !.at = "index", !.node = qtail]
  OBVIOUS
<1>2. x \in QueueSteps /\ x.at = "index" /\ x.node = qtail
  <2>1. pc[p] \in QueueSteps /\ qtail \in Queue!Nodes
    BY <1>t, NodeTypes
  <2> QED BY ONLY <1>1, <2>1 DEF QueueSteps, QueueAts
<1>3. Steps(p, x)
  BY <1>1 DEF Queue!Push, Steps
<1>4. pc[p].at = "rest" /\ sent[p] < MaxItems /\ sent' = [sent EXCEPT ![p] = @ + 1]
  BY DEF Queue!Push, Queue!At
<1>5. UNCHANGED <<node, nodes, free_ptr, qtail, qhead, qcount, _locker, got>>
  BY DEF Queue!Push, Queue!queue
<1>6. sent' \in [Pushers -> 0 .. MaxItems] /\ \A q \in Pushers : sent'[q] \in Int /\ sent[q] <= sent'[q]
  BY <1>t, <1>4, QueueAssumption DEF QueueTypes, QueueAssumption
<1>7. sent'[p] > 0 /\ sent[p] < sent'[p]
  BY <1>t, <1>4, NodeTypes DEF QueueTypes
<1>8. NodesInRow' /\ LastSlots' /\ Pushed' /\ Popped'
  <2>1. qtail \in 1 .. qtail
    BY <1>t, NodeTypes
  <2> QED BY <1>2, <1>3, <1>4, <1>5, <1>6, <1>7, <2>1, QuietKeeps DEF Busy
<1>9. QueueTypes' /\ OneHandles'
  <2>1. /\ node' \in [Queue!Nodes -> QueueNodes] /\ nodes' \in Queue!Nodes /\ qtail' \in 1 .. nodes'
        /\ qhead <= qtail' /\ qcount' \in Int /\ qcount <= qcount'
    BY <1>t, <1>5, NodeTypes DEF QueueTypes
  <2>2. x.at \in PushAts
    BY <1>2 DEF PushAts
  <2> QED BY <1>2, <1>3, <1>5, <1>6, <2>1, <2>2, PusherStep
<1>10. Counted'
  <2>1. pc'[p].at = "index" /\ \A q \in Pushers : q # p => pc'[q] = pc[q]
    BY <1>t, <1>2, <1>3, StepsTo
  <2>2. BegunItems' = BegunItems
    BY <1>t, <1>4, <2>1, ItemsPushed
  <2>3. Begun' = Begun /\ Taken' = Taken
    BY <1>5 DEF Begun, Taken
  <2>4. Pushing' = Pushing /\ Taking' = Taking /\ Ending' = Ending /\ Failing' = Failing
    BY <1>t, <1>2, <1>3, <1>4, PusherCounts, CountTypes DEF PushersOut
  <2> QED BY <1>5, <2>2, <2>3, <2>4 DEF QueueInv, Counted, Handling
<1> QED BY <1>8, <1>9, <1>10 DEF QueueInv

\* The loop of push_squeue comes to a full node.
LEMMA PushAgainKeepsInv ==
  ASSUME QueueInv, UNCHANGED tool, NEW p \in Pushers, Queue!PushIndex(p),
         ~(node[pc[p].node]._head < SQUEUE_NODE_SIZE)
  PROVE  QueueInv'
<1>t. QueueTypes
  BY DEF QueueInv
<1>1. PICK x : x = [pc[p] EXCEPT !.node = qtail]
  OBVIOUS
<1>2. pc[p].at = "index" /\ pc[p].node \in Queue!Nodes /\ sent[p] > 0
  BY <1>t, NodeTypes, Extent DEF QueueInv, Pushed, WritersPlaced, Queue!PushIndex, Queue!At
<1>3. x \in QueueSteps /\ x.at = "index" /\ x.node = qtail
  BY <1>t, <1>1, <1>2, NodeTypes DEF QueueSteps
<1>4. Steps(p, x)
  <2>1. pc' = [pc EXCEPT ![p] = [pc[p] EXCEPT !.node = qtail]]
    BY DEF Queue!PushIndex
  <2> QED BY <1>1, <2>1 DEF Steps
<1>5. node' = node
  <2>1. node' = [node EXCEPT ![pc[p].node]._head = node[pc[p].node]._head]
    BY DEF Queue!PushIndex, Queue!CountUp
  <2>2. node[pc[p].node] \in QueueNodes /\ node \in [Queue!Nodes -> QueueNodes]
    BY <1>t, <1>2 DEF QueueTypes
  <2>3. [node[pc[p].node] EXCEPT !._head = node[pc[p].node]._head] = node[pc[p].node]
    BY <2>2 DEF QueueNodes
  <2> QED BY <2>1, <2>2, <2>3
<1>6. UNCHANGED <<nodes, free_ptr, qtail, qhead, qcount, _locker, sent, got>>
  BY DEF Queue!PushIndex, Queue!queue
<1>7. \A q \in Pushers : sent'[q] \in Int /\ sent[q] <= sent'[q]
  BY <1>t, <1>6, NodeTypes
<1>8. NodesInRow' /\ LastSlots' /\ Pushed' /\ Popped'
  <2>1. qtail \in 1 .. qtail
    BY <1>t, NodeTypes
  <2> QED BY <1>2, <1>3, <1>4, <1>5, <1>6, <1>7, <2>1, QuietKeeps DEF Busy
<1>9. QueueTypes' /\ OneHandles'
  BY <1>t, <1>3, <1>4, <1>5, <1>6, PusherStep DEF QueueTypes, PushAts
<1>10. Counted'
  <2>1. pc'[p].at = "index" /\ \A q \in Pushers : q # p => pc'[q] = pc[q]
    BY <1>t, <1>3, <1>4, StepsTo
  <2>2. BegunItems' = BegunItems
    BY <1>2, <1>6, <2>1, ItemsSame
  <2>3. Begun' = Begun /\ Taken' = Taken
    BY <1>5, <1>6 DEF Begun, Taken
  <2>4. Pushing' = Pushing /\ Taking' = Taking /\ Ending' = Ending /\ Failing' = Failing
    BY <1>t, <1>2, <1>3, <1>4, PusherCounts, CountTypes DEF PushersOut
  <2> QED BY <1>6, <2>2, <2>3, <2>4 DEF QueueInv, Counted, Handling
<1> QED BY <1>8, <1>9, <1>10 DEF QueueInv

LEMMA PushCountKeepsInv ==
  ASSUME QueueInv, UNCHANGED tool, NEW p \in Pushers, Queue!PushCount(p)
  PROVE  QueueInv'
<1>t. QueueTypes
  BY DEF QueueInv
<1>1. PICK x : x = Queue!Rests
  OBVIOUS
<1>2. x \in QueueSteps /\ x.at = "rest"
  BY <1>1, RestsType
<1>3. Steps(p, x) /\ pc[p].at = "count"
  BY <1>1 DEF Queue!PushCount, Queue!At, Steps
<1>4. UNCHANGED <<node, nodes, free_ptr, qtail, qhead, _locker, sent, got>> /\ qcount' = qcount + 1
  BY DEF Queue!PushCount
<1>5. \A q \in Pushers : sent'[q] \in Int /\ sent[q] <= sent'[q]
  BY <1>t, <1>4, NodeTypes
<1>6. NodesInRow' /\ LastSlots' /\ Pushed' /\ Popped'
  BY <1>2, <1>3, <1>4, <1>5, QuietKeeps DEF Busy
<1>7. QueueTypes' /\ OneHandles'
  <2>1. qcount' \in Int /\ qcount <= qcount'
    BY <1>t, <1>4 DEF QueueTypes
  <2> QED BY <1>t, <1>2, <1>3, <1>4, <2>1, PusherStep DEF QueueTypes, PushAts
<1>8. Counted'
  <2>1. pc'[p].at = "rest" /\ \A q \in Pushers : q # p => pc'[q] = pc[q]
    BY <1>t, <1>2, <1>3, StepsTo
  <2>2. BegunItems' = BegunItems
    BY <1>3, <1>4, <2>1, ItemsSame
  <2>3. Begun' = Begun /\ Taken' = Taken
    BY <1>4 DEF Begun, Taken
  <2>4. Pushing' = Pushing - 1 + 0 /\ Taking' = Taking /\ Ending' = Ending /\ Failing' = Failing
    BY <1>t, <1>2, <1>3, PusherCounts DEF PushersOut
  <2>5. /\ Begun' = Begun + 0 /\ Cardinality(BegunItems') = Cardinality(BegunItems) + 0
        /\ Pushing' = Pushing + (-1) /\ Taken' = Taken + 0 /\ Taking' = Taking + 0
        /\ Ending' = Ending + 0 /\ Failing' = Failing + 0
    BY <1>t, <2>2, <2>3, <2>4, CountTypes
  <2>6. qcount' = qcount + (IF Handling THEN 0 - (-1) - 0 + 0 ELSE 0 - (-1) - 2 * 0 - 0 + 0 - 0)
    BY <1>t, <1>4 DEF QueueTypes
  <2>7. Taken + 0 + Taking + 0 <= Begun + 0 - Pushing - (-1) /\ Ending + 0 <= Taken + 0
    BY <1>t, CountTypes DEF QueueInv, Counted
  <2> QED BY <2>5, <2>6, <2>7, CountsAdd
<1> QED BY <1>6, <1>7, <1>8 DEF QueueInv

\* What a step may write into a node.
LEMMA NodeWritten ==
  ASSUME QueueTypes, NEW n \in Queue!Nodes, NEW v \in 0 .. SQUEUE_NODE_SIZE, NEW m \in Queue!Nodes
  PROVE  /\ [node EXCEPT ![n]._head = v] \in [Queue!Nodes -> QueueNodes]
         /\ [node EXCEPT ![n]._tail = v] \in [Queue!Nodes -> QueueNodes]
         /\ [node EXCEPT ![n]._next = m] \in [Queue!Nodes -> QueueNodes]
<1>1. node \in [Queue!Nodes -> QueueNodes] /\ node[n] \in QueueNodes
  BY DEF QueueTypes
<1>2. [node[n] EXCEPT !._head = v] \in QueueNodes /\ [node[n] EXCEPT !._tail = v] \in QueueNodes
  BY ONLY <1>1, v \in 0 .. SQUEUE_NODE_SIZE DEF QueueNodes
<1>3. [node[n] EXCEPT !._next = m] \in QueueNodes
  BY ONLY <1>1, m \in Queue!Nodes DEF QueueNodes
<1> QED BY ONLY <1>1, <1>2, <1>3

LEMMA SlotWritten ==
  ASSUME QueueTypes, NEW n \in Queue!Nodes, NEW i \in Queue!Slots, NEW e \in Queue!Items
  PROVE  [node EXCEPT ![n].slots[i] = e] \in [Queue!Nodes -> QueueNodes]
<1>1. node \in [Queue!Nodes -> QueueNodes] /\ node[n] \in QueueNodes
  BY DEF QueueTypes
<1>2. [node[n] EXCEPT !.slots[i] = e] \in QueueNodes
  BY ONLY <1>1, i \in Queue!Slots, e \in Queue!Items DEF QueueNodes
<1> QED BY ONLY <1>1, <1>2

LEMMA PushIndexKeepsInv ==
  ASSUME QueueInv, UNCHANGED tool, NEW p \in Pushers, Queue!PushIndex(p),
         node[pc[p].node]._head < SQUEUE_NODE_SIZE
  PROVE  QueueInv'
<1>t. QueueTypes
  BY DEF QueueInv
<1>1. pc[p].at = "index" /\ pc[p].node \in 1 .. qtail /\ sent[p] > 0
  BY DEF QueueInv, Pushed, WritersPlaced, Queue!PushIndex, Queue!At
<1>2. pc[p].node = qtail
  <2>1. pc[p].node \in Queue!Nodes /\ qtail \in Queue!Nodes
    BY <1>t, <1>1, NodeTypes, Extent
  <2>2. pc[p].node < qtail => node[pc[p].node]._head = SQUEUE_NODE_SIZE
    BY <2>1 DEF QueueInv, NodesInRow
  <2>3. node[pc[p].node]._head \in Int /\ pc[p].node \in Int /\ qtail \in Int
    BY <1>t, <2>1, NodeTypes
  <2> QED BY <1>1, <2>2, <2>3, Extent
<1>3. PICK i, x : i = node[qtail]._head /\ x = [pc[p] EXCEPT !.at = "write", !.index = i]
  OBVIOUS
<1>4. i \in Queue!Slots /\ i \in Int /\ i + 1 \in 0 .. SQUEUE_NODE_SIZE
  BY <1>t, <1>2, <1>3, NodeTypes, Extent
<1>5. x \in QueueSteps /\ x.at = "write"
  <2>1. pc[p] \in QueueSteps
    BY <1>t, NodeTypes
  <2> QED BY ONLY <1>3, <1>4, <2>1 DEF QueueSteps, QueueAts
<1>6. Steps(p, x)
  BY <1>2, <1>3 DEF Queue!PushIndex, Steps
<1>7. node' = [node EXCEPT ![qtail]._head = i + 1]
  BY <1>2, <1>3 DEF Queue!PushIndex, Queue!CountUp
<1>8. UNCHANGED <<nodes, free_ptr, qtail, qhead, qcount, _locker, sent, got>>
  BY DEF Queue!PushIndex, Queue!queue
<1>9. NodesInRow' /\ LastSlots' /\ Pushed' /\ Popped'
  BY PushIndexKeeps
<1>10. node' \in [Queue!Nodes -> QueueNodes]
  BY <1>t, <1>4, <1>7, NodeWritten, NodeTypes, Extent
<1>11. QueueTypes' /\ OneHandles'
  <2>1. /\ nodes' \in Queue!Nodes /\ qtail' \in 1 .. nodes' /\ qhead <= qtail' /\ qcount' \in Int
        /\ qcount <= qcount' /\ sent' \in [Pushers -> 0 .. MaxItems]
    BY <1>t, <1>8, NodeTypes DEF QueueTypes
  <2>2. x.at \in PushAts
    BY <1>5 DEF PushAts
  <2> QED BY <1>5, <1>6, <1>8, <1>10, <2>1, <2>2, PusherStep
<1>12. Begun' = Begun + 1 /\ Taken' = Taken
  <2>1. node'[qtail]._head = i + 1 /\ node'[qhead]._tail = node[qhead]._tail
    <3>1. node \in [Queue!Nodes -> QueueNodes] /\ node[qtail] \in QueueNodes /\ node[qhead] \in QueueNodes
          /\ qtail \in Queue!Nodes /\ qhead \in Queue!Nodes
      BY <1>t, NodeTypes DEF QueueTypes
    <3> QED BY ONLY <1>7, <3>1 DEF QueueNodes
  <2>2. PICK b : b = (qtail - 1) * SQUEUE_NODE_SIZE
    OBVIOUS
  <2>3. b \in Int
    BY <1>t, <2>2, NodeTypes, Extent
  <2>4. Begun = b + i /\ Begun' = b + (i + 1)
    BY <1>3, <1>8, <2>1, <2>2 DEF Begun
  <2> QED BY <1>4, <1>8, <2>1, <2>3, <2>4 DEF Taken
<1>13. Counted'
  <2>1. pc'[p].at = "write" /\ \A q \in Pushers : q # p => pc'[q] = pc[q]
    BY <1>t, <1>5, <1>6, StepsTo
  <2>2. Cardinality(BegunItems') = Cardinality(BegunItems) + 1
    BY <1>t, <1>1, <1>8, <2>1, ItemsBegun
  <2>3. Pushing' = Pushing - 0 + 1 /\ Taking' = Taking /\ Ending' = Ending /\ Failing' = Failing
    BY <1>t, <1>1, <1>5, <1>6, PusherCounts DEF PushersOut
  <2>4. /\ Pushing' = Pushing + 1 /\ Taken' = Taken + 0 /\ Taking' = Taking + 0
        /\ Ending' = Ending + 0 /\ Failing' = Failing + 0
    BY <1>t, <1>12, <2>3, CountTypes
  <2>5. qcount' = qcount + (IF Handling THEN 1 - 1 - 0 + 0 ELSE 1 - 1 - 2 * 0 - 0 + 0 - 0)
    BY <1>t, <1>8 DEF QueueTypes
  <2>6. Taken + 0 + Taking + 0 <= Begun + 1 - Pushing - 1 /\ Ending + 0 <= Taken + 0
    BY <1>t, CountTypes DEF QueueInv, Counted
  <2> QED BY <1>12, <2>2, <2>4, <2>5, <2>6, CountsAdd
<1> QED BY <1>9, <1>11, <1>13 DEF QueueInv

LEMMA PushWriteKeepsInv ==
  ASSUME QueueInv, UNCHANGED tool, NEW p \in Pushers, Queue!PushWrite(p)
  PROVE  QueueInv'
<1>t. QueueTypes
  BY DEF QueueInv
<1>1. /\ pc[p].at = "write" /\ pc[p].node \in Queue!Nodes /\ pc[p].index \in Queue!Slots
      /\ <<p, sent[p]>> \in Queue!Items
  <2>1. pc[p].at = "write" /\ pc[p].node \in 1 .. qtail /\ sent[p] > 0
    BY DEF QueueInv, Pushed, WritersPlaced, Queue!PushWrite, Queue!At
  <2>2. sent[p] \in 1 .. MaxItems
    BY <1>t, <2>1, NodeTypes
  <2> QED BY <1>t, <2>1, <2>2, NodeTypes, Extent DEF Queue!Items
<1>2. PICK n, i, x : /\ n = pc[p].node /\ i = pc[p].index
                     /\ x = [pc[p] EXCEPT !.at = IF i = Queue!LastSlot THEN "link" ELSE "count"]
  OBVIOUS
<1>3. x \in QueueSteps /\ x.at \in {"link", "count"}
  <2>1. pc[p] \in QueueSteps
    BY <1>t, NodeTypes
  <2> QED BY ONLY <1>2, <2>1 DEF QueueSteps, QueueAts
<1>4. Steps(p, x)
  BY <1>2 DEF Queue!PushWrite, Queue!Goes, Steps
<1>5. PICK e : e = <<p, sent[p]>>
  OBVIOUS
<1>6. node' = [node EXCEPT ![n].slots[i] = e]
  BY <1>2, <1>5 DEF Queue!PushWrite
<1>7. UNCHANGED <<nodes, free_ptr, qtail, qhead, qcount, _locker, sent, got>>
  BY DEF Queue!PushWrite, Queue!queue
<1>8. NodesInRow' /\ LastSlots' /\ Pushed' /\ Popped'
  BY PushWriteKeeps
<1>9. node' \in [Queue!Nodes -> QueueNodes]
  <2>1. e \in Queue!Items /\ n \in Queue!Nodes /\ i \in Queue!Slots
    BY <1>1, <1>2, <1>5
  <2> QED BY <1>t, <1>6, <2>1, SlotWritten
<1>10. QueueTypes' /\ OneHandles'
  <2>1. /\ nodes' \in Queue!Nodes /\ qtail' \in 1 .. nodes' /\ qhead <= qtail' /\ qcount' \in Int
        /\ qcount <= qcount' /\ sent' \in [Pushers -> 0 .. MaxItems]
    BY <1>t, <1>7, NodeTypes DEF QueueTypes
  <2>2. x.at \in PushAts
    BY <1>3 DEF PushAts
  <2> QED BY <1>3, <1>4, <1>7, <1>9, <2>1, <2>2, PusherStep
<1>11. Counted'
  <2>1. pc'[p].at # "index" /\ \A q \in Pushers : q # p => pc'[q] = pc[q]
    BY <1>t, <1>3, <1>4, StepsTo
  <2>2. BegunItems' = BegunItems
    BY <1>1, <1>7, <2>1, ItemsSame
  <2>3. Begun' = Begun /\ Taken' = Taken
    <3>1. node'[qtail]._head = node[qtail]._head /\ node'[qhead]._tail = node[qhead]._tail
      <4>1. node \in [Queue!Nodes -> QueueNodes] /\ node[qtail] \in QueueNodes /\ node[qhead] \in QueueNodes
            /\ qtail \in Queue!Nodes /\ qhead \in Queue!Nodes
        BY <1>t, NodeTypes DEF QueueTypes
      <4> QED BY ONLY <1>6, <4>1 DEF QueueNodes
    <3> QED BY <1>7, <3>1 DEF Begun, Taken
  <2>4. Pushing' = Pushing - 1 + 1 /\ Taking' = Taking /\ Ending' = Ending /\ Failing' = Failing
    BY <1>t, <1>1, <1>3, <1>4, PusherCounts DEF PushersOut
  <2>5. Pushing' = Pushing
    BY <1>t, <2>4, CountTypes
  <2> QED BY <1>7, <2>2, <2>3, <2>4, <2>5 DEF QueueInv, Counted, Handling
<1> QED BY <1>8, <1>10, <1>11 DEF QueueInv

LEMMA PushLinkKeepsInv ==
  ASSUME QueueInv, UNCHANGED tool, NEW p \in Pushers, Queue!PushLink(p)
  PROVE  QueueInv'
<1>t. QueueTypes
  BY DEF QueueInv
<1>1. pc[p].at = "link"
  BY DEF Queue!PushLink, Queue!At
<1>2. PICK x, m : x = [pc[p] EXCEPT !.at = "tail"] /\ m = nodes'
  OBVIOUS
<1>3. x \in QueueSteps /\ x.at = "tail"
  <2>1. pc[p] \in QueueSteps
    BY <1>t, NodeTypes
  <2> QED BY ONLY <1>2, <2>1 DEF QueueSteps, QueueAts
<1>4. Steps(p, x)
  BY <1>2 DEF Queue!PushLink, Queue!Goes, Steps
<1>5. nodes' \in Queue!Nodes /\ NodesInRow' /\ LastSlots' /\ Pushed' /\ Popped'
  BY PushLinkKeeps
<1>6. node' = [node EXCEPT ![qtail]._next = m] /\ nodes' = nodes + 1
  BY <1>2 DEF Queue!PushLink
<1>7. UNCHANGED <<free_ptr, qtail, qhead, qcount, _locker, sent, got>>
  BY DEF Queue!PushLink, Queue!queue
<1>8. QueueTypes' /\ OneHandles'
  <2>1. 0 \in 0 .. SQUEUE_NODE_SIZE /\ m \in Queue!Nodes /\ qtail \in Queue!Nodes
    BY <1>t, <1>2, <1>5, NodeTypes, Extent
  <2>2. node' \in [Queue!Nodes -> QueueNodes]
    BY <1>t, <1>6, <2>1, NodeWritten
  <2>3. qtail' \in 1 .. nodes' /\ qhead <= qtail'
    BY <1>t, <1>6, <1>7, NodeTypes DEF QueueTypes
  <2>4. qcount' \in Int /\ qcount <= qcount' /\ sent' \in [Pushers -> 0 .. MaxItems]
    BY <1>t, <1>7 DEF QueueTypes
  <2>5. x.at \in PushAts
    BY <1>3 DEF PushAts
  <2> QED BY <1>3, <1>4, <1>5, <1>7, <2>2, <2>3, <2>4, <2>5, PusherStep
<1>9. Counted'
  <2>1. pc'[p].at = "tail" /\ \A q \in Pushers : q # p => pc'[q] = pc[q]
    BY <1>t, <1>3, <1>4, StepsTo
  <2>2. BegunItems' = BegunItems
    BY <1>1, <1>7, <2>1, ItemsSame
  <2>3. Begun' = Begun /\ Taken' = Taken
    <3>1. node'[qtail]._head = node[qtail]._head /\ node'[qhead]._tail = node[qhead]._tail
      <4>1. node \in [Queue!Nodes -> QueueNodes] /\ node[qtail] \in QueueNodes /\ node[qhead] \in QueueNodes
            /\ qtail \in Queue!Nodes /\ qhead \in Queue!Nodes
        BY <1>t, NodeTypes DEF QueueTypes
      <4> QED BY ONLY <1>6, <4>1 DEF QueueNodes
    <3> QED BY <1>7, <3>1 DEF Begun, Taken
  <2>4. Pushing' = Pushing - 1 + 1 /\ Taking' = Taking /\ Ending' = Ending /\ Failing' = Failing
    BY <1>t, <1>1, <1>3, <1>4, PusherCounts DEF PushersOut
  <2>5. Pushing' = Pushing
    BY <1>t, <2>4, CountTypes
  <2> QED BY <1>7, <2>2, <2>3, <2>4, <2>5 DEF QueueInv, Counted, Handling
<1> QED BY <1>5, <1>8, <1>9 DEF QueueInv

LEMMA PushTailKeepsInv ==
  ASSUME QueueInv, UNCHANGED tool, NEW p \in Pushers, Queue!PushTail(p)
  PROVE  QueueInv'
<1>t. QueueTypes
  BY DEF QueueInv
<1>1. pc[p].at = "tail"
  BY DEF Queue!PushTail, Queue!At
<1>2. PICK x : x = [pc[p] EXCEPT !.at = "count"]
  OBVIOUS
<1>3. x \in QueueSteps /\ x.at = "count"
  <2>1. pc[p] \in QueueSteps
    BY <1>t, NodeTypes
  <2> QED BY ONLY <1>2, <2>1 DEF QueueSteps, QueueAts
<1>4. Steps(p, x)
  BY <1>2 DEF Queue!PushTail, Queue!Goes, Steps
<1>5. qtail' = qtail + 1 /\ qtail' = nodes /\ NodesInRow' /\ LastSlots' /\ Pushed' /\ Popped'
  BY PushTailKeeps
<1>6. UNCHANGED <<node, nodes, free_ptr, qhead, qcount, _locker, sent, got>>
  BY DEF Queue!PushTail
<1>7. QueueTypes' /\ OneHandles'
  <2>1. node' \in [Queue!Nodes -> QueueNodes] /\ nodes' \in Queue!Nodes
    BY <1>t, <1>6 DEF QueueTypes
  <2>2. qtail' \in 1 .. nodes' /\ qhead <= qtail'
    BY <1>t, <1>5, <1>6, NodeTypes
  <2>3. qcount' \in Int /\ qcount <= qcount' /\ sent' \in [Pushers -> 0 .. MaxItems]
    BY <1>t, <1>6 DEF QueueTypes
  <2>4. x.at \in PushAts
    BY <1>3 DEF PushAts
  <2> QED BY <1>3, <1>4, <1>6, <2>1, <2>2, <2>3, <2>4, PusherStep
<1>8. Begun' = Begun /\ Taken' = Taken
  <2>1. node[qtail]._head = SQUEUE_NODE_SIZE
    BY <1>1 DEF QueueInv, LastSlots, Closes
  <2>2. node[qtail']._head = 0
    <3>1. qtail' > qtail /\ qtail' \in Queue!Nodes
      BY <1>t, <1>5, NodeTypes
    <3> QED BY <3>1 DEF QueueInv, NodesInRow
  <2>3. PICK q, s : q = qtail /\ s = SQUEUE_NODE_SIZE
    OBVIOUS
  <2>4. q \in Int /\ s \in Int
    BY <1>t, <2>3, NodeTypes, Extent
  <2>5. Begun = (q - 1) * s + s /\ Begun' = ((q + 1) - 1) * s + 0
    BY <1>5, <1>6, <2>1, <2>2, <2>3 DEF Begun
  <2>6. (q - 1) * s + s = ((q + 1) - 1) * s + 0
    BY ONLY <2>4
  <2> QED BY <1>6, <2>5, <2>6 DEF Taken
<1>9. Counted'
  <2>1. pc'[p].at = "count" /\ \A q \in Pushers : q # p => pc'[q] = pc[q]
    BY <1>t, <1>3, <1>4, StepsTo
  <2>2. BegunItems' = BegunItems
    BY <1>1, <1>6, <2>1, ItemsSame
  <2>3. Pushing' = Pushing - 1 + 1 /\ Taking' = Taking /\ Ending' = Ending /\ Failing' = Failing
    BY <1>t, <1>1, <1>3, <1>4, PusherCounts DEF PushersOut
  <2>4. Pushing' = Pushing
    BY <1>t, <2>3, CountTypes
  <2> QED BY <1>6, <1>8, <2>2, <2>3, <2>4 DEF QueueInv, Counted, Handling
<1> QED BY <1>5, <1>7, <1>9 DEF QueueInv

\* A popper's step that does nothing with a slot.
LEMMA QuietPop ==
  ASSUME QueueInv, UNCHANGED <<tool, node, nodes, qtail, qhead, sent, got>>,
         NEW c \in Poppers, NEW x \in QueueSteps, Steps(c, x),
         pc[c].at \notin Busy, x.at \in PopAts \ Busy, x.at = "take" => x.node = qhead,
         qcount' \in Int, _locker' \in Poppers \cup {0}, free_ptr' = free_ptr
  PROVE  /\ QueueTypes' /\ NodesInRow' /\ LastSlots' /\ Pushed' /\ Popped'
         /\ BegunItems' = BegunItems /\ Begun' = Begun /\ Taken' = Taken
<1>t. QueueTypes
  BY DEF QueueInv
<1>1. c \notin Pushers /\ x.at # "index"
  BY Extent DEF PopAts
<1>2. NodesInRow' /\ LastSlots' /\ Pushed' /\ Popped'
  <2>1. \A q \in Pushers : sent'[q] \in Int /\ sent[q] <= sent'[q]
    BY <1>t, NodeTypes
  <2>2. x.at \notin Busy /\ (x.at = "take" => x.node \in 1 .. qhead)
    BY <1>t, NodeTypes
  <2> QED BY <1>1, <2>1, <2>2, QuietKeeps
<1>3. QueueTypes'
  <2>1. node' \in [Queue!Nodes -> QueueNodes] /\ qhead' \in 1 .. qtail /\ got' \in Seq(Queue!Items)
        /\ free_ptr' \in 1 .. qhead'
    BY <1>t DEF QueueTypes
  <2> QED BY <2>1, PopperStep
<1>4. BegunItems' = BegunItems
  <2>1. \A q \in Pushers : pc'[q] = pc[q]
    BY <1>t, <1>1, StepsTo
  <2> QED BY <2>1, ItemsSame
<1>5. Begun' = Begun /\ Taken' = Taken
  BY DEF Begun, Taken
<1> QED BY <1>2, <1>3, <1>4, <1>5

\* The handler's thread goes on.
LEMMA HandlerStep ==
  ASSUME QueueInv, UNCHANGED <<tool, _locker, qcount>>, NEW c \in Poppers, NEW x \in QueueSteps, Steps(c, x),
         Handling => /\ pc[c].at # "rest" /\ x.at # "rest"
                     /\ x.at = "next" => x.batch \in 0 .. qcount
                     /\ x.at \in {"take", "read", "move", "done"} => x.batch \in 1 .. qcount
  PROVE  OneHandles'
<1>t. QueueTypes
  BY DEF QueueInv
<1>1. SUFFICES ASSUME Handling, NEW d \in Poppers
               PROVE  /\ pc'[d].at # "rest" <=> d = _locker
                      /\ pc'[d].at = "next" => pc'[d].batch \in 0 .. qcount
                      /\ pc'[d].at \in {"take", "read", "move", "done"} => pc'[d].batch \in 1 .. qcount
  BY DEF OneHandles, Handling
<1>2. pc'[d] = IF d = c THEN x ELSE pc[d]
  BY <1>t, StepsTo
<1>3. /\ pc[d].at # "rest" <=> d = _locker
      /\ pc[d].at = "next" => pc[d].batch \in 0 .. qcount
      /\ pc[d].at \in {"take", "read", "move", "done"} => pc[d].batch \in 1 .. qcount
  BY <1>1 DEF QueueInv, OneHandles
<1>4. CASE d = c
  BY <1>1, <1>2, <1>3, <1>4
<1>5. CASE d # c
  BY <1>2, <1>3, <1>5
<1> QED BY <1>4, <1>5

LEMMA PopIndexKeepsInv ==
  ASSUME QueueInv, UNCHANGED tool, NEW c \in Poppers, Queue!PopIndex(c),
         node[pc[c].node]._tail < SQUEUE_NODE_SIZE
  PROVE  QueueInv'
<1>t. QueueTypes
  BY DEF QueueInv
<1>1. pc[c].at = "take" /\ pc[c].node \in 1 .. qhead
  BY DEF QueueInv, Popped, ReadersPlaced, Queue!PopIndex, Queue!At
<1>2. pc[c].node = qhead
  <2>1. pc[c].node \in Queue!Nodes /\ qhead \in Queue!Nodes
    BY <1>t, <1>1, NodeTypes, Extent
  <2>2. pc[c].node < qhead => node[pc[c].node]._tail = SQUEUE_NODE_SIZE
    BY <2>1 DEF QueueInv, NodesInRow
  <2>3. node[pc[c].node]._tail \in Int /\ pc[c].node \in Int /\ qhead \in Int
    BY <1>t, <2>1, NodeTypes
  <2> QED BY <1>1, <2>2, <2>3, Extent
<1>3. PICK i, x : i = node[qhead]._tail /\ x = [pc[c] EXCEPT !.at = "read", !.index = i]
  OBVIOUS
<1>4. i \in Queue!Slots /\ i \in Int /\ i + 1 \in 0 .. SQUEUE_NODE_SIZE
  BY <1>t, <1>2, <1>3, NodeTypes, Extent
<1>5. x \in QueueSteps /\ x.at = "read" /\ x.batch = pc[c].batch
  <2>1. pc[c] \in QueueSteps
    BY <1>t, NodeTypes
  <2> QED BY ONLY <1>3, <1>4, <2>1 DEF QueueSteps, QueueAts
<1>6. Steps(c, x)
  BY <1>2, <1>3 DEF Queue!PopIndex, Steps
<1>7. node' = [node EXCEPT ![qhead]._tail = i + 1]
  BY <1>2, <1>3 DEF Queue!PopIndex, Queue!CountUp
<1>8. UNCHANGED <<nodes, free_ptr, qtail, qhead, qcount, _locker, sent, got>>
  BY DEF Queue!PopIndex, Queue!queue
<1>9. NodesInRow' /\ LastSlots' /\ Pushed' /\ Popped'
  BY PopIndexKeeps
<1>10. QueueTypes'
  <2>1. node' \in [Queue!Nodes -> QueueNodes]
    BY <1>t, <1>4, <1>7, NodeWritten, NodeTypes, Extent
  <2>2. qhead' \in 1 .. qtail /\ free_ptr' \in 1 .. qhead' /\ qcount' \in Int
        /\ _locker' \in Poppers \cup {0} /\ got' \in Seq(Queue!Items)
    BY <1>t, <1>8 DEF QueueTypes
  <2>3. x.at \in PopAts
    BY <1>5 DEF PopAts
  <2> QED BY <1>5, <1>6, <1>8, <2>1, <2>2, <2>3, PopperStep
<1>11. OneHandles'
  <2>1. Handling => pc[c].batch \in 1 .. qcount
    BY <1>1 DEF QueueInv, OneHandles
  <2> QED BY <1>1, <1>5, <1>6, <1>8, <2>1, HandlerStep
<1>12. Begun' = Begun /\ Taken' = Taken + 1
  <2>1. node'[qtail]._head = node[qtail]._head /\ node'[qhead]._tail = i + 1
    <3>1. node \in [Queue!Nodes -> QueueNodes] /\ node[qtail] \in QueueNodes /\ node[qhead] \in QueueNodes
          /\ qtail \in Queue!Nodes /\ qhead \in Queue!Nodes
      BY <1>t, NodeTypes DEF QueueTypes
    <3> QED BY ONLY <1>7, <3>1 DEF QueueNodes
  <2>2. PICK b : b = (qhead - 1) * SQUEUE_NODE_SIZE
    OBVIOUS
  <2>3. b \in Int
    BY <1>t, <2>2, NodeTypes, Extent
  <2>4. Taken = b + i /\ Taken' = b + (i + 1)
    BY <1>3, <1>8, <2>1, <2>2 DEF Taken
  <2> QED BY <1>4, <1>8, <2>1, <2>3, <2>4 DEF Begun
<1>13. Counted'
  <2>1. \A q \in Pushers : pc'[q] = pc[q]
    BY <1>t, <1>5, <1>6, StepsTo, Extent
  <2>2. BegunItems' = BegunItems
    BY <1>8, <2>1, ItemsSame
  <2>3. Pushing' = Pushing /\ Taking' = Taking - 1 + 0 /\ Ending' = Ending - 0 + 1 /\ Failing' = Failing - 0 + 0
    BY <1>t, <1>1, <1>5, <1>6, PopperCounts
  <2>4. /\ Begun' = Begun + 0 /\ Cardinality(BegunItems') = Cardinality(BegunItems) + 0
        /\ Pushing' = Pushing + 0 /\ Taken' = Taken + 1 /\ Taking' = Taking + (-1)
        /\ Ending' = Ending + 1 /\ Failing' = Failing + 0
    BY <1>t, <1>12, <2>2, <2>3, CountTypes
  <2>5. qcount' = qcount + (IF Handling THEN 0 - 0 - 1 + 1 ELSE 0 - 0 - 2 * 1 - (-1) + 1 - 0)
    BY <1>t, <1>8 DEF QueueTypes
  <2>6. Taken + 1 + Taking + (-1) <= Begun + 0 - Pushing - 0 /\ Ending + 1 <= Taken + 1
    BY <1>t, CountTypes DEF QueueInv, Counted
  <2> QED BY <2>4, <2>5, <2>6, CountsAdd
<1> QED BY <1>9, <1>10, <1>11, <1>13 DEF QueueInv

\* The loop of pop_squeue comes to an empty node.
LEMMA PopAgainKeepsInv ==
  ASSUME QueueInv, UNCHANGED tool, NEW c \in Poppers, Queue!PopIndex(c),
         ~(node[pc[c].node]._tail < SQUEUE_NODE_SIZE)
  PROVE  QueueInv'
<1>t. QueueTypes
  BY DEF QueueInv
<1>1. PICK x : x = [pc[c] EXCEPT !.node = qhead]
  OBVIOUS
<1>2. pc[c].at = "take" /\ pc[c].node \in Queue!Nodes
  BY <1>t, NodeTypes, Extent DEF QueueInv, Popped, ReadersPlaced, Queue!PopIndex, Queue!At
<1>3. x \in QueueSteps /\ x.at = "take" /\ x.node = qhead /\ x.batch = pc[c].batch
  <2>1. pc[c] \in QueueSteps /\ qhead \in Queue!Nodes
    BY <1>t, NodeTypes
  <2> QED BY ONLY <1>1, <1>2, <2>1 DEF QueueSteps, QueueAts
<1>4. Steps(c, x)
  <2>1. pc' = [pc EXCEPT ![c] = [pc[c] EXCEPT !.node = qhead]]
    BY DEF Queue!PopIndex
  <2> QED BY <1>1, <2>1 DEF Steps
<1>5. node' = node
  <2>1. node' = [node EXCEPT ![pc[c].node]._tail = node[pc[c].node]._tail]
    BY DEF Queue!PopIndex, Queue!CountUp
  <2>2. node[pc[c].node] \in QueueNodes /\ node \in [Queue!Nodes -> QueueNodes]
    BY <1>t, <1>2 DEF QueueTypes
  <2>3. [node[pc[c].node] EXCEPT !._tail = node[pc[c].node]._tail] = node[pc[c].node]
    BY <2>2 DEF QueueNodes
  <2> QED BY <2>1, <2>2, <2>3
<1>6. UNCHANGED <<nodes, free_ptr, qtail, qhead, qcount, _locker, sent, got>>
  BY DEF Queue!PopIndex, Queue!queue
<1>7. /\ QueueTypes' /\ NodesInRow' /\ LastSlots' /\ Pushed' /\ Popped'
      /\ BegunItems' = BegunItems /\ Begun' = Begun /\ Taken' = Taken
  <2>1. x.at \in PopAts \ Busy /\ pc[c].at \notin Busy
    BY <1>2, <1>3 DEF PopAts, Busy
  <2>2. qcount' \in Int /\ _locker' \in Poppers \cup {0}
    BY <1>t, <1>6 DEF QueueTypes
  <2> QED BY <1>3, <1>4, <1>5, <1>6, <2>1, <2>2, QuietPop
<1>8. OneHandles'
  <2>1. Handling => pc[c].batch \in 1 .. qcount
    BY <1>2 DEF QueueInv, OneHandles
  <2> QED BY <1>2, <1>3, <1>4, <1>6, <2>1, HandlerStep
<1>9. Counted'
  <2>1. Pushing' = Pushing /\ Taking' = Taking - 1 + 1 /\ Ending' = Ending - 0 + 0 /\ Failing' = Failing - 0 + 0
    BY <1>t, <1>2, <1>3, <1>4, PopperCounts
  <2>2. Pushing' = Pushing /\ Taking' = Taking /\ Ending' = Ending /\ Failing' = Failing
    BY <1>t, <2>1, CountTypes
  <2> QED BY <1>6, <1>7, <2>2 DEF QueueInv, Counted, Handling
<1> QED BY <1>7, <1>8, <1>9 DEF QueueInv

LEMMA PopReadKeepsInv ==
  ASSUME QueueInv, UNCHANGED tool, NEW c \in Poppers, Queue!PopRead(c)
  PROVE  QueueInv'
<1>t. QueueTypes
  BY DEF QueueInv
<1>1. pc[c].at = "read"
  BY DEF Queue!PopRead, Queue!At
<1>2. PICK x : x = [pc[c] EXCEPT !.at = IF pc[c].index = Queue!LastSlot THEN "move" ELSE "done"]
  OBVIOUS
<1>3. x \in QueueSteps /\ x.at \in {"move", "done"} /\ x.batch = pc[c].batch
  <2>1. pc[c] \in QueueSteps
    BY <1>t, NodeTypes
  <2> QED BY ONLY <1>2, <2>1 DEF QueueSteps, QueueAts
<1>4. Steps(c, x)
  BY <1>2 DEF Queue!PopRead, Steps
<1>5. UNCHANGED <<node, nodes, free_ptr, qtail, qhead, qcount, _locker, sent>>
  BY DEF Queue!PopRead, Queue!queue
<1>6. got' \in Seq(Queue!Items) /\ NodesInRow' /\ LastSlots' /\ Pushed' /\ Popped'
  BY PopReadKeeps
<1>7. QueueTypes'
  <2>1. node' \in [Queue!Nodes -> QueueNodes] /\ qhead' \in 1 .. qtail /\ free_ptr' \in 1 .. qhead'
        /\ qcount' \in Int /\ _locker' \in Poppers \cup {0}
    BY <1>t, <1>5 DEF QueueTypes
  <2>2. x.at \in PopAts
    BY <1>3 DEF PopAts
  <2> QED BY <1>3, <1>4, <1>5, <1>6, <2>1, <2>2, PopperStep
<1>8. OneHandles'
  <2>1. Handling => pc[c].batch \in 1 .. qcount
    BY <1>1 DEF QueueInv, OneHandles
  <2> QED BY <1>1, <1>3, <1>4, <1>5, <2>1, HandlerStep
<1>9. Counted'
  <2>1. \A q \in Pushers : pc'[q] = pc[q]
    BY <1>t, <1>3, <1>4, StepsTo, Extent
  <2>2. BegunItems' = BegunItems
    BY <1>5, <2>1, ItemsSame
  <2>3. Pushing' = Pushing /\ Taking' = Taking - 0 + 0 /\ Ending' = Ending - 1 + 1 /\ Failing' = Failing - 0 + 0
    BY <1>t, <1>1, <1>3, <1>4, PopperCounts
  <2>4. Pushing' = Pushing /\ Taking' = Taking /\ Ending' = Ending /\ Failing' = Failing
    BY <1>t, <2>3, CountTypes
  <2>5. Begun' = Begun /\ Taken' = Taken
    BY <1>5 DEF Begun, Taken
  <2> QED BY <1>5, <2>2, <2>4, <2>5 DEF QueueInv, Counted, Handling
<1> QED BY <1>6, <1>7, <1>8, <1>9 DEF QueueInv

LEMMA PopMoveKeepsInv ==
  ASSUME QueueInv, UNCHANGED tool, NEW c \in Poppers, Queue!PopMove(c)
  PROVE  QueueInv'
<1>t. QueueTypes
  BY DEF QueueInv
<1>1. pc[c].at = "move"
  BY DEF Queue!PopMove, Queue!At
<1>2. PICK x : x = [pc[c] EXCEPT !.at = "done"]
  OBVIOUS
<1>3. x \in QueueSteps /\ x.at = "done" /\ x.batch = pc[c].batch
  <2>1. pc[c] \in QueueSteps
    BY <1>t, NodeTypes
  <2> QED BY ONLY <1>2, <2>1 DEF QueueSteps, QueueAts
<1>4. Steps(c, x)
  BY <1>2 DEF Queue!PopMove, Queue!Goes, Steps
<1>5. UNCHANGED <<node, nodes, qtail, qcount, _locker, sent, got>> /\ free_ptr' \in {free_ptr, qhead}
  BY DEF Queue!PopMove
<1>6. qhead' = qhead + 1 /\ qhead' <= qtail /\ NodesInRow' /\ LastSlots' /\ Pushed' /\ Popped'
  BY PopMoveKeeps
<1>7. QueueTypes'
  <2>1. qhead' \in 1 .. qtail
    BY <1>t, <1>6, NodeTypes
  <2>2. free_ptr' \in 1 .. qhead'
    <3>1. free_ptr \in 1 .. qhead /\ qhead \in Int /\ 1 <= qhead
      BY <1>t, NodeTypes DEF QueueTypes
    <3> QED BY <1>5, <1>6, <3>1
  <2>3. node' \in [Queue!Nodes -> QueueNodes] /\ qcount' \in Int /\ _locker' \in Poppers \cup {0}
        /\ got' \in Seq(Queue!Items)
    BY <1>t, <1>5 DEF QueueTypes
  <2>4. x.at \in PopAts
    BY <1>3 DEF PopAts
  <2> QED BY <1>3, <1>4, <1>5, <2>1, <2>2, <2>3, <2>4, PopperStep
<1>8. OneHandles'
  <2>1. Handling => pc[c].batch \in 1 .. qcount
    BY <1>1 DEF QueueInv, OneHandles
  <2> QED BY <1>1, <1>3, <1>4, <1>5, <2>1, HandlerStep
<1>9. Begun' = Begun /\ Taken' = Taken
  <2>1. node[qhead]._tail = SQUEUE_NODE_SIZE
    BY <1>1 DEF QueueInv, LastSlots, Moves
  <2>2. node[qhead']._tail = 0
    <3>1. qhead' > qhead /\ qhead' \in Queue!Nodes
      BY <1>t, <1>6, NodeTypes, Extent
    <3> QED BY <3>1 DEF QueueInv, NodesInRow
  <2>3. PICK q, s : q = qhead /\ s = SQUEUE_NODE_SIZE
    OBVIOUS
  <2>4. q \in Int /\ s \in Int
    BY <1>t, <2>3, NodeTypes, Extent
  <2>5. Taken = (q - 1) * s + s /\ Taken' = ((q + 1) - 1) * s + 0
    BY <1>5, <1>6, <2>1, <2>2, <2>3 DEF Taken
  <2>6. (q - 1) * s + s = ((q + 1) - 1) * s + 0
    BY ONLY <2>4
  <2> QED BY <1>5, <2>5, <2>6 DEF Begun
<1>10. Counted'
  <2>1. \A q \in Pushers : pc'[q] = pc[q]
    BY <1>t, <1>3, <1>4, StepsTo, Extent
  <2>2. BegunItems' = BegunItems
    BY <1>5, <2>1, ItemsSame
  <2>3. Pushing' = Pushing /\ Taking' = Taking - 0 + 0 /\ Ending' = Ending - 1 + 1 /\ Failing' = Failing - 0 + 0
    BY <1>t, <1>1, <1>3, <1>4, PopperCounts
  <2>4. Pushing' = Pushing /\ Taking' = Taking /\ Ending' = Ending /\ Failing' = Failing
    BY <1>t, <2>3, CountTypes
  <2> QED BY <1>5, <1>9, <2>2, <2>4 DEF QueueInv, Counted, Handling
<1> QED BY <1>6, <1>7, <1>8, <1>10 DEF QueueInv

LEMMA PopKeepsInv ==
  ASSUME QueueInv, UNCHANGED tool, NEW c \in Poppers, Queue!Pop(c)
  PROVE  QueueInv'
<1>t. QueueTypes
  BY DEF QueueInv
<1>1. pc[c].at = "rest" /\ ~Handling
  BY DEF Queue!Pop, Queue!At, Handling
<1>2. PICK x : x = [pc[c] EXCEPT !.at = "reserve"]
  OBVIOUS
<1>3. x \in QueueSteps /\ x.at = "reserve"
  <2>1. pc[c] \in QueueSteps
    BY <1>t, NodeTypes
  <2> QED BY ONLY <1>2, <2>1 DEF QueueSteps, QueueAts
<1>4. Steps(c, x)
  BY <1>2 DEF Queue!Pop, Queue!Goes, Steps
<1>5. UNCHANGED <<node, nodes, free_ptr, qtail, qhead, qcount, _locker, sent, got>>
  BY DEF Queue!Pop, Queue!queue
<1>6. /\ QueueTypes' /\ NodesInRow' /\ LastSlots' /\ Pushed' /\ Popped'
      /\ BegunItems' = BegunItems /\ Begun' = Begun /\ Taken' = Taken
  <2>1. x.at \in PopAts \ Busy /\ pc[c].at \notin Busy /\ x.at # "take"
    BY <1>1, <1>3 DEF PopAts, Busy
  <2>2. qcount' \in Int /\ _locker' \in Poppers \cup {0}
    BY <1>t, <1>5 DEF QueueTypes
  <2> QED BY <1>3, <1>4, <1>5, <2>1, <2>2, QuietPop
<1>7. OneHandles'
  BY <1>1 DEF OneHandles, Handling
<1>8. Counted'
  <2>1. Pushing' = Pushing /\ Taking' = Taking - 0 + 0 /\ Ending' = Ending - 0 + 0 /\ Failing' = Failing - 0 + 0
    BY <1>t, <1>1, <1>3, <1>4, PopperCounts
  <2>2. Pushing' = Pushing /\ Taking' = Taking /\ Ending' = Ending /\ Failing' = Failing
    BY <1>t, <2>1, CountTypes
  <2> QED BY <1>5, <1>6, <2>2 DEF QueueInv, Counted, Handling
<1> QED BY <1>6, <1>7, <1>8 DEF QueueInv

\* A pop of a pool counts down what it takes: if nothing was left, it fails.
LEMMA PopReserveKeepsInv ==
  ASSUME QueueInv, UNCHANGED tool, NEW c \in Poppers, Queue!PopReserve(c)
  PROVE  QueueInv'
<1>t. QueueTypes
  BY DEF QueueInv
<1>1. pc[c].at = "reserve" /\ ~Handling
  <2>1. pc[c].at = "reserve" /\ pc[c].at \in PopAts
    BY <1>t DEF Queue!PopReserve, Queue!At, QueueTypes
  <2> QED BY <2>1 DEF PopAts
<1>2. PICK x : x = IF qcount < 1 THEN [pc[c] EXCEPT !.at = "restore"]
                   ELSE [pc[c] EXCEPT !.at = "take", !.node = qhead]
  OBVIOUS
<1>3. x \in QueueSteps /\ x.at = (IF qcount < 1 THEN "restore" ELSE "take") /\ (x.at = "take" => x.node = qhead)
  <2>1. pc[c] \in QueueSteps /\ qhead \in Queue!Nodes
    BY <1>t, NodeTypes
  <2> QED BY ONLY <1>2, <2>1 DEF QueueSteps, QueueAts
<1>4. Steps(c, x)
  BY <1>2 DEF Queue!PopReserve, Steps
<1>5. UNCHANGED <<node, nodes, free_ptr, qtail, qhead, _locker, sent, got>> /\ qcount' = qcount - 1 /\ qcount \in Int
  BY <1>t DEF Queue!PopReserve, QueueTypes
<1>6. /\ QueueTypes' /\ NodesInRow' /\ LastSlots' /\ Pushed' /\ Popped'
      /\ BegunItems' = BegunItems /\ Begun' = Begun /\ Taken' = Taken
  <2>1. x.at \in PopAts \ Busy /\ pc[c].at \notin Busy
    BY <1>1, <1>3 DEF PopAts, Busy
  <2>2. qcount' \in Int /\ _locker' \in Poppers \cup {0}
    BY <1>t, <1>5 DEF QueueTypes
  <2> QED BY <1>3, <1>4, <1>5, <2>1, <2>2, QuietPop
<1>7. OneHandles'
  BY <1>1 DEF OneHandles, Handling
<1>8. Counted'
  <2>1. CASE qcount < 1
    <3>1. Pushing' = Pushing /\ Taking' = Taking - 0 + 0 /\ Ending' = Ending - 0 + 0 /\ Failing' = Failing - 0 + 1
      BY <1>t, <1>1, <1>3, <1>4, <2>1, PopperCounts
    <3>2. /\ Begun' = Begun + 0 /\ Cardinality(BegunItems') = Cardinality(BegunItems) + 0
          /\ Pushing' = Pushing + 0 /\ Taken' = Taken + 0 /\ Taking' = Taking + 0
          /\ Ending' = Ending + 0 /\ Failing' = Failing + 1
      BY <1>t, <1>6, <3>1, CountTypes
    <3>3. qcount' = qcount + (IF Handling THEN 0 - 0 - 0 + 0 ELSE 0 - 0 - 2 * 0 - 0 + 0 - 1)
      BY <1>1, <1>5
    <3>4. Taken + 0 + Taking + 0 <= Begun + 0 - Pushing - 0 /\ Ending + 0 <= Taken + 0
      BY <1>t, CountTypes DEF QueueInv, Counted
    <3> QED BY <3>2, <3>3, <3>4, CountsAdd
  <2>2. CASE ~(qcount < 1)
    <3>1. Pushing' = Pushing /\ Taking' = Taking - 0 + 1 /\ Ending' = Ending - 0 + 0 /\ Failing' = Failing - 0 + 0
      BY <1>t, <1>1, <1>3, <1>4, <2>2, PopperCounts
    <3>2. /\ Begun' = Begun + 0 /\ Cardinality(BegunItems') = Cardinality(BegunItems) + 0
          /\ Pushing' = Pushing + 0 /\ Taken' = Taken + 0 /\ Taking' = Taking + 1
          /\ Ending' = Ending + 0 /\ Failing' = Failing + 0
      BY <1>t, <1>6, <3>1, CountTypes
    <3>3. qcount' = qcount + (IF Handling THEN 0 - 0 - 0 + 0 ELSE 0 - 0 - 2 * 0 - 1 + 0 - 0)
      BY <1>1, <1>5
    <3>4. Taken + 0 + Taking + 1 <= Begun + 0 - Pushing - 0 /\ Ending + 0 <= Taken + 0
      <4>1. qcount = Begun - Pushing - 2 * Taken - Taking + Ending - Failing /\ Ending <= Taken
        BY <1>1 DEF QueueInv, Counted
      <4> QED BY <1>t, <1>5, <2>2, <4>1, CountTypes
    <3> QED BY <3>2, <3>3, <3>4, CountsAdd
  <2> QED BY <2>1, <2>2
<1> QED BY <1>6, <1>7, <1>8 DEF QueueInv

LEMMA PopRestoreKeepsInv ==
  ASSUME QueueInv, UNCHANGED tool, NEW c \in Poppers, Queue!PopRestore(c)
  PROVE  QueueInv'
<1>t. QueueTypes
  BY DEF QueueInv
<1>1. pc[c].at = "restore" /\ ~Handling
  <2>1. pc[c].at = "restore" /\ pc[c].at \in PopAts
    BY <1>t DEF Queue!PopRestore, Queue!At, QueueTypes
  <2> QED BY <2>1 DEF PopAts
<1>2. PICK x : x = Queue!Rests
  OBVIOUS
<1>3. x \in QueueSteps /\ x.at = "rest"
  BY <1>2, RestsType
<1>4. Steps(c, x)
  BY <1>2 DEF Queue!PopRestore, Steps
<1>5. UNCHANGED <<node, nodes, free_ptr, qtail, qhead, _locker, sent, got>> /\ qcount' = qcount + 1 /\ qcount \in Int
  BY <1>t DEF Queue!PopRestore, QueueTypes
<1>6. /\ QueueTypes' /\ NodesInRow' /\ LastSlots' /\ Pushed' /\ Popped'
      /\ BegunItems' = BegunItems /\ Begun' = Begun /\ Taken' = Taken
  <2>1. x.at \in PopAts \ Busy /\ pc[c].at \notin Busy /\ x.at # "take"
    BY <1>1, <1>3 DEF PopAts, Busy
  <2>2. qcount' \in Int /\ _locker' \in Poppers \cup {0}
    BY <1>t, <1>5 DEF QueueTypes
  <2> QED BY <1>3, <1>4, <1>5, <2>1, <2>2, QuietPop
<1>7. OneHandles'
  BY <1>1 DEF OneHandles, Handling
<1>8. Counted'
  <2>1. Pushing' = Pushing /\ Taking' = Taking - 0 + 0 /\ Ending' = Ending - 0 + 0 /\ Failing' = Failing - 1 + 0
    BY <1>t, <1>1, <1>3, <1>4, PopperCounts
  <2>2. /\ Begun' = Begun + 0 /\ Cardinality(BegunItems') = Cardinality(BegunItems) + 0
        /\ Pushing' = Pushing + 0 /\ Taken' = Taken + 0 /\ Taking' = Taking + 0
        /\ Ending' = Ending + 0 /\ Failing' = Failing + (-1)
    BY <1>t, <1>6, <2>1, CountTypes
  <2>3. qcount' = qcount + (IF Handling THEN 0 - 0 - 0 + 0 ELSE 0 - 0 - 2 * 0 - 0 + 0 - (-1))
    BY <1>1, <1>5
  <2>4. Taken + 0 + Taking + 0 <= Begun + 0 - Pushing - 0 /\ Ending + 0 <= Taken + 0
    BY <1>t, CountTypes DEF QueueInv, Counted
  <2> QED BY <2>2, <2>3, <2>4, CountsAdd
<1> QED BY <1>6, <1>7, <1>8 DEF QueueInv

LEMMA PopDoneKeepsInv ==
  ASSUME QueueInv, UNCHANGED tool, NEW c \in Poppers, Queue!PopDone(c)
  PROVE  QueueInv'
<1>t. QueueTypes
  BY DEF QueueInv
<1>1. pc[c].at = "done" /\ ~Handling
  BY DEF Queue!PopDone, Queue!At, Handling
<1>2. PICK x : x = Queue!Rests
  OBVIOUS
<1>3. x \in QueueSteps /\ x.at = "rest"
  BY <1>2, RestsType
<1>4. Steps(c, x)
  BY <1>2 DEF Queue!PopDone, Steps
<1>5. UNCHANGED <<node, nodes, free_ptr, qtail, qhead, _locker, sent, got>> /\ qcount' = qcount - 1 /\ qcount \in Int
  BY <1>t DEF Queue!PopDone, QueueTypes
<1>6. /\ QueueTypes' /\ NodesInRow' /\ LastSlots' /\ Pushed' /\ Popped'
      /\ BegunItems' = BegunItems /\ Begun' = Begun /\ Taken' = Taken
  <2>1. x.at \in PopAts \ Busy /\ pc[c].at \notin Busy /\ x.at # "take"
    BY <1>1, <1>3 DEF PopAts, Busy
  <2>2. qcount' \in Int /\ _locker' \in Poppers \cup {0}
    BY <1>t, <1>5 DEF QueueTypes
  <2> QED BY <1>3, <1>4, <1>5, <2>1, <2>2, QuietPop
<1>7. OneHandles'
  BY <1>1 DEF OneHandles, Handling
<1>8. Counted'
  <2>1. Pushing' = Pushing /\ Taking' = Taking - 0 + 0 /\ Ending' = Ending - 1 + 0 /\ Failing' = Failing - 0 + 0
    BY <1>t, <1>1, <1>3, <1>4, PopperCounts
  <2>2. /\ Begun' = Begun + 0 /\ Cardinality(BegunItems') = Cardinality(BegunItems) + 0
        /\ Pushing' = Pushing + 0 /\ Taken' = Taken + 0 /\ Taking' = Taking + 0
        /\ Ending' = Ending + (-1) /\ Failing' = Failing + 0
    BY <1>t, <1>6, <2>1, CountTypes
  <2>3. qcount' = qcount + (IF Handling THEN 0 - 0 - 0 + (-1) ELSE 0 - 0 - 2 * 0 - 0 + (-1) - 0)
    BY <1>1, <1>5
  <2>4. Taken + 0 + Taking + 0 <= Begun + 0 - Pushing - 0 /\ Ending + (-1) <= Taken + 0
    BY <1>t, CountTypes DEF QueueInv, Counted
  <2> QED BY <2>2, <2>3, <2>4, CountsAdd
<1> QED BY <1>6, <1>7, <1>8 DEF QueueInv

\* A thread finds the handler free, and no other runs it.
LEMMA DoHandlerKeepsInv ==
  ASSUME QueueInv, UNCHANGED tool, NEW c \in Poppers, Queue!DoHandler(c)
  PROVE  QueueInv'
<1>t. QueueTypes
  BY DEF QueueInv
<1>1. pc[c].at = "rest" /\ Handling /\ _locker = 0 /\ qcount \in Int
  BY <1>t DEF Queue!DoHandler, Queue!LockSet, Queue!NoNode, Queue!At, Handling, QueueTypes
<1>2. PICK x : x = [Queue!Rests EXCEPT !.at = "next", !.batch = qcount]
  OBVIOUS
<1>3. x \in QueueSteps /\ x.at = "next" /\ x.batch = qcount
  BY ONLY <1>1, <1>2, RestsType DEF QueueSteps, QueueAts
<1>4. Steps(c, x)
  BY <1>2 DEF Queue!DoHandler, Steps
<1>5. UNCHANGED <<node, nodes, free_ptr, qtail, qhead, qcount, sent, got>> /\ _locker' = c
  BY DEF Queue!DoHandler, Queue!queue
<1>6. /\ QueueTypes' /\ NodesInRow' /\ LastSlots' /\ Pushed' /\ Popped'
      /\ BegunItems' = BegunItems /\ Begun' = Begun /\ Taken' = Taken
  <2>1. x.at \in PopAts \ Busy /\ pc[c].at \notin Busy /\ x.at # "take"
    BY <1>1, <1>3 DEF PopAts, Busy
  <2>2. qcount' \in Int /\ _locker' \in Poppers \cup {0}
    BY <1>1, <1>5
  <2> QED BY <1>3, <1>4, <1>5, <2>1, <2>2, QuietPop
<1>7. OneHandles'
  <2>1. \A d \in Poppers : pc'[d] = IF d = c THEN x ELSE pc[d]
    BY <1>t, <1>3, <1>4, StepsTo
  <2>2. \A d \in Poppers : pc[d].at = "rest"
    BY <1>1, QueueAssumption DEF QueueInv, OneHandles, QueueAssumption
  <2>3. qcount \in 0 .. qcount
    <3>1. qcount = Begun - Pushing - Taken + Ending /\ Taken + Taking <= Begun - Pushing
      BY <1>1 DEF QueueInv, Counted
    <3> QED BY <1>t, <3>1, CountTypes
  <2> QED BY <1>3, <1>5, <2>1, <2>2, <2>3 DEF OneHandles
<1>8. Counted'
  <2>1. Pushing' = Pushing /\ Taking' = Taking - 0 + 0 /\ Ending' = Ending - 0 + 0 /\ Failing' = Failing - 0 + 0
    BY <1>t, <1>1, <1>3, <1>4, PopperCounts
  <2>2. Pushing' = Pushing /\ Taking' = Taking /\ Ending' = Ending /\ Failing' = Failing
    BY <1>t, <2>1, CountTypes
  <2> QED BY <1>5, <1>6, <2>2 DEF QueueInv, Counted, Handling
<1> QED BY <1>6, <1>7, <1>8 DEF QueueInv

LEMMA HandlerPopKeepsInv ==
  ASSUME QueueInv, UNCHANGED tool, NEW c \in Poppers, Queue!HandlerPop(c)
  PROVE  QueueInv'
<1>t. QueueTypes
  BY DEF QueueInv
<1>1. pc[c].at = "next" /\ Handling /\ pc[c].batch \in 1 .. qcount
  <2>1. pc[c].at = "next" /\ pc[c].batch > 0 /\ pc[c].at \in PopAts
    BY <1>t DEF Queue!HandlerPop, Queue!At, QueueTypes
  <2>2. Handling
    BY <2>1 DEF PopAts
  <2>3. pc[c].batch \in 0 .. qcount
    BY <2>1, <2>2 DEF QueueInv, OneHandles
  <2> QED BY <2>1, <2>2, <2>3
<1>2. PICK x : x = [pc[c] EXCEPT !.at = "take", !.node = qhead]
  OBVIOUS
<1>3. x \in QueueSteps /\ x.at = "take" /\ x.node = qhead /\ x.batch = pc[c].batch
  <2>1. pc[c] \in QueueSteps /\ qhead \in Queue!Nodes
    BY <1>t, NodeTypes
  <2> QED BY ONLY <1>2, <2>1 DEF QueueSteps, QueueAts
<1>4. Steps(c, x)
  BY <1>2 DEF Queue!HandlerPop, Steps
<1>5. UNCHANGED <<node, nodes, free_ptr, qtail, qhead, qcount, _locker, sent, got>>
  BY DEF Queue!HandlerPop, Queue!queue
<1>6. /\ QueueTypes' /\ NodesInRow' /\ LastSlots' /\ Pushed' /\ Popped'
      /\ BegunItems' = BegunItems /\ Begun' = Begun /\ Taken' = Taken
  <2>1. x.at \in PopAts \ Busy /\ pc[c].at \notin Busy
    BY <1>1, <1>3 DEF PopAts, Busy
  <2>2. qcount' \in Int /\ _locker' \in Poppers \cup {0}
    BY <1>t, <1>5 DEF QueueTypes
  <2> QED BY <1>3, <1>4, <1>5, <2>1, <2>2, QuietPop
<1>7. OneHandles'
  BY <1>1, <1>3, <1>4, <1>5, HandlerStep
<1>8. Counted'
  <2>1. Pushing' = Pushing /\ Taking' = Taking - 0 + 1 /\ Ending' = Ending - 0 + 0 /\ Failing' = Failing - 0 + 0
    BY <1>t, <1>1, <1>3, <1>4, PopperCounts
  <2>2. /\ Begun' = Begun + 0 /\ Cardinality(BegunItems') = Cardinality(BegunItems) + 0
        /\ Pushing' = Pushing + 0 /\ Taken' = Taken + 0 /\ Taking' = Taking + 1
        /\ Ending' = Ending + 0 /\ Failing' = Failing + 0
    BY <1>t, <1>6, <2>1, CountTypes
  <2>3. qcount' = qcount + (IF Handling THEN 0 - 0 - 0 + 0 ELSE 0 - 0 - 2 * 0 - 1 + 0 - 0)
    BY <1>t, <1>1, <1>5 DEF QueueTypes
  <2>4. Taking = 0 /\ Ending = 0
    <3>1. \A d \in Poppers : d # c => pc[d].at = "rest"
      BY <1>1 DEF QueueInv, OneHandles
    <3>2. ThreadsAt(Poppers, {"take"}) = {} /\ ThreadsAt(Poppers, {"read", "move", "done"}) = {}
      BY <1>1, <3>1 DEF ThreadsAt
    <3> QED BY <3>2, FS_EmptySet DEF Taking, Ending
  <2>5. Taken + 0 + Taking + 1 <= Begun + 0 - Pushing - 0 /\ Ending + 0 <= Taken + 0
    <3>1. qcount = Begun - Pushing - Taken + Ending /\ Ending <= Taken /\ qcount \in Int /\ 1 <= qcount
      BY <1>t, <1>1 DEF QueueInv, Counted, QueueTypes
    <3> QED BY <1>t, <2>4, <3>1, CountTypes
  <2> QED BY <2>2, <2>3, <2>5, CountsAdd
<1> QED BY <1>6, <1>7, <1>8 DEF QueueInv

LEMMA HandleKeepsInv ==
  ASSUME QueueInv, UNCHANGED tool, NEW c \in Poppers, Queue!Handle(c)
  PROVE  QueueInv'
<1>t. QueueTypes
  BY DEF QueueInv
<1>1. pc[c].at = "done" /\ Handling /\ pc[c].batch \in 1 .. qcount /\ qcount \in Int
  BY <1>t DEF Queue!Handle, Queue!At, Handling, QueueInv, OneHandles, QueueTypes
<1>2. PICK x : x = [Queue!Rests EXCEPT !.at = "next", !.batch = pc[c].batch - 1]
  OBVIOUS
<1>3. x \in QueueSteps /\ x.at = "next" /\ x.batch = pc[c].batch - 1
  <2>1. pc[c].batch - 1 \in Int
    BY <1>1
  <2> QED BY ONLY <1>2, <2>1, RestsType DEF QueueSteps, QueueAts
<1>4. Steps(c, x)
  BY <1>2 DEF Queue!Handle, Steps
<1>5. UNCHANGED <<node, nodes, free_ptr, qtail, qhead, _locker, sent, got>> /\ qcount' = qcount - 1
  BY DEF Queue!Handle
<1>6. /\ QueueTypes' /\ NodesInRow' /\ LastSlots' /\ Pushed' /\ Popped'
      /\ BegunItems' = BegunItems /\ Begun' = Begun /\ Taken' = Taken
  <2>1. x.at \in PopAts \ Busy /\ pc[c].at \notin Busy /\ x.at # "take"
    BY <1>1, <1>3 DEF PopAts, Busy
  <2>2. qcount' \in Int /\ _locker' \in Poppers \cup {0}
    BY <1>t, <1>1, <1>5 DEF QueueTypes
  <2> QED BY <1>3, <1>4, <1>5, <2>1, <2>2, QuietPop
<1>7. OneHandles'
  <2>1. \A d \in Poppers : pc'[d] = IF d = c THEN x ELSE pc[d]
    BY <1>t, <1>3, <1>4, StepsTo
  <2>2. \A d \in Poppers : pc[d].at # "rest" <=> d = _locker
    BY <1>1 DEF QueueInv, OneHandles
  <2>3. c = _locker
    BY <1>1, <2>2
  <2>4. \A d \in Poppers : d # c => pc'[d].at = "rest"
    BY <2>1, <2>2, <2>3
  <2>5. x.batch \in 0 .. qcount'
    BY <1>1, <1>3, <1>5
  <2>6. pc'[c] = x /\ _locker' = c
    BY <1>5, <2>1, <2>3
  <2> QED BY <1>3, <2>4, <2>5, <2>6 DEF OneHandles
<1>8. Counted'
  <2>1. Pushing' = Pushing /\ Taking' = Taking - 0 + 0 /\ Ending' = Ending - 1 + 0 /\ Failing' = Failing - 0 + 0
    BY <1>t, <1>1, <1>3, <1>4, PopperCounts
  <2>2. /\ Begun' = Begun + 0 /\ Cardinality(BegunItems') = Cardinality(BegunItems) + 0
        /\ Pushing' = Pushing + 0 /\ Taken' = Taken + 0 /\ Taking' = Taking + 0
        /\ Ending' = Ending + (-1) /\ Failing' = Failing + 0
    BY <1>t, <1>6, <2>1, CountTypes
  <2>3. qcount' = qcount + (IF Handling THEN 0 - 0 - 0 + (-1) ELSE 0 - 0 - 2 * 0 - 0 + (-1) - 0)
    BY <1>1, <1>5
  <2>4. Taken + 0 + Taking + 0 <= Begun + 0 - Pushing - 0 /\ Ending + (-1) <= Taken + 0
    BY <1>t, CountTypes DEF QueueInv, Counted
  <2> QED BY <2>2, <2>3, <2>4, CountsAdd
<1> QED BY <1>6, <1>7, <1>8 DEF QueueInv

LEMMA UnlockKeepsInv ==
  ASSUME QueueInv, UNCHANGED tool, NEW c \in Poppers, Queue!Unlock(c)
  PROVE  QueueInv'
<1>t. QueueTypes
  BY DEF QueueInv
<1>1. pc[c].at = "next" /\ Handling
  <2>1. pc[c].at = "next" /\ pc[c].at \in PopAts
    BY <1>t DEF Queue!Unlock, Queue!At, QueueTypes
  <2> QED BY <2>1 DEF PopAts
<1>2. PICK x : x = Queue!Rests
  OBVIOUS
<1>3. x \in QueueSteps /\ x.at = "rest"
  BY <1>2, RestsType
<1>4. Steps(c, x)
  BY <1>2 DEF Queue!Unlock, Steps
<1>5. UNCHANGED <<node, nodes, free_ptr, qtail, qhead, qcount, sent, got>> /\ _locker' = 0
  BY DEF Queue!Unlock, Queue!queue, Queue!NoNode
<1>6. /\ QueueTypes' /\ NodesInRow' /\ LastSlots' /\ Pushed' /\ Popped'
      /\ BegunItems' = BegunItems /\ Begun' = Begun /\ Taken' = Taken
  <2>1. x.at \in PopAts \ Busy /\ pc[c].at \notin Busy /\ x.at # "take"
    BY <1>1, <1>3 DEF PopAts, Busy
  <2>2. qcount' \in Int /\ _locker' \in Poppers \cup {0}
    BY <1>t, <1>5 DEF QueueTypes
  <2> QED BY <1>3, <1>4, <1>5, <2>1, <2>2, QuietPop
<1>7. OneHandles'
  <2>1. \A d \in Poppers : pc'[d] = IF d = c THEN x ELSE pc[d]
    BY <1>t, <1>3, <1>4, StepsTo
  <2>2. \A d \in Poppers : pc'[d].at = "rest"
    BY <1>1, <1>3, <2>1 DEF QueueInv, OneHandles
  <2> QED BY <1>5, <2>2, QueueAssumption DEF OneHandles, QueueAssumption
<1>8. Counted'
  <2>1. Pushing' = Pushing /\ Taking' = Taking - 0 + 0 /\ Ending' = Ending - 0 + 0 /\ Failing' = Failing - 0 + 0
    BY <1>t, <1>1, <1>3, <1>4, PopperCounts
  <2>2. Pushing' = Pushing /\ Taking' = Taking /\ Ending' = Ending /\ Failing' = Failing
    BY <1>t, <2>1, CountTypes
  <2> QED BY <1>5, <1>6, <2>2 DEF QueueInv, Counted, Handling
<1> QED BY <1>6, <1>7, <1>8 DEF QueueInv

-----------------------------------------------------------------------------
LEMMA QueueInit ==
  ASSUME Queue!SqueueInit
  PROVE  QueueInv
<1> USE QueueAssumption DEF QueueAssumption
<1>1. PICK last \in Nat : Queue!Nodes = 1 .. last /\ 1 \in 1 .. last
  BY Extent
<1>2. /\ node = [n \in Queue!Nodes |-> Queue!NewNode] /\ nodes = 1
      /\ free_ptr = 1 /\ qtail = 1 /\ qhead = 1 /\ qcount = 0 /\ _locker = 0
      /\ pc = [t \in Pushers \cup Poppers |-> Queue!Rests]
      /\ sent = [p \in Pushers |-> 0] /\ got = <<>>
  BY DEF Queue!SqueueInit, Queue!NoNode
<1>3. \A n \in Queue!Nodes : /\ node[n]._head = 0 /\ node[n]._tail = 0 /\ node[n]._next = 0
                             /\ \A i \in Queue!Slots : Slot(n, i) = Queue!NULL
  BY <1>2 DEF Queue!NewNode, Slot, Queue!NoNode
<1>4. \A t \in Pushers \cup Poppers : pc[t].at = "rest" /\ pc[t] \in QueueSteps
  BY <1>2, RestsType
<1>5. QueueTypes
  <2>1. node \in [Queue!Nodes -> QueueNodes]
    <3>1. [i \in Queue!Slots |-> Queue!NULL] \in [Queue!Slots -> Queue!Items \cup {Queue!NULL}]
      OBVIOUS
    <3>2. 0 \in 0 .. SQUEUE_NODE_SIZE
      OBVIOUS
    <3>3. Queue!NewNode \in QueueNodes
      BY ONLY <3>1, <3>2 DEF Queue!NewNode, QueueNodes, Queue!NoNode
    <3> QED BY <1>2, <3>3
  <2>2. pc \in [Pushers \cup Poppers -> QueueSteps]
    BY <1>2, RestsType
  <2>3. (\A p \in Pushers : pc[p].at \in PushAts) /\ (\A c \in Poppers : pc[c].at \in PopAts)
    BY <1>4 DEF PushAts, PopAts
  <2>4. sent \in [Pushers -> 0 .. MaxItems] /\ got \in Seq(Queue!Items)
    BY <1>2
  <2> QED BY <1>1, <1>2, <2>1, <2>2, <2>3, <2>4 DEF QueueTypes
<1>6. NodesInRow
  BY <1>1, <1>2, <1>3 DEF NodesInRow
<1>7. LastSlots
  <2>1. (\A p \in Pushers : ~Closes(p)) /\ (\A c \in Poppers : ~Moves(c))
    BY <1>4 DEF Closes, Moves
  <2> QED BY <1>1, <1>2, <1>3, <1>4, <2>1 DEF LastSlots
<1>8. Pushed
  <2>1. \A p \in Pushers : \A n, i : ~Writes(p, n, i)
    BY <1>4 DEF Writes
  <2>2. WritersPlaced /\ WritersApart
    BY <1>4, <2>1 DEF WritersPlaced, WritersApart
  <2>3. SlotsFilled
    <3>1. \A i \in Queue!Slots : ~(i < 0)
      BY Extent
    <3> QED BY <1>3, <3>1 DEF SlotsFilled
  <2>4. \A n \in Queue!Nodes, i \in Queue!Slots, p \in Pushers, k \in 1 .. MaxItems : ~HasItem(n, i, p, k)
    BY <1>3 DEF HasItem, Queue!NULL
  <2>5. ItemsSent /\ ItemsOrdered
    BY <2>4 DEF ItemsSent, ItemsOrdered
  <2> QED BY <2>2, <2>3, <2>5 DEF Pushed
<1>9. Popped
  <2>1. DOMAIN got = {}
    BY <1>2
  <2>2. ReadersPlaced /\ ReadersApart
    BY <1>4 DEF ReadersPlaced, ReadersApart, Reads
  <2> QED BY <2>1, <2>2 DEF Popped, GotRead, GotOrdered, IsInjective
<1>10. Counted
  <2>1. \A S \in {Pushers, Poppers} : \A ats : "rest" \notin ats => ThreadsAt(S, ats) = {}
    BY <1>4 DEF ThreadsAt
  <2>2. Pushing = 0 /\ Taking = 0 /\ Ending = 0 /\ Failing = 0
    BY <2>1, FS_EmptySet DEF Pushing, Taking, Ending, Failing
  <2>3. BegunItems = {}
    BY <1>2 DEF BegunItems, Queue!Items
  <2>4. Begun = 0 /\ Taken = 0
    BY <1>1, <1>2, <1>3 DEF Begun, Taken
  <2> QED BY <1>2, <2>2, <2>3, <2>4, FS_EmptySet DEF Counted
<1>11. OneHandles
  BY <1>2, <1>4 DEF OneHandles
<1> QED BY <1>5, <1>6, <1>7, <1>8, <1>9, <1>10, <1>11 DEF QueueInv

LEMMA QueueNext ==
  ASSUME QueueInv, UNCHANGED tool, Queue!SqueueNext
  PROVE  QueueInv'
<1>1. CASE \E p \in Pushers : Queue!Push(p) \/ Queue!PushStep(p)
  <2>1. PICK p \in Pushers : Queue!Push(p) \/ Queue!PushStep(p)
    BY <1>1
  <2>2. CASE Queue!PushIndex(p)
    BY <2>2, PushIndexKeepsInv, PushAgainKeepsInv
  <2> QED BY <2>1, <2>2, PushKeepsInv, PushWriteKeepsInv, PushLinkKeepsInv, PushTailKeepsInv, PushCountKeepsInv
          DEF Queue!PushStep
<1>2. CASE \E c \in Poppers : Queue!PopStep(c)
  <2>1. PICK c \in Poppers : Queue!PopStep(c)
    BY <1>2
  <2>2. CASE Queue!PopIndex(c)
    BY <2>2, PopIndexKeepsInv, PopAgainKeepsInv
  <2> QED BY <2>1, <2>2, PopReadKeepsInv, PopMoveKeepsInv, PopKeepsInv, PopReserveKeepsInv, PopRestoreKeepsInv,
             PopDoneKeepsInv, DoHandlerKeepsInv, HandlerPopKeepsInv, HandleKeepsInv, UnlockKeepsInv
          DEF Queue!PopStep
<1> QED BY <1>1, <1>2 DEF Queue!SqueueNext

LEMMA QueueStutters ==
  ASSUME QueueInv, UNCHANGED <<tool, queueVars>>
  PROVE  QueueInv'
<1>1. QueueTypes'
  BY DEF QueueInv, QueueTypes, queueVars, PopAts, Handling
<1>2. NodesInRow' /\ LastSlots'
  BY DEF QueueInv, queueVars, NodesInRow, LastSlots, Closes, Moves
<1>3. Pushed'
  BY DEF QueueInv, queueVars, Pushed, WritersPlaced, WritersApart, SlotsFilled, ItemsSent, ItemsOrdered,
         HasItem, Writes, Slot
<1>4. Popped'
  BY DEF QueueInv, queueVars, Popped, ReadersPlaced, ReadersApart, GotRead, GotOrdered, ReadFrom, Reads, Slot, Handling
<1>5. Counted'
  BY DEF QueueInv, queueVars, Counted, Begun, Taken, Pushing, Taking, Ending, Failing, ThreadsAt, BegunItems, Handling
<1>6. OneHandles'
  BY DEF QueueInv, queueVars, OneHandles, Handling
<1> QED BY <1>1, <1>2, <1>3, <1>4, <1>5, <1>6 DEF QueueInv

-----------------------------------------------------------------------------
\* What the invariant says of the messages that were popped, and of who waits.
LEMMA QueueOrdered ==
  ASSUME QueueInv
  PROVE  Queue!ItemsInOrder
<1>t. QueueTypes
  BY DEF QueueInv
<1>1. Queue!IsInjective(got)
  BY DEF QueueInv, Popped, IsInjective, Queue!IsInjective
<1>2. Handling => \A i, j \in DOMAIN got : i < j /\ got[i][1] = got[j][1] => got[i][2] < got[j][2]
  <2>1. SUFFICES ASSUME Handling, NEW i \in DOMAIN got, NEW j \in DOMAIN got, i < j, got[i][1] = got[j][1]
                 PROVE  got[i][2] < got[j][2]
    OBVIOUS
  <2>2. PICK n \in Queue!Nodes, a \in Queue!Slots : ReadFrom(n, a, got[i])
    BY DEF QueueInv, Popped, GotRead
  <2>3. PICK m \in Queue!Nodes, b \in Queue!Slots : ReadFrom(m, b, got[j])
    BY DEF QueueInv, Popped, GotRead
  <2>4. Slot(n, a) = got[i] /\ Slot(m, b) = got[j]
    BY <2>2, <2>3 DEF ReadFrom
  <2>5. Before(n, a, m, b)
    BY <2>1, <2>4 DEF QueueInv, Popped, GotOrdered
  <2>6. got[i] \in Queue!Items /\ got[j] \in Queue!Items
    BY <1>t, NodeTypes
  <2>7. PICK p \in Pushers, k \in 1 .. MaxItems, l \in 1 .. MaxItems : got[i] = <<p, k>> /\ got[j] = <<p, l>>
    BY <2>1, <2>6 DEF Queue!Items
  <2>8. HasItem(n, a, p, k) /\ HasItem(m, b, p, l)
    BY <2>4, <2>7 DEF HasItem
  <2>9. k < l
    BY <2>5, <2>8 DEF QueueInv, Pushed, ItemsOrdered
  <2> QED BY <2>7, <2>9
<1>3. Queue!WaitsForPusher
  <2>1. SUFFICES ASSUME NEW c \in Poppers, pc[c].at = "read", node[pc[c].node].slots[pc[c].index] = Queue!NULL
                 PROVE  \E p \in Pushers : pc[p].at = "write" /\ pc[p].node = pc[c].node /\ pc[p].index = pc[c].index
    BY DEF Queue!WaitsForPusher, Queue!At
  <2>2. pc[c].node \in 1 .. qhead /\ pc[c].index < node[pc[c].node]._tail
    BY <2>1 DEF QueueInv, Popped, ReadersPlaced
  <2>3. PICK n \in Queue!Nodes, i \in Queue!Slots : n = pc[c].node /\ i = pc[c].index
    BY <1>t, <2>2, NodeTypes, Extent
  <2>4. node[n]._tail <= node[n]._head
    BY DEF QueueInv, NodesInRow
  <2>5. node[n]._tail \in Int /\ node[n]._head \in Int /\ i \in Int
    BY <1>t, NodeTypes, Extent
  <2>6. i < node[n]._head /\ Slot(n, i) = Queue!NULL
    BY <2>1, <2>2, <2>3, <2>4, <2>5 DEF Slot
  <2>7. PICK p \in Pushers : Writes(p, n, i)
    BY <2>6 DEF QueueInv, Pushed, SlotsFilled
  <2> QED BY <2>3, <2>7 DEF Writes
<1>4. Queue!MoveWaitsForPusher
  <2>1. SUFFICES ASSUME NEW c \in Poppers, pc[c].at = "move", qhead = qtail
                 PROVE  \E p \in Pushers : pc[p].at = "link" \/ pc[p].at = "tail"
    BY DEF Queue!MoveWaitsForPusher, Queue!At
  <2>2. node[qhead]._tail = SQUEUE_NODE_SIZE /\ Slot(qhead, Queue!LastSlot) # Queue!NULL
    BY <2>1 DEF QueueInv, LastSlots, Moves, Popped, ReadersPlaced
  <2>3. node[qtail]._head = SQUEUE_NODE_SIZE
    BY <1>t, <2>1, <2>2, NodeTypes DEF QueueInv, NodesInRow
  <2>4. PICK p \in Pushers : Closes(p) /\ pc[p].node = qtail
    BY <2>3 DEF QueueInv, LastSlots
  <2>5. ~(pc[p].at = "write" /\ pc[p].index = Queue!LastSlot)
    BY <2>1, <2>2, <2>4 DEF QueueInv, Pushed, WritersPlaced
  <2> QED BY <2>4, <2>5 DEF Closes
<1> QED BY <1>1, <1>2, <1>3, <1>4 DEF Queue!ItemsInOrder, Handling

LEMMA QueueTyped ==
  ASSUME QueueInv
  PROVE  Queue!SqueueTypeOK
<1>t. QueueTypes
  BY DEF QueueInv
<1>1. nodes \in Queue!Nodes /\ {free_ptr, qtail, qhead} \subseteq 1 .. nodes
  BY <1>t, NodeTypes DEF QueueTypes
<1>2. \A n \in Queue!Nodes : /\ node[n].slots \in [Queue!Slots -> Queue!Items \cup {Queue!NULL}]
                             /\ {node[n]._head, node[n]._tail} \subseteq 0 .. SQUEUE_NODE_SIZE
                             /\ node[n]._next \in Queue!Nodes \cup {0}
  <2>1. \A n \in Queue!Nodes : node[n] \in QueueNodes
    BY <1>t DEF QueueTypes
  <2> QED BY <2>1 DEF QueueNodes
<1>3. qcount \in Int /\ _locker \in Poppers \cup {0}
  BY <1>t DEF QueueTypes
<1>4. \A t \in Pushers \cup Poppers : pc[t].index \in Queue!Slots /\ pc[t].node \in Queue!Nodes \cup {0}
  BY <1>t, NodeTypes
<1> QED BY <1>1, <1>2, <1>3, <1>4 DEF Queue!SqueueTypeOK, Queue!NoNode
-----------------------------------------------------------------------------
(***************************************************************************)
(* Lists of nodes.                                                         *)
(***************************************************************************)

\* What points to the i-th of a list, or to nothing.
LinkAt(s, i) == IF i \in 1 .. Len(s) THEN s[i] ELSE ListNULL

\* Pointers make the list s of nodes, forwards and backwards.
Chain(h, t, nx, pv, s) ==
  /\ s \in Seq(ListNodes) /\ IsInjective(s)
  /\ h = LinkAt(s, 1) /\ t = LinkAt(s, Len(s))
  /\ \A i \in 1 .. Len(s) : nx[s[i]] = LinkAt(s, i + 1) /\ pv[s[i]] = LinkAt(s, i - 1)

\* The lists are such lists, and have no nodes in common.
ListInv ==
  /\ _head \in [Lists -> ListNodes \cup {ListNULL}]
  /\ _tail \in [Lists -> ListNodes \cup {ListNULL}]
  /\ _next \in [ListNodes -> ListNodes \cup {ListNULL}]
  /\ _prev \in [ListNodes -> ListNodes \cup {ListNULL}]
  /\ order \in [Lists -> Seq(ListNodes)] /\ asserted
  /\ \A l \in Lists : Chain(_head[l], _tail[l], _next, _prev, order[l])
  /\ \A k, l \in Lists : k # l => Range(order[k]) \cap Range(order[l]) = {}

LEMMA ListStarts == ASSUME List!ListInit PROVE ListInv
<1>1. Range(<<>>) = {}
  BY DEF Range
<1>2. Chain(ListNULL, ListNULL, _next, _prev, <<>>)
  BY DEF Chain, LinkAt, IsInjective
<1> QED BY <1>1, <1>2 DEF List!ListInit, ListInv

\* The pointers around a node e that is put into a list behind its m-th.
PointersPut(nx, pv, s, m, e, x, y) ==
  /\ \A i \in 1 .. Len(s) : x[s[i]] = IF i = m THEN e ELSE nx[s[i]]
  /\ \A i \in 1 .. Len(s) : y[s[i]] = IF i = m + 1 THEN e ELSE pv[s[i]]
  /\ x[e] = LinkAt(s, m + 1) /\ y[e] = LinkAt(s, m)

LEMMA ChainPut ==
  ASSUME NEW h, NEW t, NEW nx, NEW pv, NEW s, Chain(h, t, nx, pv, s),
         NEW m \in 0 .. Len(s), NEW e \in ListNodes, e \notin Range(s),
         NEW r, HasPut(ListNodes, r, s, m, e),
         NEW x, NEW y, PointersPut(nx, pv, s, m, e, x, y), NEW a, NEW z,
         a = (IF m = 0 THEN e ELSE h), z = (IF m = Len(s) THEN e ELSE t)
  PROVE  Chain(a, z, x, y, r) /\ Range(r) = Range(s) \cup {e}
<1> USE DEF PointersPut
<1>1. PICK n : n = Len(s)
  OBVIOUS
<1>2. /\ n \in Nat /\ m \in 0 .. n /\ DOMAIN s = 1 .. n /\ s \in Seq(ListNodes)
      /\ r \in Seq(ListNodes) /\ Len(r) = n + 1 /\ DOMAIN r = 1 .. n + 1
      /\ \A k \in 1 .. n + 1 : r[k] = IF k <= m THEN s[k] ELSE IF k = m + 1 THEN e ELSE s[k - 1]
  BY <1>1 DEF Chain, HasPut
<1>3. \A k \in 0 .. n + 2 : LinkAt(r, k) = IF k <= m THEN LinkAt(s, k)
                                            ELSE IF k = m + 1 THEN e ELSE LinkAt(s, k - 1)
  BY ONLY <1>1, <1>2 DEF LinkAt
<1>4. /\ \A i \in 1 .. n : nx[s[i]] = LinkAt(s, i + 1) /\ pv[s[i]] = LinkAt(s, i - 1)
      /\ h = LinkAt(s, 1) /\ t = LinkAt(s, n)
  BY <1>1 DEF Chain
<1>5. \A i \in 1 .. n : s[i] # e
  BY <1>2 DEF Range
<1>6. \A i, j \in 1 .. n : s[i] = s[j] => i = j
  BY <1>2 DEF Chain, IsInjective
<1>7. IsInjective(r)
  <2>1. \A i, j \in 1 .. n + 1 : r[i] = r[j] => i = j
    BY ONLY <1>2, <1>5, <1>6
  <2> QED BY <1>2, <2>1 DEF IsInjective
<1>8. Range(r) = Range(s) \cup {e}
  <2>1. \A k \in 1 .. n + 1 : r[k] = e \/ \E i \in 1 .. n : r[k] = s[i]
    BY ONLY <1>2
  <2>2. \A i \in 1 .. n : \E k \in 1 .. n + 1 : r[k] = s[i]
    <3>1. SUFFICES ASSUME NEW i \in 1 .. n PROVE \E k \in 1 .. n + 1 : r[k] = s[i]
      OBVIOUS
    <3>2. CASE i <= m
      BY ONLY <1>2, <3>1, <3>2
    <3>3. CASE i > m
      <4>1. i + 1 \in 1 .. n + 1 /\ r[i + 1] = s[i]
        BY ONLY <1>2, <3>1, <3>3
      <4> QED BY <4>1
    <3> QED BY <1>2, <3>2, <3>3
  <2>3. m + 1 \in 1 .. n + 1 /\ r[m + 1] = e
    BY ONLY <1>2
  <2>4. Range(r) = {r[k] : k \in 1 .. n + 1} /\ Range(s) = {s[k] : k \in 1 .. n}
    BY <1>2 DEF Range
  <2>5. Range(r) \subseteq Range(s) \cup {e}
    BY ONLY <2>1, <2>4
  <2>6. Range(s) \cup {e} \subseteq Range(r)
    BY ONLY <2>2, <2>3, <2>4
  <2> QED BY ONLY <2>5, <2>6
<1>9. ASSUME NEW k \in 1 .. n + 1 PROVE x[r[k]] = LinkAt(r, k + 1) /\ y[r[k]] = LinkAt(r, k - 1)
  <2>1. CASE k <= m
    <3>1. r[k] = s[k] /\ k \in 1 .. n /\ k # m + 1 /\ k + 1 \in 0 .. n + 2 /\ k - 1 \in 0 .. n + 2
      BY <1>2, <2>1
    <3>2. y[r[k]] = LinkAt(r, k - 1)
      BY <1>1, <1>2, <1>3, <1>4, <2>1, <3>1
    <3>3. CASE k = m
      BY <1>1, <1>3, <3>1, <3>2, <3>3
    <3>4. CASE k # m
      <4>1. k + 1 <= m
        BY <1>2, <2>1, <3>4
      <4> QED BY <1>1, <1>3, <1>4, <3>1, <3>2, <3>4, <4>1
    <3> QED BY <3>3, <3>4
  <2>2. CASE k = m + 1
    <3>1. /\ r[k] = e /\ ~(k + 1 <= m) /\ k + 1 # m + 1 /\ (k + 1) - 1 = m + 1
          /\ k - 1 = m /\ k + 1 \in 0 .. n + 2 /\ m \in 0 .. n + 2
      BY <1>2, <2>2
    <3>2. LinkAt(r, k + 1) = LinkAt(s, m + 1) /\ LinkAt(r, k - 1) = LinkAt(s, m)
      BY ONLY <1>2, <1>3, <3>1
    <3> QED BY <3>1, <3>2
  <2>3. CASE k > m + 1
    <3>1. /\ r[k] = s[k - 1] /\ k - 1 \in 1 .. n /\ k - 1 # m /\ ~(k + 1 <= m) /\ k + 1 # m + 1
          /\ (k + 1) - 1 = (k - 1) + 1 /\ k + 1 \in 0 .. n + 2 /\ k - 1 \in 0 .. n + 2
          /\ ~(k - 1 <= m)
      BY <1>2, <2>3
    <3>2. x[r[k]] = LinkAt(s, (k - 1) + 1) /\ LinkAt(r, k + 1) = LinkAt(s, (k + 1) - 1)
      BY <1>1, <1>3, <1>4, <3>1
    <3>3. CASE k - 1 = m + 1
      BY <1>1, <1>3, <3>1, <3>2, <3>3
    <3>4. CASE k - 1 # m + 1
      BY <1>1, <1>3, <1>4, <3>1, <3>2, <3>4
    <3> QED BY <3>3, <3>4
  <2> QED BY <1>2, <2>1, <2>2, <2>3
<1>10. a = LinkAt(r, 1)
  <2>1. CASE m = 0
    BY <1>2, <1>3, <2>1
  <2>2. CASE m # 0
    <3>1. 1 <= m /\ 1 \in 0 .. n + 2
      BY <1>2, <2>2
    <3> QED BY <1>3, <1>4, <2>2, <3>1
  <2> QED BY <2>1, <2>2
<1>11. z = LinkAt(r, n + 1)
  <2>1. CASE m = n
    BY <1>1, <1>2, <1>3, <2>1
  <2>2. CASE m # n
    <3>1. ~(n + 1 <= m) /\ n + 1 # m + 1 /\ (n + 1) - 1 = n /\ n + 1 \in 0 .. n + 2
      BY <1>2, <2>2
    <3> QED BY <1>1, <1>3, <1>4, <2>2, <3>1
  <2> QED BY <2>1, <2>2
<1> QED BY <1>2, <1>7, <1>8, <1>9, <1>10, <1>11 DEF Chain

\* The pointers around the i-th node, when it is taken out.
PointersCut(nx, pv, s, i, x, y) ==
  /\ \A k \in 1 .. Len(s) : x[s[k]] = IF k = i - 1 THEN LinkAt(s, i + 1) ELSE nx[s[k]]
  /\ \A k \in 1 .. Len(s) : y[s[k]] = IF k = i + 1 THEN LinkAt(s, i - 1) ELSE pv[s[k]]

LEMMA ChainCut ==
  ASSUME NEW h, NEW t, NEW nx, NEW pv, NEW s, Chain(h, t, nx, pv, s),
         NEW i \in 1 .. Len(s), NEW r, r = Cut(s, i),
         NEW x, NEW y, PointersCut(nx, pv, s, i, x, y), NEW a, NEW z,
         a = (IF i = 1 THEN LinkAt(s, 2) ELSE h),
         z = (IF i = Len(s) THEN LinkAt(s, Len(s) - 1) ELSE t)
  PROVE  Chain(a, z, x, y, r) /\ Range(r) \subseteq Range(s)
<1> USE DEF PointersCut
<1>1. PICK n : n = Len(s)
  OBVIOUS
<1>2. /\ n \in Nat /\ i \in 1 .. n /\ DOMAIN s = 1 .. n /\ s \in Seq(ListNodes)
      /\ r \in Seq(ListNodes) /\ Len(r) = n - 1 /\ DOMAIN r = 1 .. n - 1
      /\ \A k \in 1 .. n - 1 : r[k] = IF k < i THEN s[k] ELSE s[k + 1]
  <2>1. s \in Seq(ListNodes) /\ i \in 1 .. Len(s)
    BY DEF Chain
  <2>2. /\ Cut(s, i) \in Seq(ListNodes) /\ Len(Cut(s, i)) = Len(s) - 1
        /\ \A k \in 1 .. Len(s) - 1 : Cut(s, i)[k] = IF k < i THEN s[k] ELSE s[k + 1]
    BY ONLY <2>1, CutAt
  <2>3. r \in Seq(ListNodes) /\ Len(r) = n - 1 /\ n \in Nat /\ i \in 1 .. n
    BY <1>1, <2>1, <2>2
  <2> QED BY ONLY <1>1, <2>1, <2>2, <2>3, r = Cut(s, i)
<1>3. \A k \in 0 .. n : LinkAt(r, k) = IF k < i THEN LinkAt(s, k) ELSE LinkAt(s, k + 1)
  BY ONLY <1>1, <1>2 DEF LinkAt
<1>4. /\ \A k \in 1 .. n : nx[s[k]] = LinkAt(s, k + 1) /\ pv[s[k]] = LinkAt(s, k - 1)
      /\ h = LinkAt(s, 1) /\ t = LinkAt(s, n)
  BY <1>1 DEF Chain
<1>5. IsInjective(r)
  <2>1. \A j, k \in 1 .. n : s[j] = s[k] => j = k
    BY <1>2 DEF Chain, IsInjective
  <2>2. \A j, k \in 1 .. n - 1 : r[j] = r[k] => j = k
    BY ONLY <1>2, <2>1
  <2> QED BY <1>2, <2>2 DEF IsInjective
<1>6. Range(r) \subseteq Range(s)
  <2>1. \A k \in 1 .. n - 1 : \E j \in 1 .. n : r[k] = s[j]
    BY ONLY <1>2
  <2>2. Range(r) = {r[k] : k \in 1 .. n - 1} /\ Range(s) = {s[k] : k \in 1 .. n}
    BY <1>2 DEF Range
  <2> QED BY ONLY <2>1, <2>2
<1>7. ASSUME NEW k \in 1 .. n - 1 PROVE x[r[k]] = LinkAt(r, k + 1) /\ y[r[k]] = LinkAt(r, k - 1)
  <2>1. CASE k < i
    <3>1. /\ r[k] = s[k] /\ k \in 1 .. n /\ k # i + 1 /\ k + 1 \in 0 .. n /\ k - 1 \in 0 .. n
          /\ k - 1 < i
      BY <1>2, <2>1
    <3>2. y[r[k]] = LinkAt(r, k - 1)
      BY <1>1, <1>3, <1>4, <3>1
    <3>3. CASE k = i - 1
      <4>1. ~(k + 1 < i) /\ (k + 1) + 1 = i + 1
        BY <1>2, <3>3
      <4> QED BY <1>1, <1>3, <3>1, <3>2, <3>3, <4>1
    <3>4. CASE k # i - 1
      <4>1. k + 1 < i
        BY <1>2, <2>1, <3>4
      <4> QED BY <1>1, <1>3, <1>4, <3>1, <3>2, <3>4, <4>1
    <3> QED BY <3>3, <3>4
  <2>2. CASE ~(k < i)
    <3>1. /\ r[k] = s[k + 1] /\ k + 1 \in 1 .. n /\ k + 1 # i - 1 /\ ~(k + 1 < i)
          /\ k + 1 \in 0 .. n /\ k - 1 \in 0 .. n /\ (k + 1) - 1 = k /\ (k - 1) + 1 = k
      BY <1>2, <2>2
    <3>2. x[r[k]] = LinkAt(r, k + 1)
      BY <1>1, <1>3, <1>4, <3>1
    <3>3. CASE k + 1 = i + 1
      <4>1. k - 1 < i /\ k - 1 = i - 1
        BY <1>2, <3>3
      <4> QED BY <1>1, <1>3, <3>1, <3>2, <3>3, <4>1
    <3>4. CASE k + 1 # i + 1
      <4>1. ~(k - 1 < i)
        BY <1>2, <2>2, <3>4
      <4>2. LinkAt(r, k - 1) = LinkAt(s, k)
        BY ONLY <1>3, <3>1, <4>1
      <4>3. y[s[k + 1]] = LinkAt(s, k)
        BY <1>1, <1>4, <3>1, <3>4
      <4> QED BY ONLY <3>1, <3>2, <4>2, <4>3
    <3> QED BY <3>3, <3>4
  <2> QED BY <2>1, <2>2
<1>8. a = LinkAt(r, 1)
  <2>1. 1 \in 0 .. n
    BY <1>2
  <2>2. CASE i = 1
    BY <1>3, <2>1, <2>2
  <2>3. CASE i # 1
    <3>1. 1 < i
      BY <1>2, <2>3
    <3> QED BY <1>3, <1>4, <2>1, <2>3, <3>1
  <2> QED BY <2>2, <2>3
<1>9. z = LinkAt(r, n - 1)
  <2>1. n - 1 \in 0 .. n /\ (n - 1) + 1 = n
    BY <1>2
  <2>2. CASE i = n
    <3>1. n - 1 < i
      BY <1>2, <2>2
    <3> QED BY <1>1, <1>3, <2>1, <2>2, <3>1
  <2>3. CASE i # n
    <3>1. ~(n - 1 < i)
      BY <1>2, <2>3
    <3> QED BY <1>1, <1>3, <1>4, <2>1, <2>3, <3>1
  <2> QED BY <2>2, <2>3
<1> QED BY <1>2, <1>5, <1>6, <1>7, <1>8, <1>9 DEF Chain

\* Chains other than the one that changes keep theirs.
LEMMA ChainStays ==
  ASSUME NEW h, NEW t, NEW nx, NEW pv, NEW s, Chain(h, t, nx, pv, s), NEW x, NEW y,
         \A n \in Range(s) : x[n] = nx[n] /\ y[n] = pv[n]
  PROVE  Chain(h, t, x, y, s)
<1>1. DOMAIN s = 1 .. Len(s)
  BY DEF Chain
<1>2. \A i \in 1 .. Len(s) : s[i] \in Range(s)
  BY <1>1 DEF Range
<1> QED BY <1>2 DEF Chain

\* What a list holds, and where a node of it is.
LEMMA ListsOfNodes ==
  /\ \A l, n : List!In(l, n) <=> n \in Range(order[l])
  /\ \A l, p : order[l] \in Seq(ListNodes) /\ IsInjective(order[l]) =>
       \A i \in 1 .. Len(order[l]) : order[l][i] = p => List!Place(l, p) = i
<1>1. \A l, n : List!In(l, n) <=> n \in Range(order[l])
  BY DEF List!In, List!Range, Range
<1>2. ASSUME NEW l, NEW p, order[l] \in Seq(ListNodes), IsInjective(order[l]),
             NEW i \in 1 .. Len(order[l]), order[l][i] = p
      PROVE  List!Place(l, p) = i
  <2>1. PICK s : s = order[l]
    OBVIOUS
  <2>2. i \in DOMAIN s /\ \A j \in DOMAIN s : s[j] = p <=> j = i
    BY <1>2, <2>1 DEF IsInjective
  <2> QED BY <2>1, <2>2 DEF List!Place
<1> QED BY <1>1, <1>2

LEMMA InsertionIs ==
  /\ \A s, i, e : List!WithNode(s, i, e) = Put(s, i, e)
  /\ \A s, i : List!Without(s, i) = Cut(s, i)
BY DEF List!WithNode, List!Without, Put, Cut

\* The list l becomes r, with new pointers that leave the other lists alone.
Pointers(x, y) == /\ x \in [ListNodes -> ListNodes \cup {ListNULL}]
                  /\ y \in [ListNodes -> ListNodes \cup {ListNULL}]
Becomes(l, a, z, x, y, r) ==
  /\ _head' = [_head EXCEPT ![l] = a] /\ _tail' = [_tail EXCEPT ![l] = z]
  /\ _next' = x /\ _prev' = y /\ order' = [order EXCEPT ![l] = r] /\ asserted'
LeavesOthers(l, x, y, r) ==
  \A k \in Lists \ {l} : /\ Range(order[k]) \cap Range(r) = {}
                         /\ \A n \in Range(order[k]) : x[n] = _next[n] /\ y[n] = _prev[n]

\* If the list is a chain then, all lists are as they should be.
LEMMA ChainsKept ==
  ASSUME ListInv, NEW l \in Lists, NEW a \in ListNodes \cup {ListNULL},
         NEW z \in ListNodes \cup {ListNULL}, NEW x, NEW y, Pointers(x, y),
         NEW r, Chain(a, z, x, y, r), LeavesOthers(l, x, y, r), Becomes(l, a, z, x, y, r)
  PROVE  ListInv'
<1> USE DEF Pointers, Becomes, LeavesOthers
<1>1. /\ \A k \in Lists : order'[k] = IF k = l THEN r ELSE order[k]
      /\ \A k \in Lists : _head'[k] = IF k = l THEN a ELSE _head[k]
      /\ \A k \in Lists : _tail'[k] = IF k = l THEN z ELSE _tail[k]
  BY DEF ListInv
<1>2. ASSUME NEW k \in Lists PROVE Chain(_head'[k], _tail'[k], x, y, order'[k])
  <2>1. CASE k = l
    BY <1>1, <2>1
  <2>2. CASE k # l
    <3>1. Chain(_head[k], _tail[k], _next, _prev, order[k])
      BY DEF ListInv
    <3>2. \A n \in Range(order[k]) : x[n] = _next[n] /\ y[n] = _prev[n]
      BY <2>2
    <3>3. Chain(_head[k], _tail[k], x, y, order[k])
      BY ONLY <3>1, <3>2, ChainStays
    <3> QED BY <1>1, <2>2, <3>3
  <2> QED BY <2>1, <2>2
<1>3. r \in Seq(ListNodes)
  BY DEF Chain
<1>4. ASSUME NEW j \in Lists, NEW k \in Lists, j # k
      PROVE  Range(order'[j]) \cap Range(order'[k]) = {}
  BY <1>1, <1>4 DEF ListInv
<1>5. order' \in [Lists -> Seq(ListNodes)]
  BY <1>3 DEF ListInv
<1> QED BY <1>1, <1>2, <1>4, <1>5 DEF ListInv

\* A node that is in no list is put behind the m-th of one.
NodesPut(s, m, n, x, y) ==
  /\ \A k \in ListNodes : x[k] = IF k = n THEN LinkAt(s, m + 1)
                                 ELSE IF k = LinkAt(s, m) THEN n ELSE _next[k]
  /\ \A k \in ListNodes : y[k] = IF k = n THEN LinkAt(s, m)
                                 ELSE IF k = LinkAt(s, m + 1) THEN n ELSE _prev[k]

LEMMA PutsIn ==
  ASSUME ListInv, NEW l \in Lists, NEW n \in ListNodes, List!Out(n), NEW s, s = order[l],
         NEW m \in 0 .. Len(s), NEW r, HasPut(ListNodes, r, s, m, n),
         NEW x, NEW y, Pointers(x, y), NodesPut(s, m, n, x, y),
         NEW a, NEW z, a = (IF m = 0 THEN n ELSE _head[l]),
         z = (IF m = Len(s) THEN n ELSE _tail[l]), Becomes(l, a, z, x, y, r)
  PROVE  ListInv'
<1> USE DEF NodesPut
<1>1. PICK h, t : h = _head[l] /\ t = _tail[l]
  OBVIOUS
<1>2. /\ Chain(h, t, _next, _prev, s) /\ h \in ListNodes \cup {ListNULL}
      /\ t \in ListNodes \cup {ListNULL}
  BY <1>1 DEF ListInv
<1>3. \A k \in Lists : n \notin Range(order[k])
  BY ListsOfNodes DEF List!Out
<1>4. /\ s \in Seq(ListNodes) /\ Len(s) \in Nat /\ m \in 0 .. Len(s) /\ DOMAIN s = 1 .. Len(s)
      /\ \A i \in 1 .. Len(s) : s[i] \in ListNodes /\ s[i] # n /\ s[i] \in Range(s)
      /\ \A i, j \in 1 .. Len(s) : s[i] = s[j] => i = j
  <2>1. s \in Seq(ListNodes) /\ IsInjective(s) /\ n \notin Range(s)
    BY <1>2, <1>3 DEF Chain
  <2>2. DOMAIN s = 1 .. Len(s)
    BY <2>1
  <2> QED BY <2>1, <2>2 DEF Range, IsInjective
<1>5. \A i \in 1 .. Len(s) : x[s[i]] = IF i = m THEN n ELSE _next[s[i]]
  <2>1. \A i \in 1 .. Len(s) : s[i] = LinkAt(s, m) <=> i = m
    BY <1>4, ListAssumption DEF LinkAt
  <2> QED BY <1>4, <2>1
<1>6. \A i \in 1 .. Len(s) : y[s[i]] = IF i = m + 1 THEN n ELSE _prev[s[i]]
  <2>1. \A i \in 1 .. Len(s) : s[i] = LinkAt(s, m + 1) <=> i = m + 1
    BY <1>4, ListAssumption DEF LinkAt
  <2> QED BY <1>4, <2>1
<1>7. PointersPut(_next, _prev, s, m, n, x, y)
  BY <1>5, <1>6 DEF PointersPut
<1>8. Chain(a, z, x, y, r) /\ Range(r) = Range(s) \cup {n}
  <2>1. n \notin Range(s) /\ a = (IF m = 0 THEN n ELSE h) /\ z = (IF m = Len(s) THEN n ELSE t)
    BY <1>1, <1>3
  <2>2. HasPut(ListNodes, r, s, m, n) /\ n \in ListNodes /\ m \in 0 .. Len(s)
    OBVIOUS
  <2> QED BY ONLY <1>2, <1>7, <2>1, <2>2, ChainPut
<1>9. \A k \in Lists \ {l} : Range(order[k]) \cap Range(r) = {}
  BY <1>3, <1>8 DEF ListInv
<1>10. ASSUME NEW k \in Lists \ {l}, NEW e \in Range(order[k])
       PROVE  x[e] = _next[e] /\ y[e] = _prev[e]
  <2>1. e \in ListNodes
    <3>1. order[k] \in Seq(ListNodes)
      BY DEF ListInv
    <3> QED BY <3>1 DEF Range
  <2>2. e # n /\ e \notin Range(s)
    BY <1>3 DEF ListInv
  <2>3. \A i : LinkAt(s, i) # e
    BY <1>4, <2>1, <2>2, ListAssumption DEF LinkAt
  <2> QED BY <2>1, <2>2, <2>3
<1>11. LeavesOthers(l, x, y, r)
  BY <1>9, <1>10 DEF LeavesOthers
<1>12. a \in ListNodes \cup {ListNULL} /\ z \in ListNodes \cup {ListNULL}
  BY <1>1, <1>2
<1>13. ListInv /\ l \in Lists /\ Pointers(x, y) /\ Becomes(l, a, z, x, y, r)
  OBVIOUS
<1> QED BY ONLY <1>8, <1>11, <1>12, <1>13, ChainsKept

\* A list with a node before its first, behind its last, or between two.
LEMMA PutFirst ==
  ASSUME NEW s \in Seq(ListNodes), NEW n \in ListNodes
  PROVE  HasPut(ListNodes, <<n>> \o s, s, 0, n)
<1>1. PICK a, r : a = <<n>> /\ r = a \o s
  OBVIOUS
<1>2. a \in Seq(ListNodes) /\ Len(a) = 1 /\ a[1] = n /\ Len(s) \in Nat
  BY <1>1
<1>3. /\ r \in Seq(ListNodes) /\ Len(r) = Len(s) + 1
      /\ \A k \in 1 .. Len(s) + 1 : r[k] = IF k <= 1 THEN a[k] ELSE s[k - 1]
  BY ONLY <1>1, <1>2, s \in Seq(ListNodes)
<1>4. \A k \in 1 .. Len(s) + 1 : r[k] = IF k <= 0 THEN s[k] ELSE IF k = 0 + 1 THEN n ELSE s[k - 1]
  BY <1>2, <1>3
<1> QED BY <1>1, <1>3, <1>4 DEF HasPut

LEMMA PutLast ==
  ASSUME NEW s \in Seq(ListNodes), NEW n \in ListNodes
  PROVE  HasPut(ListNodes, Append(s, n), s, Len(s), n)
<1>1. PICK r : r = Append(s, n)
  OBVIOUS
<1>2. /\ r \in Seq(ListNodes) /\ Len(r) = Len(s) + 1 /\ Len(s) \in Nat
      /\ \A k \in 1 .. Len(s) + 1 : r[k] = IF k <= Len(s) THEN s[k] ELSE n
  BY <1>1
<1>3. \A k \in 1 .. Len(s) + 1 :
        r[k] = IF k <= Len(s) THEN s[k] ELSE IF k = Len(s) + 1 THEN n ELSE s[k - 1]
  BY <1>2
<1> QED BY <1>1, <1>2, <1>3 DEF HasPut

LEMMA AddsHead == ASSUME ListInv, NEW l \in Lists, NEW n \in ListNodes, List!AddHead(l, n)
                  PROVE  ListInv'
<1>1. PICK s : s = order[l]
  OBVIOUS
<1>2. s \in Seq(ListNodes) /\ Chain(_head[l], _tail[l], _next, _prev, s)
  BY <1>1 DEF ListInv
<1>3. PICK x, y : x = _next' /\ y = _prev'
  OBVIOUS
<1>4. /\ List!Out(n) /\ asserted' = (asserted /\ (_head[l] = ListNULL => _tail[l] = ListNULL))
      /\ y = [m \in ListNodes |-> IF m = n THEN ListNULL ELSE IF m = _head[l] THEN n ELSE _prev[m]]
      /\ x = [_next EXCEPT ![n] = _head[l]]
      /\ _tail' = [_tail EXCEPT ![l] = IF _head[l] = ListNULL THEN n ELSE @]
      /\ _head' = [_head EXCEPT ![l] = n] /\ order' = [order EXCEPT ![l] = <<n>> \o s]
  BY <1>1, <1>3 DEF List!AddHead
<1>5. PICK r : r = <<n>> \o s
  OBVIOUS
<1>6. HasPut(ListNodes, r, s, 0, n)
  BY <1>2, <1>5, PutFirst
<1>7. /\ LinkAt(s, 0) = ListNULL /\ LinkAt(s, 0 + 1) = _head[l] /\ Len(s) \in Nat
      /\ _head[l] = ListNULL <=> Len(s) = 0
      /\ _head[l] = ListNULL => _tail[l] = ListNULL
  <2>1. \A i \in 1 .. Len(s) : s[i] \in ListNodes
    BY <1>2
  <2>2. Len(s) \in Nat /\ _head[l] = LinkAt(s, 1) /\ _tail[l] = LinkAt(s, Len(s))
    BY <1>2 DEF Chain
  <2> QED BY ONLY <2>1, <2>2, ListAssumption, ListNULL \notin ListNodes DEF LinkAt
<1>8. asserted'
  BY <1>4, <1>7 DEF ListInv
<1>9. Pointers(x, y)
  BY <1>4 DEF ListInv, Pointers
<1>10. NodesPut(s, 0, n, x, y)
  BY <1>4, <1>7, ListAssumption DEF ListInv, NodesPut
<1>11. PICK a, z : a = (IF 0 = 0 THEN n ELSE _head[l]) /\ z = (IF 0 = Len(s) THEN n ELSE _tail[l])
  OBVIOUS
<1>12. 0 \in 0 .. Len(s) /\ Becomes(l, a, z, x, y, r)
  <2>1. _head' = [_head EXCEPT ![l] = a] /\ _tail' = [_tail EXCEPT ![l] = z]
    BY <1>4, <1>7, <1>11
  <2>2. 0 \in 0 .. Len(s)
    BY <1>1, <1>2, <1>7
  <2>3. _next' = x /\ _prev' = y /\ order' = [order EXCEPT ![l] = r]
    BY <1>3, <1>4, <1>5
  <2> QED BY ONLY <1>8, <2>1, <2>2, <2>3 DEF Becomes
<1>13. ListInv /\ l \in Lists /\ n \in ListNodes /\ List!Out(n)
  BY <1>4
<1> QED BY ONLY <1>1, <1>6, <1>9, <1>10, <1>11, <1>12, <1>13, PutsIn

LEMMA AddsTail == ASSUME ListInv, NEW l \in Lists, NEW n \in ListNodes, List!AddTail(l, n)
                  PROVE  ListInv'
<1>1. PICK s, m : s = order[l] /\ m = Len(s)
  OBVIOUS
<1>2. s \in Seq(ListNodes) /\ Chain(_head[l], _tail[l], _next, _prev, s) /\ m \in Nat
  BY <1>1 DEF ListInv
<1>3. PICK x, y : x = _next' /\ y = _prev'
  OBVIOUS
<1>4. /\ List!Out(n) /\ asserted' = (asserted /\ (_tail[l] = ListNULL => _head[l] = ListNULL))
      /\ x = [k \in ListNodes |-> IF k = n THEN ListNULL ELSE IF k = _tail[l] THEN n ELSE _next[k]]
      /\ y = [_prev EXCEPT ![n] = _tail[l]]
      /\ _head' = [_head EXCEPT ![l] = IF _tail[l] = ListNULL THEN n ELSE @]
      /\ _tail' = [_tail EXCEPT ![l] = n] /\ order' = [order EXCEPT ![l] = Append(s, n)]
  BY <1>1, <1>3 DEF List!AddTail
<1>5. PICK r : r = Append(s, n)
  OBVIOUS
<1>6. HasPut(ListNodes, r, s, m, n)
  BY <1>1, <1>2, <1>5, PutLast
<1>7. /\ LinkAt(s, m + 1) = ListNULL /\ LinkAt(s, m) = _tail[l]
      /\ _tail[l] = ListNULL <=> m = 0
      /\ _tail[l] = ListNULL => _head[l] = ListNULL
  <2>1. \A i \in 1 .. m : s[i] \in ListNodes
    BY <1>1, <1>2
  <2>2. m = Len(s) /\ _head[l] = LinkAt(s, 1) /\ _tail[l] = LinkAt(s, m)
    BY <1>1, <1>2 DEF Chain
  <2> QED BY ONLY <1>2, <2>1, <2>2, ListAssumption, ListNULL \notin ListNodes DEF LinkAt
<1>8. asserted'
  BY <1>4, <1>7 DEF ListInv
<1>9. Pointers(x, y)
  BY <1>4 DEF ListInv, Pointers
<1>10. NodesPut(s, m, n, x, y)
  BY <1>4, <1>7, ListAssumption DEF ListInv, NodesPut
<1>11. PICK a, z : a = (IF m = 0 THEN n ELSE _head[l]) /\ z = (IF m = Len(s) THEN n ELSE _tail[l])
  OBVIOUS
<1>12. m \in 0 .. Len(s) /\ Becomes(l, a, z, x, y, r)
  <2>1. _head' = [_head EXCEPT ![l] = a] /\ _tail' = [_tail EXCEPT ![l] = z]
    BY <1>1, <1>4, <1>7, <1>11
  <2>2. m \in 0 .. Len(s)
    BY <1>1, <1>2, <1>7
  <2>3. _next' = x /\ _prev' = y /\ order' = [order EXCEPT ![l] = r]
    BY <1>3, <1>4, <1>5
  <2> QED BY ONLY <1>8, <2>1, <2>2, <2>3 DEF Becomes
<1>13. ListInv /\ l \in Lists /\ n \in ListNodes /\ List!Out(n) /\ s = order[l]
  BY <1>1, <1>4
<1> QED BY ONLY <1>6, <1>9, <1>10, <1>11, <1>12, <1>13, PutsIn

\* Between the i-th of a list and the next.
LEMMA AddsBetween ==
  ASSUME ListInv, NEW l \in Lists, NEW n \in ListNodes, List!Out(n), NEW p, NEW q,
         NEW i \in 1 .. Len(order[l]) - 1, p = order[l][i], q = order[l][i + 1],
         List!Between(l, p, n, q)
  PROVE  ListInv'
<1>1. PICK s : s = order[l]
  OBVIOUS
<1>2. s \in Seq(ListNodes) /\ IsInjective(s)
  BY <1>1 DEF ListInv, Chain
<1>3. PICK x, y : x = _next' /\ y = _prev'
  OBVIOUS
<1>4. i \in 1 .. Len(s) /\ i + 1 \in 1 .. Len(s) /\ i # 0 /\ i # Len(s) /\ i \in 0 .. Len(s)
  BY <1>1, <1>2
<1>5. p = LinkAt(s, i) /\ q = LinkAt(s, i + 1) /\ p \in ListNodes /\ q \in ListNodes
  BY <1>1, <1>2, <1>4 DEF LinkAt
<1>6. n \notin Range(s)
  BY <1>1, ListsOfNodes DEF List!Out
<1>7. p # q /\ n # p /\ n # q
  <2>1. DOMAIN s = 1 .. Len(s)
    BY <1>2
  <2> QED BY <1>1, <1>2, <1>4, <1>6, <2>1 DEF Range, IsInjective
<1>8. List!Place(l, p) = i
  BY <1>1, <1>2, <1>4, ListsOfNodes
<1>9. /\ y = [_prev EXCEPT ![n] = p, ![q] = n] /\ x = [_next EXCEPT ![n] = q, ![p] = n]
      /\ order' = [order EXCEPT ![l] = List!WithNode(s, i, n)]
      /\ UNCHANGED <<_head, _tail, asserted>>
  BY <1>1, <1>3, <1>8 DEF List!Between
<1>10. PICK r : r = List!WithNode(s, i, n)
  OBVIOUS
<1>11. HasPut(ListNodes, r, s, i, n)
  <2>1. r = Put(s, i, n)
    BY ONLY <1>10, InsertionIs
  <2> QED BY <1>2, <1>4, <2>1, PutAt
<1>12. Pointers(x, y)
  BY <1>5, <1>9 DEF ListInv, Pointers
<1>13. NodesPut(s, i, n, x, y)
  BY <1>5, <1>7, <1>9 DEF ListInv, NodesPut
<1>14. PICK a, z : a = (IF i = 0 THEN n ELSE _head[l]) /\ z = (IF i = Len(s) THEN n ELSE _tail[l])
  OBVIOUS
<1>15. Becomes(l, a, z, x, y, r)
  <2>1. _head' = [_head EXCEPT ![l] = a] /\ _tail' = [_tail EXCEPT ![l] = z]
    BY <1>4, <1>9, <1>14 DEF ListInv
  <2> QED BY <1>3, <1>9, <1>10, <2>1 DEF Becomes, ListInv
<1>16. ListInv /\ l \in Lists /\ n \in ListNodes /\ List!Out(n)
  OBVIOUS
<1> QED BY ONLY <1>1, <1>4, <1>11, <1>12, <1>13, <1>14, <1>15, <1>16, PutsIn

\* A node is taken out of its list.
LEMMA TakesOut ==
  ASSUME ListInv, NEW l \in Lists, NEW n, List!TakeOut(l, n)
  PROVE  ListInv'
<1>1. PICK s : s = order[l]
  OBVIOUS
<1>2. /\ s \in Seq(ListNodes) /\ IsInjective(s)
      /\ Chain(_head[l], _tail[l], _next, _prev, s)
  BY <1>1 DEF ListInv, Chain
<1>3. PICK i \in 1 .. Len(s) : s[i] = n
  <2>1. n \in Range(s)
    BY <1>1, ListsOfNodes DEF List!TakeOut
  <2> QED BY <1>2, <2>1 DEF Range
<1>4. PICK x, y : x = _next' /\ y = _prev'
  OBVIOUS
<1>5. PICK d, u : d = LinkAt(s, i + 1) /\ u = LinkAt(s, i - 1)
  OBVIOUS
<1>6. _next[n] = d /\ _prev[n] = u /\ n \in ListNodes
  BY <1>2, <1>3, <1>5 DEF Chain
<1>7. /\ y = [m \in ListNodes |-> IF m = d THEN u ELSE _prev[m]]
      /\ x = [m \in ListNodes |-> IF m = u THEN d ELSE _next[m]]
      /\ _tail' = [_tail EXCEPT ![l] = IF d = ListNULL THEN u ELSE @]
      /\ _head' = [_head EXCEPT ![l] = IF u = ListNULL THEN d ELSE @]
      /\ asserted' = (/\ asserted
                      /\ IF d # ListNULL THEN _prev[d] = n ELSE _tail[l] = n
                      /\ IF u # ListNULL THEN _next[u] = n ELSE _head[l] = n)
      /\ order' = [order EXCEPT ![l] = Cut(s, i)]
  <2>1. List!Place(l, n) = i
    BY <1>1, <1>2, <1>3, ListsOfNodes
  <2> QED BY <1>1, <1>4, <1>6, <2>1, InsertionIs DEF List!TakeOut
<1>8. /\ Len(s) \in Nat /\ i \in 1 .. Len(s) /\ DOMAIN s = 1 .. Len(s)
      /\ \A k \in 1 .. Len(s) : s[k] \in ListNodes
      /\ \A j, k \in 1 .. Len(s) : s[j] = s[k] => j = k
  BY <1>2, <1>3 DEF IsInjective
<1>9. /\ \A k \in 1 .. Len(s) : s[k] = d <=> k = i + 1
      /\ \A k \in 1 .. Len(s) : s[k] = u <=> k = i - 1
      /\ d = ListNULL <=> i = Len(s)
      /\ u = ListNULL <=> i = 1
      /\ d \in ListNodes \cup {ListNULL} /\ u \in ListNodes \cup {ListNULL}
      /\ d # ListNULL => d \in Range(s)
      /\ u # ListNULL => u \in Range(s)
  <2>1. \A k \in 1 .. Len(s) : s[k] \in Range(s) /\ s[k] # ListNULL
    BY <1>8, ListAssumption DEF Range
  <2>2. /\ (\A k \in 1 .. Len(s) : s[k] = d <=> k = i + 1) /\ (d = ListNULL <=> i = Len(s))
        /\ d \in ListNodes \cup {ListNULL} /\ (d # ListNULL => d \in Range(s))
    <3>1. CASE i = Len(s)
      <4>1. i + 1 \notin 1 .. Len(s)
        BY <1>8, <3>1
      <4>2. d = ListNULL
        BY ONLY <1>5, <4>1, ZenonT(40) DEF LinkAt
      <4> QED BY <2>1, <3>1, <4>1, <4>2
    <3>2. CASE i # Len(s)
      <4>1. i + 1 \in 1 .. Len(s)
        <5>1. PICK m \in Nat : m = Len(s)
          BY ONLY <1>8, ZenonT(40)
        <5>2. i \in 1 .. m /\ i # m
          BY ONLY <1>8, <3>2, <5>1
        <5>3. i + 1 \in 1 .. m
          BY ONLY <5>1, <5>2
        <5> QED BY ONLY <5>1, <5>3
      <4>2. d = s[i + 1]
        BY <1>5, <4>1 DEF LinkAt
      <4> QED BY <1>8, <2>1, <3>2, <4>1, <4>2
    <3> QED BY <3>1, <3>2
  <2>3. /\ (\A k \in 1 .. Len(s) : s[k] = u <=> k = i - 1) /\ (u = ListNULL <=> i = 1)
        /\ u \in ListNodes \cup {ListNULL} /\ (u # ListNULL => u \in Range(s))
    <3>1. CASE i = 1
      <4>1. i - 1 \notin 1 .. Len(s)
        BY <1>8, <3>1
      <4>2. u = ListNULL
        BY <1>5, <4>1 DEF LinkAt
      <4> QED BY <2>1, <3>1, <4>1, <4>2
    <3>2. CASE i # 1
      <4>1. i - 1 \in 1 .. Len(s)
        BY <1>8, <3>2
      <4>2. u = s[i - 1]
        BY <1>5, <4>1 DEF LinkAt
      <4> QED BY <1>8, <2>1, <3>2, <4>1, <4>2
    <3> QED BY <3>1, <3>2
  <2> QED BY <2>2, <2>3
<1>10. PICK a, z, r : /\ a = (IF i = 1 THEN LinkAt(s, 2) ELSE _head[l])
                      /\ z = (IF i = Len(s) THEN LinkAt(s, Len(s) - 1) ELSE _tail[l])
                      /\ r = Cut(s, i)
  OBVIOUS
<1>11. a = (IF u = ListNULL THEN d ELSE _head[l]) /\ z = (IF d = ListNULL THEN u ELSE _tail[l])
  <2>1. i = 1 => d = LinkAt(s, 2)
    BY <1>5
  <2>2. i = Len(s) => u = LinkAt(s, Len(s) - 1)
    BY <1>5
  <2>3. (d = ListNULL <=> i = Len(s)) /\ (u = ListNULL <=> i = 1)
    BY ONLY <1>9, ZenonT(40)
  <2> QED BY <1>10, <2>1, <2>2, <2>3
<1>12. PointersCut(_next, _prev, s, i, x, y)
  BY <1>5, <1>7, <1>8, <1>9 DEF PointersCut
<1>13. Chain(a, z, x, y, r) /\ Range(r) \subseteq Range(s)
  BY ONLY <1>2, <1>3, <1>10, <1>12, ChainCut
<1>14. asserted'
  <2>1. d # ListNULL => _prev[d] = n
    <3>1. SUFFICES ASSUME d # ListNULL PROVE _prev[d] = n
      OBVIOUS
    <3>2. i + 1 \in 1 .. Len(s) /\ (i + 1) - 1 = i
      <4>1. PICK m \in Nat : m = Len(s)
        BY <1>8
      <4>2. i \in 1 .. m /\ i # m
        BY <1>8, <1>9, <3>1, <4>1
      <4>3. i + 1 \in 1 .. m /\ (i + 1) - 1 = i
        BY ONLY <4>1, <4>2
      <4> QED BY <4>1, <4>3
    <3>3. d = s[i + 1] /\ LinkAt(s, i) = n
      BY <1>3, <1>5, <1>8, <3>2 DEF LinkAt
    <3> QED BY <1>2, <3>2, <3>3 DEF Chain
  <2>2. u # ListNULL => _next[u] = n
    <3>1. SUFFICES ASSUME u # ListNULL PROVE _next[u] = n
      OBVIOUS
    <3>2. i - 1 \in 1 .. Len(s) /\ (i - 1) + 1 = i
      <4>1. i # 1
        BY <1>9, <3>1
      <4> QED BY <1>8, <4>1
    <3>3. u = s[i - 1] /\ LinkAt(s, i) = n
      BY <1>3, <1>5, <1>8, <3>2 DEF LinkAt
    <3> QED BY <1>2, <3>2, <3>3 DEF Chain
  <2>3. d = ListNULL => _tail[l] = n
    BY <1>2, <1>3, <1>8, <1>9 DEF Chain, LinkAt
  <2>4. u = ListNULL => _head[l] = n
    BY <1>2, <1>3, <1>8, <1>9 DEF Chain, LinkAt
  <2> QED BY <1>7, <2>1, <2>2, <2>3, <2>4 DEF ListInv
<1>15. LeavesOthers(l, x, y, r)
  <2>1. ASSUME NEW k \in Lists \ {l} PROVE Range(order[k]) \cap Range(s) = {}
    BY <1>1 DEF ListInv
  <2>2. ASSUME NEW k \in Lists \ {l}, NEW e \in Range(order[k])
        PROVE  x[e] = _next[e] /\ y[e] = _prev[e]
    <3>1. e \in ListNodes
      <4>1. order[k] \in Seq(ListNodes)
        BY DEF ListInv
      <4> QED BY <4>1 DEF Range
    <3>2. e # d /\ e # u
      BY <1>9, <2>1, <3>1, ListAssumption
    <3> QED BY <1>7, <3>1, <3>2
  <2> QED BY <1>13, <2>1, <2>2 DEF LeavesOthers
<1>16. Pointers(x, y)
  BY <1>7, <1>9 DEF Pointers, ListInv
<1>17. Becomes(l, a, z, x, y, r)
  <2>1. _head' = [_head EXCEPT ![l] = a] /\ _tail' = [_tail EXCEPT ![l] = z]
    BY <1>7, <1>11
  <2>2. _next' = x /\ _prev' = y /\ order' = [order EXCEPT ![l] = r]
    BY <1>4, <1>7, <1>10
  <2> QED BY ONLY <1>14, <2>1, <2>2 DEF Becomes
<1>18. /\ a \in ListNodes \cup {ListNULL} /\ z \in ListNodes \cup {ListNULL}
       /\ ListInv /\ l \in Lists
  BY <1>9, <1>11 DEF ListInv
<1> QED BY ONLY <1>13, <1>15, <1>16, <1>17, <1>18, ChainsKept

\* A node that has a next in its list, or one before it.
LEMMA Neighbours ==
  ASSUME ListInv, NEW l \in Lists, NEW p \in ListNodes, p \in Range(order[l])
  PROVE  \E i \in 1 .. Len(order[l]) :
           /\ p = order[l][i]
           /\ p # _tail[l] => i \in 1 .. Len(order[l]) - 1 /\ _next[p] = order[l][i + 1]
           /\ p # _head[l] => i - 1 \in 1 .. Len(order[l]) - 1 /\ _prev[p] = order[l][i - 1]
<1>1. PICK s : s = order[l]
  OBVIOUS
<1>2. s \in Seq(ListNodes) /\ Chain(_head[l], _tail[l], _next, _prev, s)
  BY <1>1 DEF ListInv
<1>3. PICK i \in 1 .. Len(s) : p = s[i]
  BY <1>1, <1>2 DEF Range
<1>4. /\ _head[l] = LinkAt(s, 1) /\ _tail[l] = LinkAt(s, Len(s)) /\ Len(s) \in Nat
      /\ _next[p] = LinkAt(s, i + 1) /\ _prev[p] = LinkAt(s, i - 1)
  BY <1>2, <1>3 DEF Chain
<1>5. p # _tail[l] => i \in 1 .. Len(s) - 1 /\ _next[p] = s[i + 1]
  BY <1>3, <1>4 DEF LinkAt
<1>6. p # _head[l] => i - 1 \in 1 .. Len(s) - 1 /\ _prev[p] = s[i - 1]
  BY <1>3, <1>4 DEF LinkAt
<1> QED BY <1>1, <1>3, <1>5, <1>6

LEMMA ListStepKeepsInv == ASSUME ListInv, List!ListNext PROVE ListInv'
<1>1. PICK l \in Lists : \/ \E n \in ListNodes :
                              \/ List!AddHead(l, n) \/ List!AddTail(l, n) \/ List!TakeOut(l, n)
                              \/ \E p \in ListNodes \cup {ListNULL} :
                                   List!AddBack(l, p, n) \/ List!AddFront(l, p, n)
                         \/ List!Pop(l)
  BY DEF List!ListNext
<1>2. CASE List!Pop(l)
  BY <1>2, TakesOut DEF List!Pop
<1>3. ASSUME NEW n \in ListNodes, List!AddHead(l, n) \/ List!AddTail(l, n) \/ List!TakeOut(l, n)
      PROVE  ListInv'
  BY <1>3, AddsHead, AddsTail, TakesOut
<1>4. ASSUME NEW n \in ListNodes, NEW p \in ListNodes \cup {ListNULL}, List!AddBack(l, p, n)
      PROVE  ListInv'
  <2>1. CASE p = ListNULL \/ p = _tail[l]
    BY <1>4, <2>1, AddsHead, AddsTail DEF List!AddBack
  <2>2. CASE p # ListNULL /\ p # _tail[l]
    <3>1. List!Out(n) /\ List!In(l, p) /\ List!Between(l, p, n, _next[p])
      BY <1>4, <2>2 DEF List!AddBack
    <3>2. p \in ListNodes /\ p \in Range(order[l])
      BY <2>2, <3>1, ListsOfNodes
    <3>3. PICK i \in 1 .. Len(order[l]) - 1 : p = order[l][i] /\ _next[p] = order[l][i + 1]
      BY <2>2, <3>2, Neighbours
    <3> QED BY <3>1, <3>3, AddsBetween
  <2> QED BY <2>1, <2>2
<1>5. ASSUME NEW n \in ListNodes, NEW q \in ListNodes \cup {ListNULL}, List!AddFront(l, q, n)
      PROVE  ListInv'
  <2>1. CASE q = ListNULL \/ q = _head[l]
    BY <1>5, <2>1, AddsHead, AddsTail DEF List!AddFront
  <2>2. CASE q # ListNULL /\ q # _head[l]
    <3>1. List!Out(n) /\ List!In(l, q) /\ List!Between(l, _prev[q], n, q)
      BY <1>5, <2>2 DEF List!AddFront
    <3>2. q \in ListNodes /\ q \in Range(order[l])
      BY <2>2, <3>1, ListsOfNodes
    <3>3. PICK i \in 1 .. Len(order[l]) : /\ q = order[l][i] /\ i - 1 \in 1 .. Len(order[l]) - 1
                                          /\ _prev[q] = order[l][i - 1]
      BY <2>2, <3>2, Neighbours
    <3>4. PICK j : j = i - 1
      OBVIOUS
    <3>5. j \in 1 .. Len(order[l]) - 1 /\ j + 1 = i
      BY <3>3, <3>4
    <3>6. _prev[q] = order[l][j] /\ q = order[l][j + 1]
      BY <3>3, <3>4, <3>5
    <3> QED BY ONLY ListInv, l \in Lists, n \in ListNodes, <3>1, <3>5, <3>6, AddsBetween
  <2> QED BY <2>1, <2>2
<1> QED BY <1>1, <1>2, <1>3, <1>4, <1>5

LEMMA ListsAreSequences == ASSUME ListInv PROVE List!ListIsSequence
<1>1. ASSUME NEW l \in Lists, NEW s, s = order[l]
      PROVE  LET At(i) == IF i \in DOMAIN s THEN s[i] ELSE ListNULL
             IN  /\ _head[l] = At(1) /\ _tail[l] = At(Len(s))
                 /\ \A i \in DOMAIN s : _next[s[i]] = At(i + 1) /\ _prev[s[i]] = At(i - 1)
  <2>1. Chain(_head[l], _tail[l], _next, _prev, s)
    BY <1>1 DEF ListInv
  <2>2. DOMAIN s = 1 .. Len(s)
    BY <2>1 DEF Chain
  <2> QED BY <2>1, <2>2 DEF Chain, LinkAt
<1> QED BY <1>1 DEF List!ListIsSequence, ListInv

LEMMA ListsStutter == ASSUME ListInv, UNCHANGED listVars PROVE ListInv'
BY DEF listVars, ListInv, Chain, LinkAt

-----------------------------------------------------------------------------
(***************************************************************************)
(* The hash tables of antlib.                                              *)
(***************************************************************************)
\* The nodes of chain c at index i are those of keys with this index, one for
\* each, and have what is stored under them.
ChainOfIndex(c, i, values) ==
  /\ \A n \in 1 .. Len(c) : IndexOf[c[n].key] = i /\ values[c[n].key] = c[n].vl
  /\ \A m, n \in 1 .. Len(c) : c[m].key = c[n].key => m = n

InChain(c, k) == \E n \in 1 .. Len(c) : c[n].key = k

\* Values are pointers: no two keys have one.
OnceStored(values) == \A j, k \in Keys : values[j] = values[k] /\ values[j] # NoValue => j = k

\* Node m of chain j is still to be asked about when the walk is at w.
Coming(w, j, m) == j > w.i \/ (j = w.i /\ (m > w.n \/ m = 1))

NodesAsked(chains, w, rest) ==
  \A j \in Hash!Indexes : \A m \in 1 .. Len(chains[j]) :
    chains[j][m].vl \in rest <=> Coming(w, j, m)

Table(chains, values) ==
  /\ chains \in [Hash!Indexes -> Seq(Hash!Nodes)]
  /\ values \in [Keys -> Values \cup {NoValue}]
  /\ \A i \in Hash!Indexes : ChainOfIndex(chains[i], i, values)
  /\ \A k \in Keys : values[k] # NoValue => InChain(chains[IndexOf[k]], k)
  /\ OnceStored(values)

HashInv ==
  /\ Table(_cap, stored)
  /\ walk \in [i : 0 .. STRHASH_CAP_MAX, n : Nat \ {0}]
  /\ walk.i = STRHASH_CAP_MAX => walk.n = 1
  /\ freed \subseteq Values /\ \A k \in Keys : stored[k] \notin freed
  /\ answered = TRUE
  /\ unasked \subseteq Hash!StoredValues
  /\ NodesAsked(_cap, walk, unasked)

-----------------------------------------------------------------------------
LEMMA NodeCut ==
  ASSUME NEW c \in Seq(Hash!Nodes), NEW n \in 1 .. Len(c)
  PROVE  /\ Hash!Without(c, n) \in Seq(Hash!Nodes)
         /\ Len(Hash!Without(c, n)) = Len(c) - 1
         /\ \A m \in 1 .. Len(c) - 1 :
              Hash!Without(c, n)[m] = IF m < n THEN c[m] ELSE c[m + 1]
<1>1. Hash!Without(c, n) = Cut(c, n)
  BY DEF Hash!Without, Cut
<1> QED BY <1>1, CutAt

\* Where the nodes of a chain are after node n is out.
PlaceAfter(m, n) == IF m < n THEN m ELSE m - 1

LEMMA NodesKept ==
  ASSUME NEW c \in Seq(Hash!Nodes), NEW n \in 1 .. Len(c), NEW d, d = Hash!Without(c, n)
  PROVE  /\ \A m \in 1 .. Len(d) : \E l \in 1 .. Len(c) :
              l # n /\ d[m] = c[l] /\ m = PlaceAfter(l, n)
         /\ \A l \in 1 .. Len(c) : l # n =>
              PlaceAfter(l, n) \in 1 .. Len(d) /\ d[PlaceAfter(l, n)] = c[l]
<1> DEFINE L == Len(c)
<1>1. /\ Len(d) = L - 1 /\ L \in Nat
      /\ \A m \in 1 .. L - 1 : d[m] = IF m < n THEN c[m] ELSE c[m + 1]
  BY NodeCut
<1> HIDE DEF L
<1>2. n \in 1 .. L
  BY DEF L
<1>3. ASSUME NEW m \in 1 .. Len(d)
      PROVE  \E l \in 1 .. L : l # n /\ d[m] = c[l] /\ m = PlaceAfter(l, n)
  <2>1. m \in 1 .. L - 1
    BY <1>1
  <2>2. CASE m < n
    <3>1. m \in 1 .. L /\ m # n /\ d[m] = c[m] /\ m = PlaceAfter(m, n)
      BY ONLY <1>1, <1>2, <2>1, <2>2 DEF PlaceAfter
    <3> QED BY ONLY <3>1
  <2>3. CASE ~(m < n)
    <3>1. m + 1 \in 1 .. L /\ m + 1 # n /\ d[m] = c[m + 1] /\ m = PlaceAfter(m + 1, n)
      BY ONLY <1>1, <1>2, <2>1, <2>3 DEF PlaceAfter
    <3> QED BY ONLY <3>1
  <2> QED BY <2>2, <2>3
<1>4. ASSUME NEW l \in 1 .. L, l # n
      PROVE  PlaceAfter(l, n) \in 1 .. Len(d) /\ d[PlaceAfter(l, n)] = c[l]
  <2>1. CASE l < n
    BY ONLY <1>1, <1>2, <1>4, <2>1, l \in 1 .. L DEF PlaceAfter
  <2>2. CASE l > n
    <3>1. PlaceAfter(l, n) = l - 1 /\ l - 1 \in 1 .. L - 1 /\ ~(l - 1 < n) /\ (l - 1) + 1 = l
      BY ONLY <1>1, <1>2, <2>2, l \in 1 .. L DEF PlaceAfter
    <3>2. d[l - 1] = c[(l - 1) + 1]
      BY ONLY <3>1, <1>1
    <3> QED BY ONLY <3>1, <3>2, <1>1
  <2> QED BY ONLY <2>1, <2>2, <1>1, <1>2, <1>4, l \in 1 .. L
<1> QED BY <1>1, <1>3, <1>4 DEF L

\* The first node with a key, and the answer of get_str_hash, when a chain
\* has one node of a key at most.
LEMMA PlaceOfKey ==
  ASSUME NEW c \in Seq(Hash!Nodes), NEW k,
         \A m, n \in 1 .. Len(c) : c[m].key = c[n].key => m = n
  PROVE  /\ Hash!Has(c, k) <=> InChain(c, k)
         /\ \A n \in 1 .. Len(c) : c[n].key = k => Hash!Place(c, k) = n
         /\ Hash!Has(c, k) => Hash!Place(c, k) \in 1 .. Len(c) /\ c[Hash!Place(c, k)].key = k
<1>1. DOMAIN c = 1 .. Len(c) /\ Len(c) \in Nat
  OBVIOUS
<1>2. Hash!Has(c, k) <=> InChain(c, k)
  BY <1>1 DEF Hash!Has, InChain
<1>3. ASSUME NEW n \in 1 .. Len(c), c[n].key = k
      PROVE  Hash!Place(c, k) = n
  <2>1. \A m \in 1 .. n - 1 : c[m].key # k
    BY <1>1, <1>3
  <2>2. \A m \in DOMAIN c : c[m].key = k => m = n
    BY <1>1, <1>3
  <2>3. n \in DOMAIN c
    BY <1>1
  <2> QED BY <2>1, <2>2, <2>3, <1>3 DEF Hash!Place
<1> QED BY <1>2, <1>3 DEF InChain

\* One chain has each stored value, in one node.
LEMMA OneNode ==
  ASSUME NEW chains, NEW values, Table(chains, values),
         NEW i \in Hash!Indexes, NEW j \in Hash!Indexes,
         NEW m \in 1 .. Len(chains[i]), NEW n \in 1 .. Len(chains[j]),
         chains[i][m].vl = chains[j][n].vl
  PROVE  i = j /\ m = n
<1> USE DEF Table
<1>1. chains[i][m] \in Hash!Nodes /\ chains[j][n] \in Hash!Nodes
  OBVIOUS
<1>2. PICK x, y : x = chains[i][m] /\ y = chains[j][n]
  OBVIOUS
<1>3. x.key \in Keys /\ y.key \in Keys /\ x.vl \in Values /\ x.vl # NoValue
  BY <1>1, <1>2, HashAssumption DEF Hash!Nodes
<1>4. values[x.key] = x.vl /\ values[y.key] = y.vl /\ IndexOf[x.key] = i /\ IndexOf[y.key] = j
  BY <1>2 DEF ChainOfIndex
<1>5. x.key = y.key
  BY <1>2, <1>3, <1>4 DEF OnceStored
<1>6. i = j
  BY <1>4, <1>5
<1> QED BY <1>2, <1>5, <1>6 DEF ChainOfIndex
\* What a table has under a key is what is stored.
LEMMA TableAnswers ==
  ASSUME NEW chains, NEW values, Table(chains, values), NEW k \in Keys,
         NEW c, c = chains[IndexOf[k]]
  PROVE  /\ IndexOf[k] \in Hash!Indexes /\ c \in Seq(Hash!Nodes)
         /\ Hash!Has(c, k) <=> values[k] # NoValue
         /\ Hash!Has(c, k) => /\ Hash!Place(c, k) \in 1 .. Len(c)
                              /\ c[Hash!Place(c, k)].key = k
                              /\ c[Hash!Place(c, k)].vl = values[k]
<1>1. IndexOf[k] \in Hash!Indexes
  BY HashAssumption DEF Hash!Indexes
<1>2. c \in Seq(Hash!Nodes) /\ ChainOfIndex(c, IndexOf[k], values)
  BY <1>1 DEF Table
<1>3. /\ Hash!Has(c, k) <=> InChain(c, k)
      /\ Hash!Has(c, k) => Hash!Place(c, k) \in 1 .. Len(c) /\ c[Hash!Place(c, k)].key = k
  BY <1>2, PlaceOfKey DEF ChainOfIndex
<1>4. Hash!Has(c, k) => c[Hash!Place(c, k)].vl = values[k]
  BY <1>2, <1>3 DEF ChainOfIndex
<1>5. ASSUME NEW n \in 1 .. Len(c), c[n].key = k
      PROVE  values[k] # NoValue
  <2>1. c[n] \in Hash!Nodes
    BY <1>2
  <2>2. c[n].vl \in Values
    BY <2>1 DEF Hash!Nodes
  <2> QED BY <1>2, <1>5, <2>2, HashAssumption DEF ChainOfIndex
<1>6. values[k] # NoValue => InChain(c, k)
  BY DEF Table
<1> QED BY <1>1, <1>2, <1>3, <1>4, <1>5, <1>6 DEF InChain

LEMMA TableCut ==
  ASSUME NEW chains, NEW values, Table(chains, values),
         NEW i \in Hash!Indexes, NEW n \in 1 .. Len(chains[i]), NEW k, k = chains[i][n].key,
         NEW fewer, fewer = [chains EXCEPT ![i] = Hash!Without(chains[i], n)],
         NEW less, less = [values EXCEPT ![k] = NoValue]
  PROVE  k \in Keys /\ Table(fewer, less)
<1>1. PICK c, d : c = chains[i] /\ d = Hash!Without(c, n)
  OBVIOUS
<1>2. /\ chains \in [Hash!Indexes -> Seq(Hash!Nodes)]
      /\ values \in [Keys -> Values \cup {NoValue}]
  BY DEF Table
<1>3. c \in Seq(Hash!Nodes) /\ n \in 1 .. Len(c) /\ ChainOfIndex(c, i, values)
  BY <1>1, <1>2 DEF Table
<1>4. c[n] \in Hash!Nodes /\ k = c[n].key
  BY <1>1, <1>3
<1>5. k \in Keys /\ IndexOf[k] = i
  BY <1>3, <1>4 DEF Hash!Nodes, ChainOfIndex
<1>6. d \in Seq(Hash!Nodes)
  BY <1>1, <1>3, NodeCut
<1>7. fewer = [chains EXCEPT ![i] = d]
  BY <1>1
<1>8. /\ fewer \in [Hash!Indexes -> Seq(Hash!Nodes)] /\ fewer[i] = d
      /\ \A j \in Hash!Indexes : j # i => fewer[j] = chains[j]
  BY ONLY <1>2, <1>6, <1>7, i \in Hash!Indexes
<1>9. /\ less \in [Keys -> Values \cup {NoValue}] /\ less[k] = NoValue
      /\ \A j \in Keys : j # k => less[j] = values[j]
  BY ONLY <1>2, <1>5, less = [values EXCEPT ![k] = NoValue]
<1>10. /\ \A m \in 1 .. Len(d) : \E l \in 1 .. Len(c) :
            l # n /\ d[m] = c[l] /\ m = PlaceAfter(l, n)
       /\ \A l \in 1 .. Len(c) : l # n =>
            PlaceAfter(l, n) \in 1 .. Len(d) /\ d[PlaceAfter(l, n)] = c[l]
  <2>1. d = Hash!Without(c, n)
    BY <1>1
  <2> QED BY ONLY <1>3, <2>1, NodesKept
<1>11. ASSUME NEW j \in Hash!Indexes PROVE ChainOfIndex(fewer[j], j, less)
  <2>1. CASE j = i
    <3>1. ASSUME NEW m \in 1 .. Len(d)
          PROVE  IndexOf[d[m].key] = i /\ less[d[m].key] = d[m].vl
      <4>1. PICK l \in 1 .. Len(c) : l # n /\ d[m] = c[l]
        BY <1>10
      <4>2. c[l] \in Hash!Nodes /\ c[l].key # k
        BY <1>3, <1>4, <4>1 DEF ChainOfIndex
      <4>3. c[l].key \in Keys
        BY <4>2 DEF Hash!Nodes
      <4> QED BY <1>3, <1>9, <4>1, <4>2, <4>3 DEF ChainOfIndex
    <3>2. ASSUME NEW m \in 1 .. Len(d), NEW o \in 1 .. Len(d), d[m].key = d[o].key
          PROVE  m = o
      <4>1. PICK l \in 1 .. Len(c) : d[m] = c[l] /\ m = PlaceAfter(l, n)
        BY <1>10
      <4>2. PICK q \in 1 .. Len(c) : d[o] = c[q] /\ o = PlaceAfter(q, n)
        BY <1>10
      <4>3. l = q
        BY <1>3, <3>2, <4>1, <4>2 DEF ChainOfIndex
      <4> QED BY <4>1, <4>2, <4>3
    <3>3. ChainOfIndex(d, i, less)
      BY ONLY <3>1, <3>2 DEF ChainOfIndex
    <3> QED BY ONLY <1>8, <2>1, <3>3
  <2>2. CASE j # i
    <3>1. fewer[j] = chains[j] /\ ChainOfIndex(chains[j], j, values)
          /\ chains[j] \in Seq(Hash!Nodes)
      BY <1>2, <1>8, <2>2 DEF Table
    <3>2. ASSUME NEW m \in 1 .. Len(chains[j])
          PROVE  less[chains[j][m].key] = values[chains[j][m].key]
      <4>1. chains[j][m] \in Hash!Nodes
        BY <3>1
      <4>2. chains[j][m].key \in Keys /\ chains[j][m].key # k
        BY <1>5, <2>2, <3>1, <4>1 DEF Hash!Nodes, ChainOfIndex
      <4> QED BY <1>9, <4>2
    <3> QED BY <3>1, <3>2 DEF ChainOfIndex
  <2> QED BY <2>1, <2>2
<1>12. ASSUME NEW j \in Keys, less[j] # NoValue PROVE InChain(fewer[IndexOf[j]], j)
  <2>1. j # k /\ values[j] # NoValue
    BY <1>9, <1>12
  <2>2. InChain(chains[IndexOf[j]], j) /\ IndexOf[j] \in Hash!Indexes
    BY <2>1, HashAssumption DEF Table, Hash!Indexes
  <2>3. CASE IndexOf[j] = i
    <3>1. PICK l \in 1 .. Len(c) : c[l].key = j
      BY <1>1, <2>2, <2>3 DEF InChain
    <3>2. PlaceAfter(l, n) \in 1 .. Len(d) /\ d[PlaceAfter(l, n)] = c[l]
      BY <1>4, <1>10, <2>1, <3>1
    <3> QED BY <1>8, <2>3, <3>1, <3>2 DEF InChain
  <2>4. CASE IndexOf[j] # i
    BY <1>8, <2>2, <2>4
  <2> QED BY <2>3, <2>4
<1>13. OnceStored(less)
  BY <1>9, <1>5 DEF Table, OnceStored
<1> QED BY <1>5, <1>8, <1>9, <1>11, <1>12, <1>13 DEF Table

LEMMA NodeFirst ==
  ASSUME NEW c \in Seq(Hash!Nodes), NEW x \in Hash!Nodes, NEW d, d = <<x>> \o c
  PROVE  /\ d \in Seq(Hash!Nodes) /\ Len(d) = Len(c) + 1 /\ d[1] = x
         /\ \A m \in 1 .. Len(c) : d[m + 1] = c[m]
         /\ \A m \in 2 .. Len(d) : m - 1 \in 1 .. Len(c) /\ d[m] = c[m - 1]
<1>1. PICK S : S = Hash!Nodes
  OBVIOUS
<1>2. c \in Seq(S) /\ x \in S
  BY <1>1
<1>3. /\ d \in Seq(S) /\ Len(d) = Len(c) + 1 /\ Len(c) \in Nat
  BY ONLY <1>2, d = <<x>> \o c
<1>4. \A m \in 1 .. Len(c) + 1 : d[m] = IF m = 1 THEN x ELSE c[m - 1]
  BY ONLY <1>2, d = <<x>> \o c
<1>5. d[1] = x
  BY ONLY <1>3, <1>4
<1>6. ASSUME NEW m \in 1 .. Len(c) PROVE d[m + 1] = c[m]
  <2>1. m + 1 \in 1 .. Len(c) + 1 /\ m + 1 # 1 /\ (m + 1) - 1 = m
    BY ONLY <1>3, m \in 1 .. Len(c)
  <2>2. d[m + 1] = c[(m + 1) - 1]
    BY ONLY <1>4, <2>1
  <2> QED BY ONLY <2>1, <2>2
<1>7. ASSUME NEW m \in 2 .. Len(d) PROVE m - 1 \in 1 .. Len(c) /\ d[m] = c[m - 1]
  BY ONLY <1>3, <1>4, m \in 2 .. Len(d)
<1> QED BY <1>1, <1>3, <1>5, <1>6, <1>7

LEMMA TablePut ==
  ASSUME NEW chains, NEW values, Table(chains, values),
         NEW k \in Keys, values[k] = NoValue, NEW v \in Values, \A j \in Keys : values[j] # v,
         NEW i, i = IndexOf[k],
         NEW bigger, bigger = [chains EXCEPT ![i] = <<[key |-> k, vl |-> v]>> \o chains[i]],
         NEW more, more = [values EXCEPT ![k] = v]
  PROVE  Table(bigger, more)
<1>1. PICK c, x : c = chains[i] /\ x = [key |-> k, vl |-> v]
  OBVIOUS
<1>21. PICK d : d = <<x>> \o c
  OBVIOUS
<1>2. /\ chains \in [Hash!Indexes -> Seq(Hash!Nodes)] /\ i \in Hash!Indexes
      /\ values \in [Keys -> Values \cup {NoValue}]
  BY HashAssumption DEF Table, Hash!Indexes
<1>3. c \in Seq(Hash!Nodes) /\ ChainOfIndex(c, i, values) /\ Len(c) \in Nat
  BY <1>1, <1>2 DEF Table
<1>4. x \in Hash!Nodes /\ x.key = k /\ x.vl = v
  BY <1>1 DEF Hash!Nodes
<1>5. /\ d \in Seq(Hash!Nodes) /\ Len(d) = Len(c) + 1 /\ d[1] = x
      /\ \A m \in 1 .. Len(c) : d[m + 1] = c[m]
      /\ \A m \in 2 .. Len(d) : m - 1 \in 1 .. Len(c) /\ d[m] = c[m - 1]
  BY <1>3, <1>4, <1>21, NodeFirst
<1>7. bigger = [chains EXCEPT ![i] = d]
  BY <1>1, <1>21
<1>8. /\ bigger \in [Hash!Indexes -> Seq(Hash!Nodes)] /\ bigger[i] = d
      /\ \A j \in Hash!Indexes : j # i => bigger[j] = chains[j]
  BY ONLY <1>2, <1>5, <1>7
<1>9. /\ more \in [Keys -> Values \cup {NoValue}] /\ more[k] = v
      /\ \A j \in Keys : j # k => more[j] = values[j]
  BY ONLY <1>2, k \in Keys, v \in Values, more = [values EXCEPT ![k] = v]
<1>10. \A j \in Hash!Indexes : \A m \in 1 .. Len(chains[j]) :
         chains[j][m].key \in Keys /\ chains[j][m].key # k
  <2> SUFFICES ASSUME NEW j \in Hash!Indexes, NEW m \in 1 .. Len(chains[j])
               PROVE  chains[j][m].key \in Keys /\ chains[j][m].key # k
    OBVIOUS
  <2>1. chains[j][m] \in Hash!Nodes /\ ChainOfIndex(chains[j], j, values)
    BY <1>2 DEF Table
  <2>2. chains[j][m].key \in Keys /\ chains[j][m].vl \in Values
    BY <2>1 DEF Hash!Nodes
  <2> QED BY <2>1, <2>2, HashAssumption DEF ChainOfIndex
<1>11. ASSUME NEW j \in Hash!Indexes PROVE ChainOfIndex(bigger[j], j, more)
  <2>1. CASE j = i
    <3>1. ASSUME NEW m \in 1 .. Len(d)
          PROVE  IndexOf[d[m].key] = i /\ more[d[m].key] = d[m].vl
      <4>1. CASE m = 1
        BY <1>4, <1>5, <1>9, <4>1
      <4>2. CASE m # 1
        <5>1. m \in 2 .. Len(d)
          BY ONLY <1>3, <1>5, <4>2, m \in 1 .. Len(d)
        <5>2. m - 1 \in 1 .. Len(c) /\ d[m] = c[m - 1]
          BY <1>5, <5>1
        <5>3. c[m - 1].key \in Keys /\ c[m - 1].key # k
          BY <1>1, <1>2, <1>10, <5>2
        <5> QED BY <1>3, <1>9, <5>2, <5>3 DEF ChainOfIndex
      <4> QED BY <4>1, <4>2
    <3>2. ASSUME NEW m \in 1 .. Len(d), NEW o \in 1 .. Len(d), d[m].key = d[o].key
          PROVE  m = o
      <4>1. \A l \in 2 .. Len(d) : d[l].key # k
        BY <1>1, <1>2, <1>5, <1>10
      <4>2. \A l \in 1 .. Len(d) : l = 1 \/ l \in 2 .. Len(d)
        BY ONLY <1>3, <1>5
      <4>3. CASE m = 1 \/ o = 1
        BY <1>4, <1>5, <3>2, <4>1, <4>2, <4>3
      <4>4. CASE m # 1 /\ o # 1
        <5>1. m - 1 \in 1 .. Len(c) /\ d[m] = c[m - 1] /\ o - 1 \in 1 .. Len(c) /\ d[o] = c[o - 1]
          BY <1>5, <4>2, <4>4
        <5>2. m - 1 = o - 1
          BY <1>3, <3>2, <5>1 DEF ChainOfIndex
        <5> QED BY ONLY <1>3, <1>5, <5>2, m \in 1 .. Len(d), o \in 1 .. Len(d)
      <4> QED BY <4>3, <4>4
    <3>3. ChainOfIndex(d, i, more)
      BY ONLY <3>1, <3>2 DEF ChainOfIndex
    <3> QED BY ONLY <1>8, <2>1, <3>3
  <2>2. CASE j # i
    <3>1. bigger[j] = chains[j] /\ ChainOfIndex(chains[j], j, values)
      BY <1>8, <2>2 DEF Table
    <3>2. \A m \in 1 .. Len(chains[j]) : more[chains[j][m].key] = values[chains[j][m].key]
      BY ONLY <1>9, <1>10, j \in Hash!Indexes
    <3> QED BY ONLY <3>1, <3>2 DEF ChainOfIndex
  <2> QED BY <2>1, <2>2
<1>12. ASSUME NEW j \in Keys, more[j] # NoValue PROVE InChain(bigger[IndexOf[j]], j)
  <2>1. IndexOf[j] \in Hash!Indexes
    BY HashAssumption DEF Hash!Indexes
  <2>2. CASE j = k
    <3>1. 1 \in 1 .. Len(d) /\ d[1].key = k
      BY <1>3, <1>4, <1>5
    <3> QED BY <1>8, <2>2, <3>1 DEF InChain
  <2>3. CASE j # k
    <3>1. InChain(chains[IndexOf[j]], j)
      BY <1>9, <1>12, <2>3 DEF Table
    <3>2. CASE IndexOf[j] = i
      <4>1. PICK l \in 1 .. Len(c) : c[l].key = j
        BY <1>1, <3>1, <3>2 DEF InChain
      <4>2. l + 1 \in 1 .. Len(d) /\ d[l + 1].key = j
        BY <1>3, <1>5, <4>1
      <4> QED BY <1>8, <3>2, <4>2 DEF InChain
    <3>3. CASE IndexOf[j] # i
      BY <1>8, <2>1, <3>1, <3>3
    <3> QED BY <3>2, <3>3
  <2> QED BY <2>2, <2>3
<1>13. OnceStored(more)
  BY <1>9 DEF Table, OnceStored
<1> QED BY <1>8, <1>9, <1>11, <1>12, <1>13 DEF Table
-----------------------------------------------------------------------------
\* Between two walks nothing is still to be asked about.
LEMMA NothingComes ==
  ASSUME NEW chains PROVE NodesAsked(chains, Hash!Ended, {})
<1>1. ASSUME NEW j \in Hash!Indexes, NEW m PROVE ~Coming(Hash!Ended, j, m)
  <2>1. Hash!Ended.i = STRHASH_CAP_MAX /\ j \in 0 .. STRHASH_CAP_MAX - 1
    BY DEF Hash!Ended, Hash!Indexes
  <2> QED BY <2>1, HashAssumption DEF Coming
<1> QED BY <1>1 DEF NodesAsked

LEMMA WalkOver ==
  ASSUME NEW chains, NEW values, Table(chains, values), NEW rest,
         rest \subseteq {values[k] : k \in Keys} \ {NoValue},
         NodesAsked(chains, Hash!Ended, rest)
  PROVE  rest = {}
<1> SUFFICES ASSUME NEW v \in rest PROVE FALSE
  OBVIOUS
<1>1. PICK k \in Keys : v = values[k] /\ v # NoValue
  OBVIOUS
<1>2. IndexOf[k] \in Hash!Indexes
  BY HashAssumption DEF Hash!Indexes
<1>3. PICK n \in 1 .. Len(chains[IndexOf[k]]) : chains[IndexOf[k]][n].key = k
  BY <1>1 DEF Table, InChain
<1>4. chains[IndexOf[k]][n].vl = v
  BY <1>1, <1>2, <1>3 DEF Table, ChainOfIndex
<1>5. Coming(Hash!Ended, IndexOf[k], n)
  BY <1>2, <1>4 DEF NodesAsked
<1>6. Hash!Ended.i = STRHASH_CAP_MAX /\ IndexOf[k] \in 0 .. STRHASH_CAP_MAX - 1
  BY <1>2 DEF Hash!Ended, Hash!Indexes
<1> QED BY <1>5, <1>6, HashAssumption DEF Coming

\* What is stored is in a node, and a node has what is stored.
LEMMA NodeStored ==
  ASSUME NEW chains, NEW values, Table(chains, values),
         NEW j \in Hash!Indexes, NEW m \in 1 .. Len(chains[j])
  PROVE  /\ chains[j] \in Seq(Hash!Nodes) /\ chains[j][m] \in Hash!Nodes
         /\ chains[j][m].key \in Keys /\ chains[j][m].vl \in Values
         /\ chains[j][m].vl # NoValue
         /\ values[chains[j][m].key] = chains[j][m].vl
<1>1. chains[j] \in Seq(Hash!Nodes) /\ chains[j][m] \in Hash!Nodes
  BY DEF Table
<1>2. chains[j][m].key \in Keys /\ chains[j][m].vl \in Values
  BY <1>1 DEF Hash!Nodes
<1> QED BY <1>1, <1>2, HashAssumption DEF Table, ChainOfIndex

LEMMA HashStarts == ASSUME Hash!HashInit PROVE HashInv
<1>1. /\ _cap \in [Hash!Indexes -> Seq(Hash!Nodes)]
      /\ \A i \in Hash!Indexes : Len(_cap[i]) = 0
  BY DEF Hash!HashInit
<1>2. stored \in [Keys -> Values \cup {NoValue}] /\ \A k \in Keys : stored[k] = NoValue
  BY DEF Hash!HashInit
<1>3. Table(_cap, stored)
  <2>1. ASSUME NEW i \in Hash!Indexes PROVE ChainOfIndex(_cap[i], i, stored)
    BY <1>1 DEF ChainOfIndex
  <2> QED BY <1>1, <1>2, <2>1 DEF Table, OnceStored
<1>4. walk = Hash!Ended /\ unasked = {} /\ answered = TRUE /\ freed = {}
  BY DEF Hash!HashInit
<1>5. walk \in [i : 0 .. STRHASH_CAP_MAX, n : Nat \ {0}] /\ walk.n = 1
  BY <1>4, HashAssumption DEF Hash!Ended
<1>6. NodesAsked(_cap, walk, unasked)
  BY <1>4, NothingComes
<1> QED BY <1>3, <1>4, <1>5, <1>6 DEF HashInv

\* The caller gets what is stored, and no walk is under way.
LEMMA HashAnswers ==
  ASSUME HashInv, NEW k \in Keys
  PROVE  Hash!Get(k) = stored[k]
<1>1. PICK c : c = _cap[IndexOf[k]]
  OBVIOUS
<1>2. /\ Hash!Has(c, k) <=> stored[k] # NoValue
      /\ Hash!Has(c, k) => c[Hash!Place(c, k)].vl = stored[k]
  BY <1>1, TableAnswers DEF HashInv
<1> QED BY <1>1, <1>2 DEF Hash!Get

\* A call outside of a walk that leaves the table right, and frees only what is not stored.
LEMMA HashCall ==
  ASSUME HashInv, walk = Hash!Ended, UNCHANGED <<walk, answered>>, unasked' = {},
         Table(_cap', stored'), freed' \subseteq Values,
         \A k \in Keys : stored'[k] \notin freed'
  PROVE  HashInv'
<1>1. NodesAsked(_cap', Hash!Ended, {})
  BY NothingComes
<1> QED BY <1>1 DEF HashInv

LEMMA HashQuiet ==
  ASSUME HashInv, walk = Hash!Ended
  PROVE  unasked = {}
BY WalkOver DEF HashInv, Hash!StoredValues

LEMMA HashAsked ==
  ASSUME HashInv, NEW k \in Keys, Hash!Asked(k), Hash!Idle
  PROVE  walk = Hash!Ended /\ UNCHANGED <<walk, answered>> /\ unasked' = {}
<1>1. walk = Hash!Ended /\ walk' = walk /\ unasked' = unasked
      /\ answered' = (answered /\ Hash!Get(k) = stored[k])
  BY DEF Hash!Asked, Hash!Idle
<1>2. answered = TRUE
  BY DEF HashInv
<1>3. unasked = {}
  BY <1>1, HashQuiet
<1> QED BY <1>1, <1>2, <1>3, HashAnswers

LEMMA SetKeeps ==
  ASSUME HashInv, NEW k \in Keys, NEW v \in Values, Hash!Set(k, v)
  PROVE  HashInv'
<1>1. walk = Hash!Ended /\ UNCHANGED <<walk, answered>> /\ unasked' = {}
  BY HashAsked DEF Hash!Set
<1>2. v \notin Hash!StoredValues /\ freed' = freed \ {v}
  BY DEF Hash!Set
<1>3. \A j \in Keys : stored[j] # v
  BY <1>2, HashAssumption DEF Hash!StoredValues
<1>4. /\ freed \subseteq Values /\ \A j \in Keys : stored[j] \notin freed
      /\ Table(_cap, stored)
  BY DEF HashInv
<1>5. CASE Hash!Get(k) # NoValue
  <2>1. _cap' = _cap /\ stored' = stored
    BY <1>5 DEF Hash!Set
  <2> QED BY <1>1, <1>2, <1>4, <2>1, HashCall
<1>6. CASE Hash!Get(k) = NoValue
  <2>1. PICK i : i = IndexOf[k]
    OBVIOUS
  <2>2. /\ _cap' = [_cap EXCEPT ![i] = <<[key |-> k, vl |-> v]>> \o _cap[i]]
        /\ stored' = [stored EXCEPT ![k] = v]
    BY <1>6, <2>1 DEF Hash!Set
  <2>3. stored[k] = NoValue
    BY <1>6, HashAnswers
  <2>4. Table(_cap', stored')
    BY <1>3, <1>4, <2>1, <2>2, <2>3, TablePut
  <2>5. stored \in [Keys -> Values \cup {NoValue}]
    BY <1>4 DEF Table
  <2>6. ASSUME NEW j \in Keys PROVE stored'[j] \notin freed'
    BY ONLY <1>2, <1>4, <2>2, <2>5, j \in Keys, k \in Keys
  <2>7. freed' \subseteq Values
    BY <1>2, <1>4
  <2> QED BY ONLY HashInv, <1>1, <2>4, <2>6, <2>7, HashCall
<1> QED BY <1>5, <1>6

LEMMA DelKeeps ==
  ASSUME HashInv, NEW k \in Keys, Hash!Del(k)
  PROVE  HashInv'
<1>1. walk = Hash!Ended /\ UNCHANGED <<walk, answered>> /\ unasked' = {}
  BY HashAsked DEF Hash!Del
<1>2. PICK i, c : i = IndexOf[k] /\ c = _cap[i]
  OBVIOUS
<1>3. /\ freed \subseteq Values /\ \A j \in Keys : stored[j] \notin freed
      /\ Table(_cap, stored)
  BY DEF HashInv
<1>4. /\ stored' = [stored EXCEPT ![k] = NoValue] /\ freed' = freed
      /\ stored \in [Keys -> Values \cup {NoValue}]
  BY <1>3 DEF Hash!Del, Table
<1>5. /\ i \in Hash!Indexes /\ c \in Seq(Hash!Nodes)
      /\ Hash!Has(c, k) <=> stored[k] # NoValue
      /\ Hash!Has(c, k) => Hash!Place(c, k) \in 1 .. Len(c) /\ c[Hash!Place(c, k)].key = k
  BY <1>2, <1>3, TableAnswers
<1>6. Table(_cap', stored')
  <2>1. CASE Hash!Has(c, k)
    <3>1. PICK n : n = Hash!Place(c, k)
      OBVIOUS
    <3>2. _cap' = [_cap EXCEPT ![i] = Hash!Without(_cap[i], n)]
      BY <1>2, <2>1, <3>1 DEF Hash!Del
    <3>3. n \in 1 .. Len(_cap[i]) /\ _cap[i][n].key = k
      BY <1>2, <1>5, <2>1, <3>1
    <3> QED BY ONLY <1>3, <1>4, <1>5, <3>2, <3>3, TableCut
  <2>2. CASE ~Hash!Has(c, k)
    <3>1. _cap' = _cap
      BY <1>2, <2>2 DEF Hash!Del
    <3>2. stored' = stored
      BY <1>4, <1>5, <2>2
    <3> QED BY <1>3, <3>1, <3>2
  <2> QED BY <2>1, <2>2
<1>7. NoValue \notin freed
  BY <1>3, HashAssumption
<1>8. ASSUME NEW j \in Keys PROVE stored'[j] \notin freed'
  BY ONLY <1>3, <1>4, <1>7, j \in Keys, k \in Keys
<1> QED BY <1>1, <1>3, <1>4, <1>6, <1>8, HashCall

LEMMA ClearKeeps ==
  ASSUME HashInv, Hash!Clear
  PROVE  HashInv'
<1>1. walk = Hash!Ended /\ UNCHANGED <<walk, answered>> /\ unasked' = {}
  BY DEF Hash!Clear
<1>2. Table(_cap, stored) /\ freed \subseteq Values
  BY DEF HashInv
<1>3. /\ _cap' \in [Hash!Indexes -> Seq(Hash!Nodes)]
      /\ \A i \in Hash!Indexes : Len(_cap'[i]) = 0
  BY DEF Hash!Clear
<1>4. stored' \in [Keys -> Values \cup {NoValue}] /\ \A k \in Keys : stored'[k] = NoValue
  BY DEF Hash!Clear
<1>5. Table(_cap', stored')
  <2>1. ASSUME NEW i \in Hash!Indexes PROVE ChainOfIndex(_cap'[i], i, stored')
    BY <1>3 DEF ChainOfIndex
  <2> QED BY <1>3, <1>4, <2>1 DEF Table, OnceStored
<1>6. ASSUME NEW j \in Hash!Indexes, NEW m \in DOMAIN _cap[j] PROVE _cap[j][m].vl \in Values
  <2>1. _cap[j] \in Seq(Hash!Nodes)
    BY <1>2 DEF Table
  <2>2. m \in 1 .. Len(_cap[j])
    BY <2>1
  <2> QED BY <1>2, <2>2, NodeStored
<1>7. freed' \subseteq Values
  BY <1>2, <1>6 DEF Hash!Clear
<1>8. \A k \in Keys : stored'[k] \notin freed'
  BY <1>4, <1>7, HashAssumption
<1> QED BY <1>1, <1>5, <1>7, <1>8, HashCall

LEMMA DoAllKeeps ==
  ASSUME HashInv, Hash!DoAll
  PROVE  HashInv'
<1>1. /\ walk' = [i |-> 0, n |-> 1] /\ unasked' = Hash!StoredValues
      /\ UNCHANGED <<_cap, stored, answered, freed>>
  BY DEF Hash!DoAll
<1>2. Table(_cap, stored)
  BY DEF HashInv
<1>3. ASSUME NEW j \in Hash!Indexes, NEW m \in 1 .. Len(_cap[j])
      PROVE  _cap[j][m].vl \in Hash!StoredValues /\ Coming(walk', j, m)
  <2>1. /\ _cap[j] \in Seq(Hash!Nodes) /\ _cap[j][m].key \in Keys /\ _cap[j][m].vl # NoValue
        /\ stored[_cap[j][m].key] = _cap[j][m].vl
    BY <1>2, NodeStored
  <2>2. _cap[j][m].vl \in Hash!StoredValues
    BY <2>1 DEF Hash!StoredValues
  <2>3. walk'.i = 0 /\ walk'.n = 1
    BY <1>1
  <2>4. j \in Nat /\ m \in Nat /\ m >= 1
    BY <2>1 DEF Hash!Indexes
  <2>5. Coming(walk', j, m)
    BY ONLY <2>3, <2>4 DEF Coming
  <2> QED BY <2>2, <2>5
<1>4. NodesAsked(_cap', walk', unasked')
  BY <1>1, <1>3 DEF NodesAsked
<1>5. unasked' \subseteq Hash!StoredValues'
  BY <1>1 DEF Hash!StoredValues
<1>6. /\ walk' \in [i : 0 .. STRHASH_CAP_MAX, n : Nat \ {0}] /\ walk'.n = 1
  BY <1>1, HashAssumption
<1> QED BY <1>1, <1>4, <1>5, <1>6 DEF HashInv
\* What a step of the walk has changed when dof was asked about node n of chain i.
DofAsked(i, n, yes) ==
  /\ i \in Hash!Indexes
  /\ Table(_cap', stored')
  /\ freed' \subseteq Values /\ \A k \in Keys : stored'[k] \notin freed'
  /\ answered' = TRUE
  /\ unasked' \subseteq Hash!StoredValues'
  /\ \A j \in Hash!Indexes : j # i => _cap'[j] = _cap[j]
  /\ _cap'[i] = IF yes THEN Hash!Without(_cap[i], n) ELSE _cap[i]
  /\ \A j \in Hash!Indexes : \A m \in 1 .. Len(_cap[j]) :
       _cap[j][m].vl \in unasked' <=> Coming(walk, j, m) /\ ~(j = i /\ m = n)

\* It is about a node that is next in turn.
LEMMA DofKeeps ==
  ASSUME HashInv, walk # Hash!Ended, NEW i, i = walk.i, NEW n \in 1 .. Len(_cap[i]),
         NEW yes \in BOOLEAN, Hash!Dof(n, yes),
         n = 1 \/ n > walk.n
  PROVE  DofAsked(i, n, yes)
<1>1. /\ Table(_cap, stored) /\ NodesAsked(_cap, walk, unasked)
      /\ freed \subseteq Values /\ \A k \in Keys : stored[k] \notin freed
      /\ answered = TRUE /\ unasked \subseteq Hash!StoredValues
      /\ walk \in [i : 0 .. STRHASH_CAP_MAX, n : Nat \ {0}]
      /\ walk.i = STRHASH_CAP_MAX => walk.n = 1
  BY DEF HashInv
<1>2. i \in Hash!Indexes
  <2>1. walk.i # STRHASH_CAP_MAX
    <3>1. SUFFICES ASSUME walk.i = STRHASH_CAP_MAX PROVE FALSE
      OBVIOUS
    <3>2. walk = [i |-> walk.i, n |-> walk.n]
      BY <1>1
    <3> QED BY <1>1, <3>1, <3>2 DEF Hash!Ended
  <2>2. walk.i \in 0 .. STRHASH_CAP_MAX
    BY <1>1
  <2> QED BY <2>1, <2>2, HashAssumption DEF Hash!Indexes
<1>3. PICK x : x = _cap[i][n]
  OBVIOUS
<1>4. x.key \in Keys /\ x.vl \in Values /\ x.vl # NoValue /\ stored[x.key] = x.vl
  BY <1>1, <1>2, <1>3, NodeStored
<1>5. Coming(walk, i, n)
  BY DEF Coming
<1>6. x.vl \in unasked
  BY <1>1, <1>2, <1>3, <1>5 DEF NodesAsked
<1>7. unasked' = unasked \ {x.vl} /\ answered' = TRUE
  <2>1. unasked' = unasked \ {x.vl} /\ answered' = (answered /\ x.vl \in unasked)
    BY <1>3 DEF Hash!Dof
  <2> QED BY <1>1, <1>6, <2>1
<1>8. ASSUME NEW j \in Hash!Indexes, NEW m \in 1 .. Len(_cap[j])
      PROVE  _cap[j][m].vl \in unasked' <=> Coming(walk, j, m) /\ ~(j = i /\ m = n)
  <2>1. _cap[j][m].vl \in unasked <=> Coming(walk, j, m)
    BY <1>1 DEF NodesAsked
  <2>2. _cap[j][m].vl = x.vl => j = i /\ m = n
    BY <1>1, <1>2, <1>3, OneNode
  <2> QED BY <1>3, <1>7, <2>1, <2>2
<1>9. PICK less : less = [stored EXCEPT ![x.key] = NoValue]
  OBVIOUS
<1>10. stored \in [Keys -> Values \cup {NoValue}] /\ OnceStored(stored)
  BY <1>1 DEF Table
<1>11. less = [k \in Keys |-> IF stored[k] = x.vl THEN NoValue ELSE stored[k]]
  <2>1. ASSUME NEW k \in Keys
        PROVE  less[k] = IF stored[k] = x.vl THEN NoValue ELSE stored[k]
    <3>1. stored[k] = x.vl => k = x.key
      BY <1>4, <1>10 DEF OnceStored
    <3> QED BY ONLY <1>4, <1>9, <1>10, <3>1, k \in Keys
  <2>2. less \in [Keys -> Values \cup {NoValue}]
    BY ONLY <1>4, <1>9, <1>10
  <2> QED BY ONLY <2>1, <2>2
<1>12. CASE yes
  <2>1. /\ _cap' = [_cap EXCEPT ![i] = Hash!Without(_cap[i], n)]
        /\ stored' = less /\ freed' = freed \cup {x.vl}
    BY <1>3, <1>11, <1>12 DEF Hash!Dof
  <2>2. Table(_cap', stored')
    BY ONLY <1>1, <1>2, <1>3, <1>9, <2>1, n \in 1 .. Len(_cap[i]), TableCut
  <2>3. ASSUME NEW k \in Keys PROVE stored'[k] \notin freed'
    <3>1. CASE stored[k] = x.vl
      <4>1. stored'[k] = NoValue
        BY ONLY <1>11, <2>1, <3>1, k \in Keys
      <4> QED BY <1>1, <1>4, <2>1, <4>1, HashAssumption
    <3>2. CASE stored[k] # x.vl
      <4>1. stored'[k] = stored[k]
        BY ONLY <1>11, <2>1, <3>2, k \in Keys
      <4> QED BY <1>1, <2>1, <3>2, <4>1
    <3> QED BY <3>1, <3>2
  <2>4. unasked' \subseteq Hash!StoredValues'
    <3>1. ASSUME NEW v \in unasked' PROVE v \in {stored'[k] : k \in Keys} \ {NoValue}
      <4>1. v \in unasked /\ v # x.vl
        BY <1>7
      <4>2. PICK k \in Keys : v = stored[k] /\ v # NoValue
        BY <1>1, <4>1 DEF Hash!StoredValues
      <4>3. stored'[k] = v
        BY ONLY <1>11, <2>1, <4>1, <4>2
      <4> QED BY <4>2, <4>3
    <3> QED BY <3>1 DEF Hash!StoredValues
  <2>5. freed' \subseteq Values
    BY <1>1, <1>4, <2>1
  <2>6. /\ \A j \in Hash!Indexes : j # i => _cap'[j] = _cap[j]
        /\ _cap'[i] = Hash!Without(_cap[i], n)
    BY <1>1, <1>2, <2>1 DEF Table
  <2> QED BY <1>2, <1>7, <1>8, <1>12, <2>2, <2>3, <2>4, <2>5, <2>6 DEF DofAsked
<1>13. CASE ~yes
  <2>1. UNCHANGED <<_cap, stored, freed>>
    BY <1>13 DEF Hash!Dof
  <2>2. unasked' \subseteq Hash!StoredValues'
    BY <1>1, <1>7, <2>1 DEF Hash!StoredValues
  <2> QED BY <1>1, <1>2, <1>7, <1>8, <1>13, <2>1, <2>2 DEF DofAsked
<1> QED BY <1>12, <1>13

LEMMA DoNextKeeps ==
  ASSUME HashInv, Hash!DoNext
  PROVE  HashInv'
<1>1. PICK yes \in BOOLEAN : /\ Hash!Dof(walk.n + 1, yes)
                             /\ walk' = [walk EXCEPT !.n = Hash!After(walk.n, yes)]
  BY DEF Hash!DoNext
<1>2. /\ walk # Hash!Ended /\ walk.n < Len(_cap[walk.i])
      /\ walk \in [i : 0 .. STRHASH_CAP_MAX, n : Nat \ {0}]
  BY DEF Hash!DoNext, HashInv
<1>3. PICK i, p : i = walk.i /\ p = walk.n
  OBVIOUS
<1>4. PICK n : n = p + 1
  OBVIOUS
<1>5. p \in Nat /\ p >= 1 /\ p < Len(_cap[i]) /\ i \in 0 .. STRHASH_CAP_MAX
  BY <1>2, <1>3
<1>6. i \in Hash!Indexes
  <2>1. i # STRHASH_CAP_MAX
    <3>1. SUFFICES ASSUME i = STRHASH_CAP_MAX PROVE FALSE
      OBVIOUS
    <3>2. walk = [i |-> walk.i, n |-> walk.n] /\ walk.n = 1
      BY <1>2, <1>3, <3>1 DEF HashInv
    <3> QED BY <1>2, <1>3, <3>1, <3>2 DEF Hash!Ended
  <2> QED BY <1>5, <2>1, HashAssumption DEF Hash!Indexes
<1>7. _cap[i] \in Seq(Hash!Nodes)
  BY <1>6 DEF HashInv, Table
<1>8. n \in 1 .. Len(_cap[i]) /\ n > p /\ n # 1
  <2>1. Len(_cap[i]) \in Nat
    BY <1>7
  <2> QED BY ONLY <1>4, <1>5, <2>1
<1>9. Hash!Dof(n, yes) /\ (n = 1 \/ n > walk.n)
  BY <1>1, <1>3, <1>4, <1>8
<1>10. /\ Table(_cap', stored')
       /\ freed' \subseteq Values /\ \A k \in Keys : stored'[k] \notin freed'
       /\ answered' = TRUE
       /\ unasked' \subseteq Hash!StoredValues'
       /\ \A j \in Hash!Indexes : j # i => _cap'[j] = _cap[j]
       /\ _cap'[i] = IF yes THEN Hash!Without(_cap[i], n) ELSE _cap[i]
       /\ \A j \in Hash!Indexes : \A m \in 1 .. Len(_cap[j]) :
            _cap[j][m].vl \in unasked' <=> Coming(walk, j, m) /\ ~(j = i /\ m = n)
  <2>1. Hash!Dof(n, yes) /\ (n = 1 \/ n > walk.n) /\ i = walk.i /\ n \in 1 .. Len(_cap[i])
    BY <1>3, <1>8, <1>9
  <2>2. DofAsked(i, n, yes)
    BY ONLY HashInv, <1>2, <2>1, yes \in BOOLEAN, DofKeeps
  <2> QED BY <2>2 DEF DofAsked
<1>11. /\ walk' \in [i : 0 .. STRHASH_CAP_MAX, n : Nat \ {0}]
       /\ walk'.i = i /\ walk'.n = IF yes THEN p ELSE n
  <2>1. walk' = [walk EXCEPT !.n = IF yes THEN p ELSE n]
    BY <1>1, <1>3, <1>4 DEF Hash!After
  <2>2. p \in Nat \ {0} /\ n \in Nat \ {0}
    BY <1>4, <1>5
  <2> QED BY ONLY <1>2, <1>3, <2>1, <2>2
<1>12. ASSUME NEW j \in Hash!Indexes, NEW m \in 1 .. Len(_cap'[j])
       PROVE  _cap'[j][m].vl \in unasked' <=> Coming(walk', j, m)
  <2>0. m \in Nat /\ j \in Nat /\ i \in Nat /\ n \in Nat
    <3>1. _cap'[j] \in Seq(Hash!Nodes)
      BY <1>10 DEF Table
    <3>2. Len(_cap'[j]) \in Nat
      BY <3>1
    <3>3. m \in Nat
      BY ONLY <3>2, m \in 1 .. Len(_cap'[j])
    <3> QED BY <3>3, <1>4, <1>5, <1>6 DEF Hash!Indexes
  <2>1. CASE j # i
    <3>1. _cap'[j] = _cap[j]
      BY <1>10, <2>1
    <3>2. _cap'[j][m].vl \in unasked' <=> Coming(walk, j, m)
      BY <1>10, <2>1, <3>1
    <3>3. Coming(walk, j, m) <=> Coming(walk', j, m)
      BY ONLY <1>3, <1>11, <2>1 DEF Coming
    <3> QED BY <3>2, <3>3
  <2>2. CASE j = i /\ ~yes
    <3>1. _cap'[j] = _cap[i]
      BY <1>10, <2>2
    <3>2. _cap'[j][m].vl \in unasked' <=> Coming(walk, i, m) /\ m # n
      BY <1>6, <1>10, <2>2, <3>1
    <3>3. Coming(walk, i, m) <=> m > p \/ m = 1
      BY ONLY <1>3, <1>5, <2>0 DEF Coming
    <3>4. Coming(walk', j, m) <=> m > n \/ m = 1
      BY ONLY <1>11, <2>0, <2>2 DEF Coming
    <3>5. (m > p \/ m = 1) /\ m # n <=> m > n \/ m = 1
      BY ONLY <1>4, <1>5, <2>0
    <3> QED BY <3>2, <3>3, <3>4, <3>5
  <2>3. CASE j = i /\ yes
    <3>1. _cap'[j] = Hash!Without(_cap[i], n)
      BY <1>10, <2>3
    <3>2. PICK l \in 1 .. Len(_cap[i]) : l # n /\ _cap'[j][m] = _cap[i][l] /\ m = PlaceAfter(l, n)
      BY ONLY <1>7, <1>8, <3>1, m \in 1 .. Len(_cap'[j]), NodesKept
    <3>3. _cap'[j][m].vl \in unasked' <=> Coming(walk, i, l)
      BY <1>6, <1>10, <3>2
    <3>4. l \in Nat
      <4>1. Len(_cap[i]) \in Nat
        BY <1>7
      <4> QED BY <4>1
    <3>5. Coming(walk, i, l) <=> l > p \/ l = 1
      BY ONLY <1>3, <1>5, <2>0, <3>4 DEF Coming
    <3>6. Coming(walk', j, m) <=> m > p \/ m = 1
      BY ONLY <1>11, <2>0, <2>3 DEF Coming
    <3>7. (l > p \/ l = 1) <=> (m > p \/ m = 1)
      BY ONLY <1>4, <1>5, <2>0, <3>2, <3>4 DEF PlaceAfter
    <3> QED BY <3>3, <3>5, <3>6, <3>7
  <2> QED BY <2>1, <2>2, <2>3
<1>13. NodesAsked(_cap', walk', unasked')
  BY ONLY <1>12 DEF NodesAsked
<1>14. walk'.i # STRHASH_CAP_MAX
  BY <1>6, <1>11, HashAssumption DEF Hash!Indexes
<1> QED BY ONLY <1>10, <1>11, <1>13, <1>14 DEF HashInv

\* The walk comes to the next index when the nodes of this one have been asked about.
LEMMA IndexDone ==
  ASSUME HashInv, walk # Hash!Ended, Hash!NextIndex, NEW i, i = walk.i,
         Table(_cap', stored'),
         freed' \subseteq Values, \A k \in Keys : stored'[k] \notin freed',
         answered' = TRUE, unasked' \subseteq Hash!StoredValues',
         \A j \in Hash!Indexes : j # i => _cap'[j] = _cap[j],
         \A m \in 1 .. Len(_cap'[i]) : _cap'[i][m].vl \notin unasked',
         \A j \in Hash!Indexes : j # i => \A m \in 1 .. Len(_cap[j]) :
           _cap[j][m].vl \in unasked' <=> Coming(walk, j, m)
  PROVE  HashInv'
<1>1. walk' = [i |-> i + 1, n |-> 1]
  BY DEF Hash!NextIndex
<1>2. walk \in [i : 0 .. STRHASH_CAP_MAX, n : Nat \ {0}]
  BY DEF HashInv
<1>3. i \in 0 .. STRHASH_CAP_MAX - 1
  <2>1. i # STRHASH_CAP_MAX
    <3>1. SUFFICES ASSUME i = STRHASH_CAP_MAX PROVE FALSE
      OBVIOUS
    <3>2. walk = [i |-> walk.i, n |-> walk.n] /\ walk.n = 1
      BY <1>2, <3>1 DEF HashInv
    <3> QED BY <3>1, <3>2 DEF Hash!Ended
  <2> QED BY <1>2, <2>1, HashAssumption
<1>4. /\ walk' \in [i : 0 .. STRHASH_CAP_MAX, n : Nat \ {0}] /\ walk'.n = 1
      /\ walk'.i = i + 1
  BY <1>1, <1>3, HashAssumption
<1>5. ASSUME NEW j \in Hash!Indexes, NEW m \in 1 .. Len(_cap'[j])
      PROVE  _cap'[j][m].vl \in unasked' <=> Coming(walk', j, m)
  <2>1. _cap'[j] \in Seq(Hash!Nodes)
    BY DEF Table
  <2>2. m \in Nat /\ m >= 1 /\ j \in Nat
    BY <2>1 DEF Hash!Indexes
  <2>3. Coming(walk', j, m) <=> j > i
    BY ONLY <1>3, <1>4, <2>2 DEF Coming
  <2>4. CASE j = i
    BY <1>3, <2>3, <2>4
  <2>5. CASE j # i
    <3>1. _cap'[j][m].vl \in unasked' <=> Coming(walk, j, m)
      BY <2>5
    <3>2. Coming(walk, j, m) <=> j > i
      BY ONLY <1>3, <2>2, <2>5, i = walk.i DEF Coming
    <3> QED BY <2>3, <3>1, <3>2
  <2> QED BY <2>4, <2>5
<1> QED BY <1>4, <1>5 DEF HashInv, NodesAsked

LEMMA DoFirstKeeps ==
  ASSUME HashInv, Hash!DoFirst
  PROVE  HashInv'
<1>1. PICK yes \in BOOLEAN : Hash!Dof(1, yes)
  BY DEF Hash!DoFirst
<1>2. /\ walk # Hash!Ended /\ _cap[walk.i] # <<>> /\ walk.n >= Len(_cap[walk.i])
      /\ walk \in [i : 0 .. STRHASH_CAP_MAX, n : Nat \ {0}] /\ Hash!NextIndex
  BY DEF Hash!DoFirst, HashInv
<1>3. PICK i, p : i = walk.i /\ p = walk.n
  OBVIOUS
<1>4. i \in Hash!Indexes
  <2>1. i # STRHASH_CAP_MAX
    <3>1. SUFFICES ASSUME i = STRHASH_CAP_MAX PROVE FALSE
      OBVIOUS
    <3>2. walk = [i |-> walk.i, n |-> walk.n] /\ walk.n = 1
      BY <1>2, <1>3, <3>1 DEF HashInv
    <3> QED BY <1>2, <1>3, <3>1, <3>2 DEF Hash!Ended
  <2> QED BY <1>2, <1>3, <2>1, HashAssumption DEF Hash!Indexes
<1>5. _cap[i] \in Seq(Hash!Nodes) /\ Len(_cap[i]) \in Nat /\ Len(_cap[i]) # 0
  BY <1>2, <1>3, <1>4 DEF HashInv, Table
<1>6. 1 \in 1 .. Len(_cap[i])
  BY ONLY <1>5
<1>7. /\ Table(_cap', stored')
      /\ freed' \subseteq Values /\ \A k \in Keys : stored'[k] \notin freed'
      /\ answered' = TRUE
      /\ unasked' \subseteq Hash!StoredValues'
      /\ \A j \in Hash!Indexes : j # i => _cap'[j] = _cap[j]
      /\ _cap'[i] = IF yes THEN Hash!Without(_cap[i], 1) ELSE _cap[i]
      /\ \A j \in Hash!Indexes : \A m \in 1 .. Len(_cap[j]) :
           _cap[j][m].vl \in unasked' <=> Coming(walk, j, m) /\ ~(j = i /\ m = 1)
  <2>1. Hash!Dof(1, yes) /\ (1 = 1 \/ 1 > walk.n) /\ i = walk.i /\ 1 \in 1 .. Len(_cap[i])
    BY <1>1, <1>3, <1>6
  <2>2. DofAsked(i, 1, yes)
    BY ONLY HashInv, <1>2, <2>1, yes \in BOOLEAN, DofKeeps
  <2> QED BY <2>2 DEF DofAsked
<1>8. \A m \in 1 .. Len(_cap[i]) : _cap[i][m].vl \notin unasked'
  <2> SUFFICES ASSUME NEW m \in 1 .. Len(_cap[i]) PROVE ~(Coming(walk, i, m) /\ m # 1)
    BY <1>4, <1>7
  <2>1. p \in Nat /\ p >= Len(_cap[i]) /\ m \in Nat /\ m <= Len(_cap[i])
    BY <1>2, <1>3, <1>5
  <2>2. i \in Nat
    BY <1>4 DEF Hash!Indexes
  <2> QED BY ONLY <1>3, <1>5, <2>1, <2>2 DEF Coming
<1>9. \A m \in 1 .. Len(_cap'[i]) : _cap'[i][m].vl \notin unasked'
  <2>1. CASE yes
    <3>1. _cap'[i] = Hash!Without(_cap[i], 1)
      BY <1>7, <2>1
    <3>2. \A m \in 1 .. Len(_cap'[i]) : \E l \in 1 .. Len(_cap[i]) : _cap'[i][m] = _cap[i][l]
      BY ONLY <1>5, <1>6, <3>1, NodesKept
    <3> QED BY ONLY <1>8, <3>2
  <2>2. CASE ~yes
    BY <1>7, <1>8, <2>2
  <2> QED BY <2>1, <2>2
<1> QED BY <1>2, <1>3, <1>7, <1>9, IndexDone

LEMMA SkipKeeps ==
  ASSUME HashInv, Hash!SkipEmpty
  PROVE  HashInv'
<1>1. /\ walk # Hash!Ended /\ _cap[walk.i] = <<>> /\ Hash!NextIndex
      /\ UNCHANGED <<_cap, stored, unasked, answered, freed>>
  BY DEF Hash!SkipEmpty
<1>2. PICK i : i = walk.i
  OBVIOUS
<1>3. /\ Table(_cap, stored) /\ NodesAsked(_cap, walk, unasked)
      /\ freed \subseteq Values /\ \A k \in Keys : stored[k] \notin freed
      /\ answered = TRUE /\ unasked \subseteq Hash!StoredValues
  BY DEF HashInv
<1>4. unasked' \subseteq Hash!StoredValues'
  BY <1>1, <1>3 DEF Hash!StoredValues
<1>5. Len(_cap'[i]) = 0
  BY <1>1, <1>2
<1>6. \A j \in Hash!Indexes : j # i => \A m \in 1 .. Len(_cap[j]) :
        _cap[j][m].vl \in unasked' <=> Coming(walk, j, m)
  BY <1>1, <1>3 DEF NodesAsked
<1> QED BY <1>1, <1>2, <1>3, <1>4, <1>5, <1>6, IndexDone

LEMMA HashStep == ASSUME HashInv, Hash!HashNext PROVE HashInv'
<1>1. ASSUME NEW k \in Keys, NEW v \in Values, Hash!Set(k, v) PROVE HashInv'
  BY <1>1, SetKeeps
<1>2. ASSUME NEW k \in Keys, Hash!Del(k) PROVE HashInv'
  BY <1>2, DelKeeps
<1>3. ASSUME NEW k \in Keys, Hash!Ask(k) PROVE HashInv'
  <2>1. walk = Hash!Ended /\ UNCHANGED <<walk, answered>> /\ unasked' = {}
    BY <1>3, HashAsked DEF Hash!Ask
  <2>2. UNCHANGED <<_cap, stored, freed>>
    BY <1>3 DEF Hash!Ask
  <2> QED BY <2>1, <2>2, HashCall DEF HashInv
<1> QED BY <1>1, <1>2, <1>3, DoAllKeeps, DoNextKeeps, DoFirstKeeps, SkipKeeps, ClearKeeps
        DEF Hash!HashNext

LEMMA HashStutters == ASSUME HashInv, UNCHANGED hashVars PROVE HashInv'
BY DEF HashInv, hashVars, Hash!StoredValues

LEMMA HashRight == ASSUME HashInv PROVE Hash!HashIsMap
<1>1. \A k \in Keys : Hash!Get(k) = stored[k]
  BY HashAnswers
<1>2. walk = Hash!Ended => unasked = {}
  BY HashQuiet
<1>3. ASSUME NEW i \in Hash!Indexes, NEW n \in DOMAIN _cap[i]
      PROVE  _cap[i][n].vl \notin freed
  <2>1. _cap[i] \in Seq(Hash!Nodes) /\ Table(_cap, stored)
    BY DEF HashInv, Table
  <2>2. n \in 1 .. Len(_cap[i])
    BY <2>1
  <2> QED BY <2>1, <2>2, NodeStored DEF HashInv
<1> QED BY <1>1, <1>2, <1>3 DEF HashInv, Hash!HashIsMap
-----------------------------------------------------------------------------
(***************************************************************************)
(* The handlers of antlib and their threads.                               *)
(***************************************************************************)
HandlersIn(g) == Range(HandlersOf[g])

\* Message n is in a queue.
Waits(q, n) == \E h \in Lib!Handlers : \E i \in DOMAIN q[h] : q[h][i] = n

\* Each of the m messages has one place: it is in a queue, has been handled, or freed.
MsgsPlaced(q, m, calls, gone) ==
  /\ q \in [Lib!Handlers -> Seq(Lib!Msgs)] /\ m \in 0 .. MaxHandlerMsgs
  /\ calls \in [Lib!Msgs -> 0 .. 1] /\ gone \subseteq Lib!Msgs
  /\ \A g, h \in Lib!Handlers : \A i \in DOMAIN q[g], j \in DOMAIN q[h] :
       q[g][i] = q[h][j] => g = h /\ i = j
  /\ \A n \in Lib!Msgs : n <= m <=> Waits(q, n) \/ calls[n] = 1 \/ n \in gone
  /\ \A n \in Lib!Msgs : Waits(q, n) => calls[n] = 0 /\ n \notin gone
  /\ \A n \in gone : calls[n] = 0

ThreadStates == {"unborn", "loop", "try", "handle", "end"}
LibThreads   == [at : ThreadStates, handler : Lib!Handlers \cup {Lib!None}, batch : Int, tries : Int]
ListEntries  == [group : Lib!Groups, handler : Lib!Handlers \cup {Lib!None}]

\* The threads of a group share its handlers, or have one each that no other has.
ThreadsMade(list) ==
  /\ list \in Seq(ListEntries)
  /\ \A k \in 1 .. Len(list) :
       list[k].handler # Lib!None => list[k].handler \in HandlersIn(list[k].group)
  /\ \A k, l \in 1 .. Len(list) :
       /\ list[k].group = list[l].group => (list[k].handler = Lib!None <=> list[l].handler = Lib!None)
       /\ list[k].handler = list[l].handler /\ list[k].handler # Lib!None => k = l

\* A thread in a handler is in one of its own, no other thread is in it, and
\* those that share it have locked it.
InHandlers(ts, list, q, locks) ==
  /\ \A k \in 1 .. Len(list) : ts[k].at = "handle" =>
       /\ ts[k].handler \in HandlersIn(list[k].group)
       /\ list[k].handler # Lib!None => ts[k].handler = list[k].handler
       /\ ts[k].batch <= Len(q[ts[k].handler])
  /\ \A k, l \in 1 .. Len(list) :
       ts[k].at = "handle" /\ ts[l].at = "handle" /\ ts[k].handler = ts[l].handler => k = l
  /\ locks \subseteq Lib!Handlers
  /\ \A h \in Lib!Handlers :
       h \in locks <=> \E k \in 1 .. Len(list) :
         ts[k].at = "handle" /\ list[k].handler = Lib!None /\ ts[k].handler = h

MainStates == {"create", "start", "loop", "stop", "join", "uninit", "handlers", "end"}

\* What main has done with the threads of before the k-th, and with the handlers.
MainComes(m, ts, list, running, q, state) ==
  /\ m.at \in MainStates /\ m.k \in Int
  /\ m.at = "create" => m.k \in Lib!Groups /\ \A k \in 1 .. Len(list) : list[k].group > m.k
  /\ m.at # "create" => Len(list) > 0
  /\ m.at \in {"start", "stop", "join"} => m.k \in 1 .. Len(list)
  /\ m.at = "create" => \A k \in 1 .. Len(list) : ts[k].at = "unborn"
  /\ m.at = "start" => \A k \in m.k .. Len(list) : ts[k].at = "unborn"
  /\ m.at = "stop" => \A k \in 1 .. m.k - 1 : k \notin running
  /\ m.at \in {"join", "uninit", "handlers", "end"} => running = {}
  /\ m.at = "join" => \A k \in 1 .. m.k - 1 : ts[k].at = "end"
  /\ m.at \in {"uninit", "handlers", "end"} => \A k \in 1 .. Len(list) : ts[k].at = "end"
  /\ m.at = "handlers" => m.k \in Lib!Handlers /\ \A h \in Lib!Handlers : h < m.k => q[h] = <<>>
  /\ m.at = "end" => \A h \in Lib!Handlers : q[h] = <<>>
  /\ state = IF m.at \in {"create", "start", "loop"} THEN 2 ELSE 3

LibTypes ==
  /\ thread \in Seq(LibThreads) /\ Len(thread) = Len(_threadlist)
  /\ _threads_num \in [Lib!Groups -> Nat \ {0}]
  /\ _index \in [Lib!Groups -> Nat] /\ \A g \in Lib!Groups : _index[g] < Len(HandlersOf[g])
  /\ _running \subseteq 1 .. Len(_threadlist)
  /\ \A k \in 1 .. Len(_threadlist) : thread[k].at = "try" => _threadlist[k].handler = Lib!None

Died(a, m) == /\ a \in {"no", "assertion", "threads"}
              /\ a = "assertion" => m.at \in {"stop", "join"}
              /\ a = "threads" => m.at = "uninit"

LibInv ==
  /\ LibTypes
  /\ MsgsPlaced(handlerQueue, handlerMsgs, handled, freedMsgs)
  /\ ThreadsMade(_threadlist)
  /\ InHandlers(thread, _threadlist, handlerQueue, handlerLocks)
  /\ MainComes(main, thread, _threadlist, _running, handlerQueue, _state)
  /\ Died(aborted, main)

-----------------------------------------------------------------------------
LEMMA Registered ==
  /\ Lib!Groups = 1 .. Len(HandlersOf) /\ Len(HandlersOf) \in Nat \ {0}
  /\ \A g \in Lib!Groups : /\ HandlersOf[g] \in Seq(Nat \ {0}) /\ Len(HandlersOf[g]) \in Nat \ {0}
                           /\ \A i \in 1 .. Len(HandlersOf[g]) : HandlersOf[g][i] \in HandlersIn(g)
                           /\ HandlersIn(g) \subseteq Lib!Handlers
  /\ \A g, h \in Lib!Groups : HandlersIn(g) \cap HandlersIn(h) # {} => g = h
  /\ Lib!Handlers \subseteq Nat \ {0} /\ 1 \in Lib!Handlers
  /\ \A h \in Lib!Handlers : 1 .. h \subseteq Lib!Handlers
  /\ Lib!None = 0 /\ Lib!None \notin Lib!Handlers
<1>1. /\ HandlersOf \in Seq(Seq(Nat \ {0})) /\ HandlersOf # <<>>
      /\ \A g \in DOMAIN HandlersOf : HandlersOf[g] # <<>>
  BY LibAssumption
<1>2. DOMAIN HandlersOf = 1 .. Len(HandlersOf) /\ Len(HandlersOf) \in Nat /\ Len(HandlersOf) # 0
  BY <1>1
<1>3. Lib!Groups = 1 .. Len(HandlersOf) /\ Len(HandlersOf) \in Nat \ {0}
  BY <1>2 DEF Lib!Groups
<1>4. Lib!Handlers = UNION {Lib!Range(HandlersOf[g]) : g \in Lib!Groups}
  BY DEF Lib!Handlers
<1>5. \A s : Lib!Range(s) = Range(s)
  BY DEF Lib!Range, Range
<1>6. Lib!Handlers = UNION {Range(HandlersOf[g]) : g \in Lib!Groups}
  BY <1>4, <1>5
<1>7. ASSUME NEW g \in Lib!Groups
      PROVE  /\ HandlersOf[g] \in Seq(Nat \ {0}) /\ Len(HandlersOf[g]) \in Nat \ {0}
             /\ \A i \in 1 .. Len(HandlersOf[g]) : HandlersOf[g][i] \in HandlersIn(g)
             /\ HandlersIn(g) \subseteq Lib!Handlers
  <2>1. HandlersOf[g] \in Seq(Nat \ {0}) /\ HandlersOf[g] # <<>>
    <3>1. PICK S, hs : S = Seq(Nat \ {0}) /\ hs = HandlersOf
      OBVIOUS
    <3>2. hs \in Seq(S) /\ g \in 1 .. Len(hs)
      BY <1>1, <1>3, <3>1
    <3>3. hs[g] \in S
      BY ONLY <3>2
    <3> QED BY <1>1, <1>2, <1>3, <3>1, <3>3
  <2>2. PICK s : s = HandlersOf[g]
    OBVIOUS
  <2>3. DOMAIN s = 1 .. Len(s) /\ Len(s) \in Nat \ {0}
    BY ONLY <2>1, <2>2
  <2> QED BY <1>6, <2>1, <2>2, <2>3 DEF HandlersIn, Range
<1>8. ASSUME NEW g \in Lib!Groups, NEW h \in Lib!Groups, HandlersIn(g) \cap HandlersIn(h) # {}
      PROVE  g = h
  <2>1. PICK e : e \in HandlersIn(g) /\ e \in HandlersIn(h)
    BY <1>8
  <2>2. PICK i \in DOMAIN HandlersOf[g] : e = HandlersOf[g][i]
    BY <2>1 DEF HandlersIn, Range
  <2>3. PICK j \in DOMAIN HandlersOf[h] : e = HandlersOf[h][j]
    BY <2>1 DEF HandlersIn, Range
  <2>4. g \in DOMAIN HandlersOf /\ h \in DOMAIN HandlersOf
    BY <1>2, <1>3
  <2> QED BY <2>2, <2>3, <2>4, LibAssumption
<1>9. Lib!Handlers \subseteq Nat \ {0}
  <2>1. ASSUME NEW g \in Lib!Groups, NEW e \in HandlersIn(g) PROVE e \in Nat \ {0}
    <3>1. PICK s : s = HandlersOf[g] /\ s \in Seq(Nat \ {0})
      BY <1>7
    <3>2. \A i \in DOMAIN s : s[i] \in Nat \ {0}
      BY ONLY <3>1
    <3> QED BY <2>1, <3>1, <3>2 DEF HandlersIn, Range
  <2> QED BY <1>6, <2>1 DEF HandlersIn
<1>10. \A h \in Lib!Handlers : 1 .. h \subseteq Lib!Handlers
  BY LibAssumption
<1>11. HandlersOf[1][1] \in Lib!Handlers
  BY <1>3, <1>7
<1>12. 1 \in Lib!Handlers
  <2>1. PICK h \in Lib!Handlers : h \in Nat \ {0} /\ 1 .. h \subseteq Lib!Handlers
    BY <1>9, <1>10, <1>11
  <2>2. 1 \in 1 .. h
    BY ONLY <2>1
  <2> QED BY <2>1, <2>2
<1> QED BY <1>3, <1>7, <1>8, <1>9, <1>10, <1>12 DEF Lib!None
-----------------------------------------------------------------------------
\* The messages of one queue.
LEMMA QueueGrows ==
  ASSUME NEW s \in Seq(Lib!Msgs), NEW n \in Lib!Msgs, NEW r, r = Append(s, n)
  PROVE  /\ r \in Seq(Lib!Msgs) /\ Len(r) = Len(s) + 1 /\ DOMAIN r = 1 .. Len(r)
         /\ DOMAIN s = 1 .. Len(s) /\ r[Len(r)] = n /\ Len(s) \in Nat
         /\ \A i \in DOMAIN r : i # Len(r) => i \in DOMAIN s /\ r[i] = s[i]
         /\ \A i \in DOMAIN s : i \in DOMAIN r /\ r[i] = s[i]
OBVIOUS

LEMMA QueueShrinks ==
  ASSUME NEW s \in Seq(Lib!Msgs), s # <<>>, NEW r, r = Tail(s)
  PROVE  /\ r \in Seq(Lib!Msgs) /\ Len(r) = Len(s) - 1 /\ DOMAIN r = 1 .. Len(r)
         /\ DOMAIN s = 1 .. Len(s) /\ Head(s) = s[1] /\ 1 \in DOMAIN s /\ Head(s) \in Lib!Msgs
         /\ \A i \in DOMAIN r : i + 1 \in DOMAIN s /\ r[i] = s[i + 1] /\ i + 1 # 1
         /\ \A i \in DOMAIN s : i # 1 => i - 1 \in DOMAIN r /\ r[i - 1] = s[i]
         /\ \A i, j \in DOMAIN r : i + 1 = j + 1 => i = j
<1>1. PICK M : M = Lib!Msgs
  OBVIOUS
<1>2. s \in Seq(M) /\ Len(s) \in Nat /\ Len(s) # 0 /\ DOMAIN s = 1 .. Len(s)
  BY <1>1
<1>3. /\ r \in Seq(M) /\ Len(r) = Len(s) - 1 /\ DOMAIN r = 1 .. Len(r) /\ Head(s) = s[1]
      /\ \A i \in 1 .. Len(s) - 1 : r[i] = s[i + 1]
  BY ONLY <1>2, s # <<>>, r = Tail(s)
<1>4. Head(s) \in M /\ 1 \in DOMAIN s
  BY ONLY <1>2, <1>3
<1>5. ASSUME NEW i \in DOMAIN r
      PROVE  i + 1 \in DOMAIN s /\ r[i] = s[i + 1] /\ i + 1 # 1 /\ i \in Int
  BY ONLY <1>2, <1>3, i \in DOMAIN r
<1>6. ASSUME NEW i \in DOMAIN s, i # 1 PROVE i - 1 \in DOMAIN r /\ r[i - 1] = s[i]
  <2>1. i - 1 \in 1 .. Len(s) - 1 /\ (i - 1) + 1 = i
    BY ONLY <1>2, <1>6
  <2>2. r[i - 1] = s[(i - 1) + 1]
    BY ONLY <1>3, <2>1
  <2> QED BY ONLY <1>3, <2>1, <2>2
<1>7. ASSUME NEW i \in DOMAIN r, NEW j \in DOMAIN r, i + 1 = j + 1 PROVE i = j
  BY ONLY <1>5, <1>7
<1> QED BY ONLY <1>1, <1>2, <1>3, <1>4, <1>5, <1>6, <1>7

\* A message that is sent gets the next number.
LEMMA SendPlaces ==
  ASSUME NEW q, NEW m, NEW calls, NEW gone, MsgsPlaced(q, m, calls, gone),
         m < MaxHandlerMsgs, NEW h \in Lib!Handlers, NEW n, n = m + 1,
         NEW p, p = [q EXCEPT ![h] = Append(q[h], n)]
  PROVE  /\ MsgsPlaced(p, n, calls, gone)
         /\ \A g \in Lib!Handlers : Len(p[g]) >= Len(q[g])
<1>1. /\ q \in [Lib!Handlers -> Seq(Lib!Msgs)] /\ m \in 0 .. MaxHandlerMsgs
      /\ calls \in [Lib!Msgs -> 0 .. 1] /\ gone \subseteq Lib!Msgs
      /\ \A f, g \in Lib!Handlers : \A i \in DOMAIN q[f], j \in DOMAIN q[g] :
           q[f][i] = q[g][j] => f = g /\ i = j
      /\ \A o \in Lib!Msgs : o <= m <=> Waits(q, o) \/ calls[o] = 1 \/ o \in gone
      /\ \A o \in Lib!Msgs : Waits(q, o) => calls[o] = 0 /\ o \notin gone
      /\ \A o \in gone : calls[o] = 0
  BY DEF MsgsPlaced
<1>2. n \in Lib!Msgs /\ n \in 0 .. MaxHandlerMsgs /\ m \in Int /\ n \in Int /\ n > m
  BY <1>1, LibAssumption DEF Lib!Msgs
<1>3. \A o \in Lib!Msgs : o \in Int
  BY LibAssumption DEF Lib!Msgs
<1>4. PICK s, r : s = q[h] /\ r = Append(s, n)
  OBVIOUS
<1>5. s \in Seq(Lib!Msgs)
  BY <1>1, <1>4
<1>6. /\ r \in Seq(Lib!Msgs) /\ Len(r) = Len(s) + 1 /\ DOMAIN r = 1 .. Len(r)
      /\ DOMAIN s = 1 .. Len(s) /\ r[Len(r)] = n /\ Len(s) \in Nat
      /\ \A i \in DOMAIN r : i # Len(r) => i \in DOMAIN s /\ r[i] = s[i]
      /\ \A i \in DOMAIN s : i \in DOMAIN r /\ r[i] = s[i]
  BY <1>2, <1>4, <1>5, QueueGrows
<1>7. /\ p \in [Lib!Handlers -> Seq(Lib!Msgs)] /\ p[h] = r
      /\ \A g \in Lib!Handlers : g # h => p[g] = q[g]
  <2>1. p = [q EXCEPT ![h] = r]
    BY <1>4
  <2> QED BY ONLY <1>1, <1>6, <2>1, h \in Lib!Handlers
\* What is in a queue was in it, or is the new message.
<1>8. ASSUME NEW g \in Lib!Handlers, NEW i \in DOMAIN p[g]
      PROVE  \/ g = h /\ i = Len(r) /\ p[g][i] = n
             \/ i \in DOMAIN q[g] /\ p[g][i] = q[g][i] /\ ~(g = h /\ i = Len(r))
  <2>1. CASE g = h
    <3>1. p[g] = r /\ s = q[g]
      BY <1>4, <1>7, <2>1
    <3>2. i \in DOMAIN r
      BY <3>1
    <3>3. i = Len(r) \/ (i # Len(r) /\ i \in DOMAIN s /\ r[i] = s[i])
      BY ONLY <1>6, <3>2
    <3> QED BY <1>6, <2>1, <3>1, <3>3
  <2>2. CASE g # h
    BY <1>7, <2>2
  <2> QED BY <2>1, <2>2
<1>9. ASSUME NEW g \in Lib!Handlers, NEW i \in DOMAIN q[g]
      PROVE  i \in DOMAIN p[g] /\ p[g][i] = q[g][i] /\ q[g][i] \in Lib!Msgs
  <2>1. q[g] \in Seq(Lib!Msgs)
    BY <1>1
  <2>2. q[g][i] \in Lib!Msgs
    BY <2>1
  <2>3. CASE g = h
    BY <1>4, <1>6, <1>7, <2>2, <2>3
  <2>4. CASE g # h
    BY <1>7, <2>2, <2>4
  <2> QED BY <2>3, <2>4
<1>10. ~Waits(q, n)
  BY <1>1, <1>2
<1>11. ASSUME NEW o PROVE Waits(p, o) <=> Waits(q, o) \/ o = n
  <2>1. ASSUME Waits(p, o) PROVE Waits(q, o) \/ o = n
    BY <1>8, <2>1 DEF Waits
  <2>2. ASSUME Waits(q, o) PROVE Waits(p, o)
    BY <1>9, <2>2 DEF Waits
  <2>3. Waits(p, n)
    <3>1. Len(r) \in DOMAIN r
      BY ONLY <1>6
    <3> QED BY <1>6, <1>7, <3>1 DEF Waits
  <2> QED BY <2>1, <2>2, <2>3
<1>12. ASSUME NEW f \in Lib!Handlers, NEW g \in Lib!Handlers, NEW i \in DOMAIN p[f], NEW j \in DOMAIN p[g],
              p[f][i] = p[g][j]
       PROVE  f = g /\ i = j
  <2>1. ASSUME NEW e \in Lib!Handlers, NEW k \in DOMAIN q[e] PROVE q[e][k] # n
    BY <1>10 DEF Waits
  <2> QED BY <1>1, <1>8, <1>12, <2>1
<1>13. ASSUME NEW o \in Lib!Msgs
       PROVE  o <= n <=> Waits(p, o) \/ calls[o] = 1 \/ o \in gone
  <2>1. o <= n <=> o <= m \/ o = n
    BY <1>2, <1>3
  <2> QED BY <1>1, <1>11, <2>1
<1>14. ASSUME NEW o \in Lib!Msgs, Waits(p, o) PROVE calls[o] = 0 /\ o \notin gone
  <2>1. CASE o = n
    <3>1. ~(calls[n] = 1) /\ n \notin gone /\ calls[n] \in 0 .. 1
      BY <1>1, <1>2
    <3> QED BY <2>1, <3>1
  <2>2. CASE o # n
    BY <1>1, <1>11, <1>14, <2>2
  <2> QED BY <2>1, <2>2
<1>15. ASSUME NEW g \in Lib!Handlers PROVE Len(p[g]) >= Len(q[g])
  <2>1. CASE g = h
    <3>1. Len(p[g]) = Len(r) /\ Len(q[g]) = Len(s)
      BY <1>4, <1>7, <2>1
    <3> QED BY <1>6, <3>1
  <2>2. CASE g # h
    <3>1. p[g] = q[g] /\ q[g] \in Seq(Lib!Msgs)
      BY <1>1, <1>7, <2>2
    <3>2. Len(q[g]) \in Nat
      BY <3>1
    <3> QED BY <3>1, <3>2
  <2> QED BY <2>1, <2>2
<1> QED BY <1>1, <1>2, <1>7, <1>12, <1>13, <1>14, <1>15 DEF MsgsPlaced

\* The first message of a queue is handled, or all of one are freed.
TakesFirst(q, h, n, p, calls, more) ==
  /\ q[h] # <<>> /\ n = Head(q[h])
  /\ p = [q EXCEPT ![h] = Tail(q[h])]
  /\ more = [calls EXCEPT ![n] = calls[n] + 1]

OneLess(p, q, h) ==
  /\ Len(q[h]) \in Nat /\ Len(p[h]) = Len(q[h]) - 1
  /\ \A g \in Lib!Handlers : g # h => p[g] = q[g]

LEMMA TakePlaces ==
  ASSUME NEW q, NEW m, NEW calls, NEW gone, MsgsPlaced(q, m, calls, gone),
         NEW h \in Lib!Handlers, NEW n, NEW p, NEW more, TakesFirst(q, h, n, p, calls, more)
  PROVE  MsgsPlaced(p, m, more, gone) /\ OneLess(p, q, h)
<1>0. /\ q[h] # <<>> /\ n = Head(q[h])
      /\ p = [q EXCEPT ![h] = Tail(q[h])] /\ more = [calls EXCEPT ![n] = calls[n] + 1]
  BY DEF TakesFirst
<1>1. /\ q \in [Lib!Handlers -> Seq(Lib!Msgs)] /\ m \in 0 .. MaxHandlerMsgs
      /\ calls \in [Lib!Msgs -> 0 .. 1] /\ gone \subseteq Lib!Msgs
      /\ \A f, g \in Lib!Handlers : \A i \in DOMAIN q[f], j \in DOMAIN q[g] :
           q[f][i] = q[g][j] => f = g /\ i = j
      /\ \A o \in Lib!Msgs : o <= m <=> Waits(q, o) \/ calls[o] = 1 \/ o \in gone
      /\ \A o \in Lib!Msgs : Waits(q, o) => calls[o] = 0 /\ o \notin gone
      /\ \A o \in gone : calls[o] = 0
  BY DEF MsgsPlaced
<1>2. PICK s, r : s = q[h] /\ r = Tail(s)
  OBVIOUS
<1>3. s \in Seq(Lib!Msgs) /\ s # <<>> /\ n = Head(s)
  BY <1>0, <1>1, <1>2
<1>4. /\ r \in Seq(Lib!Msgs) /\ Len(r) = Len(s) - 1 /\ DOMAIN r = 1 .. Len(r)
      /\ DOMAIN s = 1 .. Len(s) /\ n = s[1] /\ 1 \in DOMAIN s /\ n \in Lib!Msgs
      /\ \A i \in DOMAIN r : i + 1 \in DOMAIN s /\ r[i] = s[i + 1] /\ i + 1 # 1
      /\ \A i \in DOMAIN s : i # 1 => i - 1 \in DOMAIN r /\ r[i - 1] = s[i]
      /\ \A i, j \in DOMAIN r : i + 1 = j + 1 => i = j
  BY <1>2, <1>3, QueueShrinks
<1>5. /\ p \in [Lib!Handlers -> Seq(Lib!Msgs)] /\ p[h] = r
      /\ \A g \in Lib!Handlers : g # h => p[g] = q[g]
  <2>1. p = [q EXCEPT ![h] = r]
    BY <1>0, <1>2
  <2> QED BY ONLY <1>1, <1>4, <2>1, h \in Lib!Handlers
<1>6. Waits(q, n) /\ calls[n] = 0 /\ n \notin gone
  <2>1. Waits(q, n)
    BY <1>2, <1>4 DEF Waits
  <2> QED BY <1>1, <1>4, <2>1
<1>7. /\ more \in [Lib!Msgs -> 0 .. 1] /\ more[n] = 1
      /\ \A o \in Lib!Msgs : o # n => more[o] = calls[o]
  <2>1. more = [calls EXCEPT ![n] = 1]
    BY <1>0, <1>6
  <2>2. 1 \in 0 .. 1
    OBVIOUS
  <2> QED BY ONLY <1>1, <1>4, <2>1, <2>2
\* Where what is still in the queues was.
<1>8. ASSUME NEW g \in Lib!Handlers, NEW i \in DOMAIN p[g]
      PROVE  \E k \in DOMAIN q[g] : /\ p[g][i] = q[g][k] /\ ~(g = h /\ k = 1)
                                    /\ IF g = h THEN i \in DOMAIN r /\ k = i + 1 ELSE k = i
  <2>1. CASE g = h
    <3>1. p[g] = r /\ q[g] = s /\ i \in DOMAIN r
      BY <1>2, <1>5, <2>1
    <3>2. i + 1 \in DOMAIN s /\ r[i] = s[i + 1] /\ i + 1 # 1
      BY ONLY <1>4, <3>1
    <3> QED BY ONLY <2>1, <3>1, <3>2
  <2>2. CASE g # h
    BY <1>5, <2>2
  <2> QED BY <2>1, <2>2
<1>9. ASSUME NEW g \in Lib!Handlers, NEW i \in DOMAIN q[g], ~(g = h /\ i = 1)
      PROVE  \E k \in DOMAIN p[g] : p[g][k] = q[g][i]
  <2>1. CASE g = h
    <3>1. p[g] = r /\ q[g] = s /\ i \in DOMAIN s
      BY <1>2, <1>5, <2>1
    <3>2. i - 1 \in DOMAIN r /\ r[i - 1] = s[i]
      BY ONLY <1>4, <1>9, <2>1, <3>1
    <3> QED BY ONLY <3>1, <3>2
  <2>2. CASE g # h
    BY <1>5, <2>2
  <2> QED BY <2>1, <2>2
<1>10. ASSUME NEW o PROVE Waits(p, o) <=> Waits(q, o) /\ o # n
  <2>1. ASSUME Waits(p, o) PROVE Waits(q, o) /\ o # n
    <3>1. PICK g \in Lib!Handlers : \E i \in DOMAIN p[g] : p[g][i] = o
      BY <2>1 DEF Waits
    <3>2. PICK i \in DOMAIN p[g] : p[g][i] = o
      BY <3>1
    <3>3. PICK k \in DOMAIN q[g] : q[g][k] = o /\ ~(g = h /\ k = 1)
      BY <1>8, <3>2
    <3>4. o # n
      BY <1>1, <1>2, <1>4, <3>3
    <3> QED BY <3>3, <3>4 DEF Waits
  <2>2. ASSUME Waits(q, o), o # n PROVE Waits(p, o)
    <3>1. PICK g \in Lib!Handlers : \E i \in DOMAIN q[g] : q[g][i] = o
      BY <2>2 DEF Waits
    <3>2. PICK i \in DOMAIN q[g] : q[g][i] = o
      BY <3>1
    <3>3. ~(g = h /\ i = 1)
      BY <1>2, <1>4, <2>2, <3>2
    <3> QED BY <1>9, <3>2, <3>3 DEF Waits
  <2> QED BY <2>1, <2>2
<1>11. ASSUME NEW f \in Lib!Handlers, NEW g \in Lib!Handlers, NEW i \in DOMAIN p[f], NEW j \in DOMAIN p[g],
              p[f][i] = p[g][j]
       PROVE  f = g /\ i = j
  <2>1. PICK k \in DOMAIN q[f] : /\ p[f][i] = q[f][k]
                                 /\ IF f = h THEN i \in DOMAIN r /\ k = i + 1 ELSE k = i
    BY <1>8
  <2>2. PICK l \in DOMAIN q[g] : /\ p[g][j] = q[g][l]
                                 /\ IF g = h THEN j \in DOMAIN r /\ l = j + 1 ELSE l = j
    BY <1>8
  <2>3. f = g /\ k = l
    <3>1. q[f][k] = q[g][l]
      BY <1>11, <2>1, <2>2
    <3>2. \A e, o \in Lib!Handlers : \A i0 \in DOMAIN q[e], j0 \in DOMAIN q[o] :
            q[e][i0] = q[o][j0] => e = o /\ i0 = j0
      BY <1>1
    <3> QED BY <3>1, <3>2, Zenon
  <2> QED BY ONLY <1>4, <2>1, <2>2, <2>3
<1>12. ASSUME NEW o \in Lib!Msgs
       PROVE  o <= m <=> Waits(p, o) \/ more[o] = 1 \/ o \in gone
  BY <1>1, <1>4, <1>6, <1>7, <1>10
<1>13. ASSUME NEW o \in Lib!Msgs, Waits(p, o) PROVE more[o] = 0 /\ o \notin gone
  BY <1>1, <1>7, <1>10, <1>13
<1>14. ASSUME NEW o \in gone PROVE more[o] = 0
  BY <1>1, <1>6, <1>7
<1>15. MsgsPlaced(p, m, more, gone)
  BY <1>1, <1>5, <1>7, <1>11, <1>12, <1>13, <1>14 DEF MsgsPlaced
<1>16. Len(q[h]) \in Nat /\ Len(p[h]) = Len(q[h]) - 1
  <2>1. Len(s) \in Nat
    BY <1>3
  <2> QED BY <1>2, <1>4, <1>5, <2>1
<1> QED BY <1>5, <1>15, <1>16 DEF OneLess

LEMMA FreePlaces ==
  ASSUME NEW q, NEW m, NEW calls, NEW gone, MsgsPlaced(q, m, calls, gone),
         NEW h \in Lib!Handlers, NEW p, p = [q EXCEPT ![h] = <<>>],
         NEW rest, rest = gone \cup Range(q[h])
  PROVE  MsgsPlaced(p, m, calls, rest)
<1>1. /\ q \in [Lib!Handlers -> Seq(Lib!Msgs)] /\ m \in 0 .. MaxHandlerMsgs
      /\ calls \in [Lib!Msgs -> 0 .. 1] /\ gone \subseteq Lib!Msgs
      /\ \A f, g \in Lib!Handlers : \A i \in DOMAIN q[f], j \in DOMAIN q[g] :
           q[f][i] = q[g][j] => f = g /\ i = j
      /\ \A o \in Lib!Msgs : o <= m <=> Waits(q, o) \/ calls[o] = 1 \/ o \in gone
      /\ \A o \in Lib!Msgs : Waits(q, o) => calls[o] = 0 /\ o \notin gone
      /\ \A o \in gone : calls[o] = 0
  BY DEF MsgsPlaced
<1>2. /\ p \in [Lib!Handlers -> Seq(Lib!Msgs)] /\ p[h] = <<>>
      /\ \A g \in Lib!Handlers : g # h => p[g] = q[g]
  BY <1>1
<1>3. DOMAIN p[h] = {}
  BY <1>2
<1>4. PICK out : out = Range(q[h])
  OBVIOUS
<1>5. \A o : o \in out <=> \E i \in DOMAIN q[h] : q[h][i] = o
  BY <1>4 DEF Range
<1>6. out \subseteq Lib!Msgs
  <2>1. q[h] \in Seq(Lib!Msgs)
    BY <1>1
  <2>2. \A i \in DOMAIN q[h] : q[h][i] \in Lib!Msgs
    BY <2>1
  <2> QED BY <1>5, <2>2
<1>7. \A o : o \in out => Waits(q, o)
  BY <1>5 DEF Waits
<1>8. ASSUME NEW o PROVE Waits(p, o) <=> Waits(q, o) /\ o \notin out
  <2>1. ASSUME Waits(p, o) PROVE Waits(q, o) /\ o \notin out
    <3>1. PICK g \in Lib!Handlers : \E i \in DOMAIN p[g] : p[g][i] = o
      BY <2>1 DEF Waits
    <3>2. g # h /\ p[g] = q[g]
      BY <1>2, <1>3, <3>1
    <3>3. PICK i \in DOMAIN q[g] : q[g][i] = o
      BY <3>1, <3>2
    <3> QED BY <1>1, <1>5, <3>2, <3>3 DEF Waits
  <2>2. ASSUME Waits(q, o), o \notin out PROVE Waits(p, o)
    <3>1. PICK g \in Lib!Handlers : \E i \in DOMAIN q[g] : q[g][i] = o
      BY <2>2 DEF Waits
    <3>2. g # h
      BY <1>5, <2>2, <3>1
    <3> QED BY <1>2, <3>1, <3>2 DEF Waits
  <2> QED BY <2>1, <2>2
<1>9. ASSUME NEW f \in Lib!Handlers, NEW g \in Lib!Handlers, NEW i \in DOMAIN p[f], NEW j \in DOMAIN p[g],
             p[f][i] = p[g][j]
      PROVE  f = g /\ i = j
  BY <1>1, <1>2, <1>3, <1>9
<1>10. rest \subseteq Lib!Msgs /\ rest = gone \cup out
  BY <1>1, <1>4, <1>6
<1> QED BY <1>1, <1>2, <1>6, <1>7, <1>8, <1>9, <1>10 DEF MsgsPlaced
-----------------------------------------------------------------------------
\* One thread of them does something else.
OnlyMoves(us, ts, k, x, list) ==
  /\ k \in 1 .. Len(list) /\ us[k] = x
  /\ \A l \in 1 .. Len(list) : l # k => us[l] = ts[l]

LEMMA MainLets ==
  ASSUME NEW m, NEW ts, NEW list, NEW running, NEW q, NEW state,
         MainComes(m, ts, list, running, q, state),
         NEW us, NEW k, NEW x, OnlyMoves(us, ts, k, x, list), Len(list) \in Nat,
         ts[k].at \notin {"unborn", "end"}, NEW p
  PROVE  /\ MainComes(m, us, list, running, p, state)
         /\ m.at \in {"start", "loop", "stop", "join"}
<1>1. /\ k \in 1 .. Len(list) /\ us[k] = x
      /\ \A l \in 1 .. Len(list) : l # k => us[l] = ts[l]
  BY DEF OnlyMoves
<1>2. m.at \in {"start", "loop", "stop", "join"}
  BY <1>1 DEF MainComes, MainStates
<1>3. m.at = "start" => ~(m.k <= k)
  BY <1>1 DEF MainComes
<1>4. m.at = "join" => ~(k < m.k)
  BY <1>1 DEF MainComes
<1>5. m.at = "start" => \A l \in m.k .. Len(list) : us[l].at = "unborn"
  <2> SUFFICES ASSUME m.at = "start", NEW l \in m.k .. Len(list) PROVE us[l].at = "unborn"
    OBVIOUS
  <2>1. ts[l].at = "unborn" /\ m.k \in 1 .. Len(list)
    BY DEF MainComes
  <2>2. l # k /\ l \in 1 .. Len(list)
    BY ONLY <1>3, <2>1, m.at = "start", l \in m.k .. Len(list)
  <2> QED BY <1>1, <2>1, <2>2
<1>6. m.at = "join" => \A l \in 1 .. m.k - 1 : us[l].at = "end"
  <2> SUFFICES ASSUME m.at = "join", NEW l \in 1 .. m.k - 1 PROVE us[l].at = "end"
    OBVIOUS
  <2>1. ts[l].at = "end" /\ m.k \in 1 .. Len(list)
    BY DEF MainComes
  <2>2. l # k /\ l \in 1 .. Len(list)
    BY <1>1, <1>4, <2>1
  <2> QED BY <1>1, <2>1, <2>2
<1> QED BY <1>2, <1>5, <1>6 DEF MainComes

LEMMA ThreadEnters ==
  ASSUME NEW ts, NEW list, NEW q, NEW locks, InHandlers(ts, list, q, locks), ThreadsMade(list),
         NEW us, NEW k, NEW x, OnlyMoves(us, ts, k, x, list),
         ts[k].at # "handle", x.at = "handle", x.handler \in HandlersIn(list[k].group),
         x.batch <= Len(q[x.handler]), NEW after,
         IF list[k].handler # Lib!None
         THEN x.handler = list[k].handler /\ after = locks
         ELSE x.handler \notin locks /\ after = locks \cup {x.handler}
  PROVE  InHandlers(us, list, q, after)
<1>1. /\ k \in 1 .. Len(list) /\ us[k] = x
      /\ \A l \in 1 .. Len(list) : l # k => us[l] = ts[l]
  BY DEF OnlyMoves
<1>2. \A l \in 1 .. Len(list) : ts[l].at = "handle" =>
        /\ ts[l].handler \in HandlersIn(list[l].group)
        /\ list[l].handler # Lib!None => ts[l].handler = list[l].handler
        /\ ts[l].batch <= Len(q[ts[l].handler])
  BY DEF InHandlers
<1>3. \A h \in Lib!Handlers :
        h \in locks <=> \E l \in 1 .. Len(list) :
          ts[l].at = "handle" /\ list[l].handler = Lib!None /\ ts[l].handler = h
  BY DEF InHandlers
<1>4. \A l \in 1 .. Len(list) : list[l].group \in Lib!Groups
  <2>1. list \in Seq(ListEntries)
    BY DEF ThreadsMade
  <2>2. \A l \in 1 .. Len(list) : list[l] \in ListEntries
    BY <2>1
  <2> QED BY <2>2 DEF ListEntries
<1>5. x.handler \in Lib!Handlers
  BY <1>1, <1>4, Registered
<1>6. ASSUME NEW l \in 1 .. Len(list), l # k, ts[l].at = "handle", ts[l].handler = x.handler
      PROVE  FALSE
  <2>1. ts[l].handler \in HandlersIn(list[l].group) \cap HandlersIn(list[k].group)
    BY <1>2, <1>6
  <2>2. list[l].group = list[k].group
    <3>1. \A g, h \in Lib!Groups : HandlersIn(g) \cap HandlersIn(h) # {} => g = h
      BY Registered
    <3>2. list[l].group \in Lib!Groups /\ list[k].group \in Lib!Groups
      BY <1>1, <1>4
    <3>3. HandlersIn(list[l].group) \cap HandlersIn(list[k].group) # {}
      BY <2>1
    <3> QED BY ONLY <3>1, <3>2, <3>3
  <2>3. list[l].handler = Lib!None <=> list[k].handler = Lib!None
    BY <1>1, <2>2 DEF ThreadsMade
  <2>4. CASE list[k].handler = Lib!None
    BY <1>3, <1>5, <1>6, <2>3, <2>4
  <2>5. CASE list[k].handler # Lib!None
    <3>1. list[l].handler = list[k].handler
      BY <1>2, <1>6, <2>3, <2>5
    <3> QED BY <1>1, <1>6, <2>5, <3>1 DEF ThreadsMade
  <2> QED BY <2>4, <2>5
<1>7. ASSUME NEW l \in 1 .. Len(list), us[l].at = "handle"
      PROVE  /\ us[l].handler \in HandlersIn(list[l].group)
             /\ list[l].handler # Lib!None => us[l].handler = list[l].handler
             /\ us[l].batch <= Len(q[us[l].handler])
  <2>1. CASE l = k
    BY <1>1, <2>1
  <2>2. CASE l # k
    BY <1>1, <1>2, <1>7, <2>2
  <2> QED BY <2>1, <2>2
<1>8. ASSUME NEW j \in 1 .. Len(list), NEW l \in 1 .. Len(list),
             us[j].at = "handle", us[l].at = "handle", us[j].handler = us[l].handler
      PROVE  j = l
  <2>1. CASE j = k
    BY <1>1, <1>6, <1>8, <2>1
  <2>2. CASE l = k
    BY <1>1, <1>6, <1>8, <2>2
  <2>3. CASE j # k /\ l # k
    BY <1>1, <1>8, <2>3 DEF InHandlers
  <2> QED BY <2>1, <2>2, <2>3
<1>9. after \subseteq Lib!Handlers
  BY <1>5 DEF InHandlers
<1>10. ASSUME NEW h \in Lib!Handlers
       PROVE  h \in after <=> \E l \in 1 .. Len(list) :
                us[l].at = "handle" /\ list[l].handler = Lib!None /\ us[l].handler = h
  <2>1. h \in after <=> h \in locks \/ (list[k].handler = Lib!None /\ x.handler = h)
    OBVIOUS
  <2>2. ASSUME h \in after
        PROVE  \E l \in 1 .. Len(list) :
                us[l].at = "handle" /\ list[l].handler = Lib!None /\ us[l].handler = h
    <3>1. CASE h \in locks
      <4>1. PICK l \in 1 .. Len(list) :
              ts[l].at = "handle" /\ list[l].handler = Lib!None /\ ts[l].handler = h
        BY <1>3, <3>1
      <4> QED BY <1>1, <4>1
    <3>2. CASE list[k].handler = Lib!None /\ x.handler = h
      BY <1>1, <3>2
    <3> QED BY <2>1, <2>2, <3>1, <3>2
  <2>3. ASSUME NEW l \in 1 .. Len(list),
               us[l].at = "handle", list[l].handler = Lib!None, us[l].handler = h
        PROVE  h \in after
    <3>1. CASE l = k
      BY <1>1, <2>1, <2>3, <3>1
    <3>2. CASE l # k
      BY <1>1, <1>3, <2>1, <2>3, <3>2
    <3> QED BY <3>1, <3>2
  <2> QED BY <2>2, <2>3
<1> QED BY <1>7, <1>8, <1>9, <1>10 DEF InHandlers

LEMMA ThreadLeaves ==
  ASSUME NEW ts, NEW list, NEW q, NEW locks, InHandlers(ts, list, q, locks), ThreadsMade(list),
         NEW us, NEW k, NEW x, OnlyMoves(us, ts, k, x, list), x.at # "handle", NEW after,
         IF ts[k].at = "handle" /\ list[k].handler = Lib!None
         THEN after = locks \ {ts[k].handler} ELSE after = locks
  PROVE  InHandlers(us, list, q, after)
<1>1. /\ k \in 1 .. Len(list) /\ us[k] = x
      /\ \A l \in 1 .. Len(list) : l # k => us[l] = ts[l]
  BY DEF OnlyMoves
<1>2. \A l \in 1 .. Len(list) : us[l].at = "handle" => l # k /\ us[l] = ts[l]
  BY <1>1
<1>3. \A h \in Lib!Handlers :
        h \in locks <=> \E l \in 1 .. Len(list) :
          ts[l].at = "handle" /\ list[l].handler = Lib!None /\ ts[l].handler = h
  BY DEF InHandlers
<1>4. ASSUME NEW h \in Lib!Handlers, h \in after
      PROVE  \E l \in 1 .. Len(list) :
                us[l].at = "handle" /\ list[l].handler = Lib!None /\ us[l].handler = h
  <2>1. h \in locks
    BY <1>4
  <2>2. PICK l \in 1 .. Len(list) :
          ts[l].at = "handle" /\ list[l].handler = Lib!None /\ ts[l].handler = h
    BY <1>3, <2>1
  <2>3. l # k
    BY <1>4, <2>2
  <2> QED BY <1>1, <2>2, <2>3
<1>5. ASSUME NEW h \in Lib!Handlers, NEW l \in 1 .. Len(list),
             us[l].at = "handle", list[l].handler = Lib!None, us[l].handler = h
      PROVE  h \in after
  <2>1. l # k /\ us[l] = ts[l]
    BY <1>2, <1>5
  <2>2. h \in locks
    BY <1>3, <1>5, <2>1
  <2>3. ts[k].at = "handle" => ts[k].handler # h
    BY <1>1, <1>5, <2>1 DEF InHandlers
  <2> QED BY <2>2, <2>3
<1>6. after \subseteq Lib!Handlers
  BY DEF InHandlers
<1>7. ASSUME NEW l \in 1 .. Len(list), us[l].at = "handle"
      PROVE  /\ us[l].handler \in HandlersIn(list[l].group)
             /\ list[l].handler # Lib!None => us[l].handler = list[l].handler
             /\ us[l].batch <= Len(q[us[l].handler])
  BY <1>2, <1>7 DEF InHandlers
<1>8. ASSUME NEW j \in 1 .. Len(list), NEW l \in 1 .. Len(list),
             us[j].at = "handle", us[l].at = "handle", us[j].handler = us[l].handler
      PROVE  j = l
  BY <1>2, <1>8 DEF InHandlers
<1> QED BY <1>4, <1>5, <1>6, <1>7, <1>8 DEF InHandlers

\* Messages come in, and one may be taken by the thread in its handler.
LEMMA ThreadTakes ==
  ASSUME NEW ts \in Seq(LibThreads), NEW list, Len(ts) = Len(list),
         NEW q \in [Lib!Handlers -> Seq(Lib!Msgs)], NEW p \in [Lib!Handlers -> Seq(Lib!Msgs)],
         NEW locks, InHandlers(ts, list, q, locks), ThreadsMade(list),
         NEW us, NEW k, NEW x, OnlyMoves(us, ts, k, x, list),
         ts[k].at = "handle", x = [ts[k] EXCEPT !.batch = ts[k].batch - 1],
         \A h \in Lib!Handlers : Len(p[h]) >= Len(q[h]) - (IF h = ts[k].handler THEN 1 ELSE 0)
  PROVE  InHandlers(us, list, p, locks)
<1>1. /\ k \in 1 .. Len(list) /\ us[k] = x
      /\ \A l \in 1 .. Len(list) : l # k => us[l] = ts[l]
  BY DEF OnlyMoves
<1>2. \A l \in 1 .. Len(list) : ts[l] \in LibThreads
  OBVIOUS
<1>3. /\ x.at = "handle" /\ x.handler = ts[k].handler /\ x.batch = ts[k].batch - 1
  BY <1>1, <1>2 DEF LibThreads
<1>4. \A l \in 1 .. Len(list) : us[l].at = ts[l].at /\ us[l].handler = ts[l].handler
  BY <1>1, <1>3
<1>5. \A l \in 1 .. Len(list) : ts[l].batch \in Int /\ list[l].group \in Lib!Groups
  <2>1. list \in Seq(ListEntries)
    BY DEF ThreadsMade
  <2>2. \A l \in 1 .. Len(list) : list[l] \in ListEntries
    BY <2>1
  <2> QED BY <1>2, <2>2 DEF ListEntries, LibThreads
<1>6. ASSUME NEW l \in 1 .. Len(list), us[l].at = "handle"
      PROVE  us[l].batch <= Len(p[us[l].handler])
  <2>1. PICK h : h = ts[l].handler
    OBVIOUS
  <2>2. h \in HandlersIn(list[l].group) /\ ts[l].batch <= Len(q[h])
    BY <1>4, <1>6, <2>1 DEF InHandlers
  <2>3. h \in Lib!Handlers
    BY <1>5, <2>2, Registered
  <2>4. Len(q[h]) \in Int /\ Len(p[h]) \in Int
    <3>1. q[h] \in Seq(Lib!Msgs) /\ p[h] \in Seq(Lib!Msgs)
      BY <2>3
    <3> QED BY <3>1
  <2>5. CASE l = k
    <3>1. Len(p[h]) >= Len(q[h]) - 1
      BY <2>1, <2>3, <2>5
    <3>2. us[l].batch = ts[l].batch - 1
      BY <1>1, <1>3, <2>5
    <3>3. ts[l].batch \in Int /\ us[l].handler = h
      BY <1>4, <1>5, <2>1
    <3> QED BY ONLY <2>2, <2>4, <3>1, <3>2, <3>3
  <2>6. CASE l # k
    <3>1. h # ts[k].handler
      BY <1>1, <1>4, <1>6, <2>1, <2>6 DEF InHandlers
    <3>2. Len(p[h]) >= Len(q[h]) - 0
      BY <2>3, <3>1
    <3>3. us[l] = ts[l]
      BY <1>1, <2>6
    <3> QED BY ONLY <1>5, <2>1, <2>2, <2>4, <3>2, <3>3, l \in 1 .. Len(list)
  <2> QED BY <2>5, <2>6
<1>7. ASSUME NEW l \in 1 .. Len(list), us[l].at = "handle"
      PROVE  /\ us[l].handler \in HandlersIn(list[l].group)
             /\ list[l].handler # Lib!None => us[l].handler = list[l].handler
  BY <1>4, <1>7 DEF InHandlers
<1>8. ASSUME NEW j \in 1 .. Len(list), NEW l \in 1 .. Len(list),
             us[j].at = "handle", us[l].at = "handle", us[j].handler = us[l].handler
      PROVE  j = l
  BY <1>4, <1>8 DEF InHandlers
<1>9. ASSUME NEW h \in Lib!Handlers
      PROVE  h \in locks <=> \E l \in 1 .. Len(list) :
               us[l].at = "handle" /\ list[l].handler = Lib!None /\ us[l].handler = h
  <2>1. h \in locks <=> \E l \in 1 .. Len(list) :
          ts[l].at = "handle" /\ list[l].handler = Lib!None /\ ts[l].handler = h
    BY DEF InHandlers
  <2> QED BY ONLY <1>4, <2>1
<1>10. locks \subseteq Lib!Handlers
  BY DEF InHandlers
<1> QED BY <1>6, <1>7, <1>8, <1>9, <1>10 DEF InHandlers

LEMMA MessagesCome ==
  ASSUME NEW ts \in Seq(LibThreads), NEW list, Len(ts) = Len(list),
         NEW q \in [Lib!Handlers -> Seq(Lib!Msgs)], NEW p \in [Lib!Handlers -> Seq(Lib!Msgs)],
         NEW locks, InHandlers(ts, list, q, locks), ThreadsMade(list),
         \A h \in Lib!Handlers : Len(p[h]) >= Len(q[h])
  PROVE  InHandlers(ts, list, p, locks)
<1>1. \A l \in 1 .. Len(list) : ts[l].batch \in Int /\ list[l].group \in Lib!Groups
  <2>1. list \in Seq(ListEntries)
    BY DEF ThreadsMade
  <2>2. \A l \in 1 .. Len(list) : list[l] \in ListEntries /\ ts[l] \in LibThreads
    BY <2>1
  <2> QED BY <2>2 DEF ListEntries, LibThreads
<1>2. ASSUME NEW l \in 1 .. Len(list), ts[l].at = "handle"
      PROVE  ts[l].batch <= Len(p[ts[l].handler])
  <2>1. PICK h : h = ts[l].handler
    OBVIOUS
  <2>2. h \in HandlersIn(list[l].group) /\ ts[l].batch <= Len(q[h])
    BY <1>2, <2>1 DEF InHandlers
  <2>3. h \in Lib!Handlers
    BY <1>1, <2>2, Registered
  <2>4. Len(q[h]) \in Int /\ Len(p[h]) \in Int /\ Len(p[h]) >= Len(q[h])
    <3>1. q[h] \in Seq(Lib!Msgs) /\ p[h] \in Seq(Lib!Msgs)
      BY <2>3
    <3> QED BY <2>3, <3>1
  <2> QED BY ONLY <1>1, <2>1, <2>2, <2>4, l \in 1 .. Len(list)
<1> QED BY <1>2 DEF InHandlers

\* send_handler_msg makes of the queues q and m messages p and n.
Sending(q, m, p, n, a, b, state) ==
  \/ p = q /\ n = m /\ b = a
  \/ /\ m < MaxHandlerMsgs
     /\ IF state = 3
        THEN b = "assertion" /\ p = q /\ n = m
        ELSE \E h \in Lib!Handlers :
               n = m + 1 /\ p = [q EXCEPT ![h] = Append(q[h], n)] /\ b = a

\* send_handler_msg of what a thread, or a timer, has in mind.
LEMMA SendsPlaces ==
  ASSUME NEW q, NEW m, NEW calls, NEW gone, MsgsPlaced(q, m, calls, gone),
         NEW p, NEW n, NEW a, NEW b, NEW state,
         Sending(q, m, p, n, a, b, state)
  PROVE  /\ MsgsPlaced(p, n, calls, gone)
         /\ p \in [Lib!Handlers -> Seq(Lib!Msgs)]
         /\ \A h \in Lib!Handlers : Len(p[h]) >= Len(q[h])
         /\ b = a \/ (b = "assertion" /\ state = 3)
<1>1. \A h \in Lib!Handlers : Len(q[h]) >= Len(q[h])
  <2> SUFFICES ASSUME NEW h \in Lib!Handlers PROVE Len(q[h]) >= Len(q[h])
    OBVIOUS
  <2>1. q[h] \in Seq(Lib!Msgs)
    BY DEF MsgsPlaced
  <2> QED BY <2>1
<1>0. Sending(q, m, p, n, a, b, state)
  OBVIOUS
<1>2. CASE p = q /\ n = m
  BY <1>0, <1>1, <1>2 DEF MsgsPlaced, Sending
<1>3. CASE ~(p = q /\ n = m)
  <2>1. PICK h \in Lib!Handlers : n = m + 1 /\ p = [q EXCEPT ![h] = Append(q[h], n)] /\ b = a
    BY <1>0, <1>3 DEF Sending
  <2>2. m < MaxHandlerMsgs
    BY <1>0, <1>3 DEF Sending
  <2>3. n = m + 1 /\ p = [q EXCEPT ![h] = Append(q[h], n)]
    BY <2>1
  <2>4. MsgsPlaced(p, n, calls, gone) /\ \A g \in Lib!Handlers : Len(p[g]) >= Len(q[g])
    <3>1. MsgsPlaced(q, m, calls, gone) /\ h \in Lib!Handlers
      OBVIOUS
    <3> QED BY ONLY <2>2, <2>3, <3>1, SendPlaces, Zenon
  <2> QED BY <2>1, <2>4 DEF MsgsPlaced
<1> QED BY <1>2, <1>3

-----------------------------------------------------------------------------
\* The threads of a group.
LEMMA GroupThreads ==
  ASSUME NEW g \in Lib!Groups, _threads_num[g] \in Nat \ {0}, NEW made, made = Lib!Threadlist(g)
  PROVE  /\ made \in Seq(ListEntries) /\ Len(made) \in Nat \ {0} /\ DOMAIN made = 1 .. Len(made)
         /\ \A i \in 1 .. Len(made) : made[i].group = g
         /\ \/ \A i \in 1 .. Len(made) : made[i].handler = Lib!None
            \/ /\ \A i \in 1 .. Len(made) : made[i].handler \in HandlersIn(g)
               /\ \A i, j \in 1 .. Len(made) : made[i].handler = made[j].handler => i = j
<1>1. PICK s, n : s = HandlersOf[g] /\ n = Len(s)
  OBVIOUS
<1>2. s \in Seq(Nat \ {0}) /\ n \in Nat \ {0} /\ DOMAIN s = 1 .. n
  <2>1. s \in Seq(Nat \ {0}) /\ n \in Nat \ {0}
    BY <1>1, Registered
  <2>2. DOMAIN s = 1 .. n
    BY ONLY <1>1, <2>1
  <2> QED BY <2>1, <2>2
<1>3. CASE Lib!Fits(g)
  <2>1. made = [i \in 1 .. n |-> [group |-> g, handler |-> s[i]]]
    BY <1>1, <1>2, <1>3 DEF Lib!Threadlist
  <2>2. \A i \in 1 .. n : s[i] \in HandlersIn(g) /\ s[i] \in Lib!Handlers
    BY <1>1, Registered
  <2>3. \A i \in 1 .. n : [group |-> g, handler |-> s[i]] \in ListEntries
    BY <2>2 DEF ListEntries
  <2>4. PICK E : E = ListEntries
    OBVIOUS
  <2>5. made \in [1 .. n -> E]
    BY <2>1, <2>3, <2>4
  <2>6. made \in Seq(E) /\ Len(made) = n /\ DOMAIN made = 1 .. n
    BY ONLY <1>2, <2>5
  <2>7. \A i \in 1 .. n : made[i].group = g /\ made[i].handler = s[i]
    BY ONLY <2>1
  <2>8. \A i, j \in 1 .. n : s[i] = s[j] => i = j
    BY <1>1, <1>2, LibAssumption, SMTT(30) DEF Lib!Groups
  <2> QED BY <1>2, <2>2, <2>4, <2>6, <2>7, <2>8
<1>4. CASE ~Lib!Fits(g)
  <2>1. PICK k \in Nat \ {0} : k = _threads_num[g]
    OBVIOUS
  <2>2. PICK e : e = [group |-> g, handler |-> Lib!None]
    OBVIOUS
  <2>3. made = [i \in 1 .. k |-> e]
    BY <1>4, <2>1, <2>2 DEF Lib!Threadlist
  <2>4. PICK E : E = ListEntries
    OBVIOUS
  <2>5. e \in E
    BY <2>2, <2>4 DEF ListEntries
  <2>6. made \in Seq(E) /\ Len(made) = k /\ DOMAIN made = 1 .. k /\ \A i \in 1 .. k : made[i] = e
    BY ONLY <2>1, <2>3, <2>5
  <2> QED BY <2>1, <2>2, <2>4, <2>6
<1> QED BY <1>3, <1>4

\* One list behind another.
LEMMA Joined ==
  ASSUME NEW S, NEW r \in Seq(S), NEW s \in Seq(S), NEW t, t = r \o s
  PROVE  /\ t \in Seq(S) /\ Len(t) = Len(r) + Len(s) /\ Len(r) \in Nat /\ Len(s) \in Nat
         /\ \A i \in 1 .. Len(t) :
              \/ i \in 1 .. Len(r) /\ t[i] = r[i]
              \/ i - Len(r) \in 1 .. Len(s) /\ t[i] = s[i - Len(r)]
OBVIOUS

-----------------------------------------------------------------------------
LEMMA LibStarts == Lib!LibInit => LibInv
<1> SUFFICES ASSUME Lib!LibInit PROVE LibInv
  OBVIOUS
<1> USE DEF Lib!LibInit
<1>1. thread = <<>> /\ _threadlist = <<>> /\ Len(_threadlist) = 0
  OBVIOUS
<1>2. LibTypes
  <2>1. thread \in Seq(LibThreads)
    BY <1>1
  <2>2. _threads_num \in [Lib!Groups -> Nat \ {0}]
    BY LibAssumption
  <2>3. _index \in [Lib!Groups -> Nat] /\ \A g \in Lib!Groups : _index[g] < Len(HandlersOf[g])
    BY Registered
  <2>4. 1 .. Len(_threadlist) = {}
    BY <1>1
  <2> QED BY <1>1, <2>1, <2>2, <2>3, <2>4 DEF LibTypes
<1>3. MsgsPlaced(handlerQueue, handlerMsgs, handled, freedMsgs)
  <2>1. PICK M : M = Lib!Msgs
    OBVIOUS
  <2>2. <<>> \in Seq(M)
    OBVIOUS
  <2>3. handlerQueue \in [Lib!Handlers -> Seq(Lib!Msgs)] /\ \A h \in Lib!Handlers : handlerQueue[h] = <<>>
    BY <2>1, <2>2
  <2>4. \A h \in Lib!Handlers : DOMAIN handlerQueue[h] = {}
    BY <2>3
  <2>5. handled \in [Lib!Msgs -> 0 .. 1] /\ \A n \in Lib!Msgs : handled[n] = 0
    OBVIOUS
  <2>6. \A n \in Lib!Msgs : ~(n <= handlerMsgs)
    BY LibAssumption DEF Lib!Msgs
  <2>7. handlerMsgs \in 0 .. MaxHandlerMsgs
    BY LibAssumption
  <2> QED BY <2>3, <2>4, <2>5, <2>6, <2>7 DEF MsgsPlaced, Waits
<1>4. ThreadsMade(_threadlist)
  <2>1. _threadlist \in Seq(ListEntries)
    BY <1>1
  <2> QED BY <1>1, <2>1 DEF ThreadsMade
<1>5. InHandlers(thread, _threadlist, handlerQueue, handlerLocks)
  BY <1>1 DEF InHandlers
<1>6. MainComes(main, thread, _threadlist, _running, handlerQueue, _state)
  <2>1. Len(HandlersOf) \in Lib!Groups /\ Len(HandlersOf) \in Int
    BY Registered
  <2> QED BY <1>1, <2>1 DEF MainComes, MainStates
<1>7. Died(aborted, main)
  BY DEF Died
<1> QED BY <1>2, <1>3, <1>4, <1>5, <1>6, <1>7 DEF LibInv

LEMMA LibCreates == LibInv /\ Lib!CreateThreads => LibInv'
<1> SUFFICES ASSUME LibInv, Lib!CreateThreads PROVE LibInv'
  OBVIOUS
<1>1. /\ aborted = "no" /\ main.at = "create"
      /\ UNCHANGED <<_index, handlerLocks, _running, _state, handlerQueue, handlerMsgs, handled,
                     freedMsgs, aborted>>
  BY DEF Lib!CreateThreads, Lib!MainAt, Lib!lockVars
<1>2. PICK g, made, ts, list, us, more, x :
        /\ g = main.k /\ made = Lib!Threadlist(g) /\ ts = thread /\ list = _threadlist
        /\ us = thread' /\ more = _threadlist' /\ x = Lib!Unborn
  OBVIOUS
<1>3. /\ g \in Lib!Groups /\ g \in Int /\ ts \in Seq(LibThreads) /\ Len(ts) = Len(list)
      /\ _threads_num \in [Lib!Groups -> Nat \ {0}] /\ _running \subseteq 1 .. Len(list)
      /\ ThreadsMade(list) /\ list \in Seq(ListEntries)
      /\ \A k \in 1 .. Len(list) : list[k].group > g /\ ts[k].at = "unborn"
  <2>1. /\ g \in Lib!Groups /\ g \in Int
        /\ \A k \in 1 .. Len(list) : list[k].group > g /\ ts[k].at = "unborn"
    BY <1>1, <1>2 DEF LibInv, MainComes
  <2>2. /\ ts \in Seq(LibThreads) /\ Len(ts) = Len(list)
        /\ _threads_num \in [Lib!Groups -> Nat \ {0}] /\ _running \subseteq 1 .. Len(list)
    BY <1>2 DEF LibInv, LibTypes
  <2>3. ThreadsMade(list) /\ list \in Seq(ListEntries)
    BY <1>2 DEF LibInv, ThreadsMade
  <2> QED BY <2>1, <2>2, <2>3
<1>4. /\ made \in Seq(ListEntries) /\ Len(made) \in Nat \ {0} /\ DOMAIN made = 1 .. Len(made)
      /\ \A i \in 1 .. Len(made) : made[i].group = g
      /\ \/ \A i \in 1 .. Len(made) : made[i].handler = Lib!None
         \/ /\ \A i \in 1 .. Len(made) : made[i].handler \in HandlersIn(g)
            /\ \A i, j \in 1 .. Len(made) : made[i].handler = made[j].handler => i = j
  <2>1. _threads_num[g] \in Nat \ {0}
    BY <1>3
  <2>2. g \in Lib!Groups /\ made = Lib!Threadlist(g)
    BY <1>2, <1>3
  <2> QED BY ONLY <2>1, <2>2, GroupThreads
<1>5. PICK new : new = [i \in 1 .. Len(made) |-> x]
  OBVIOUS
<1>6. more = list \o made /\ us = ts \o new
      /\ _threads_num' = [_threads_num EXCEPT ![g] = Len(made)]
      /\ main' = IF g = 1 THEN [at |-> "start", k |-> 1] ELSE [at |-> "create", k |-> g - 1]
  BY <1>1, <1>2, <1>4, <1>5 DEF Lib!CreateThreads, Lib!Goes
<1>7. new \in Seq(LibThreads) /\ Len(new) = Len(made) /\ \A i \in 1 .. Len(made) : new[i] = x
  <2>1. x \in LibThreads
    BY <1>2 DEF LibThreads, Lib!Unborn, Lib!None, ThreadStates
  <2>2. PICK T : T = LibThreads
    OBVIOUS
  <2>3. new \in Seq(T) /\ Len(new) = Len(made) /\ \A i \in 1 .. Len(made) : new[i] = x
    BY ONLY <1>4, <1>5, <2>1, <2>2
  <2> QED BY <2>2, <2>3
<1>8. /\ more \in Seq(ListEntries) /\ Len(more) = Len(list) + Len(made)
      /\ Len(list) \in Nat /\ Len(made) \in Nat
      /\ \A i \in 1 .. Len(more) :
           \/ i \in 1 .. Len(list) /\ more[i] = list[i]
           \/ i - Len(list) \in 1 .. Len(made) /\ more[i] = made[i - Len(list)]
  BY ONLY <1>3, <1>4, <1>6, Joined
<1>9. /\ us \in Seq(LibThreads) /\ Len(us) = Len(more)
      /\ \A i \in 1 .. Len(us) :
           \/ i \in 1 .. Len(list) /\ us[i] = ts[i]
           \/ i - Len(list) \in 1 .. Len(made) /\ us[i] = x
  <2>1. /\ us \in Seq(LibThreads) /\ Len(us) = Len(ts) + Len(new)
        /\ \A i \in 1 .. Len(us) :
             \/ i \in 1 .. Len(ts) /\ us[i] = ts[i]
             \/ i - Len(ts) \in 1 .. Len(new) /\ us[i] = new[i - Len(ts)]
    <3>1. PICK T : T = LibThreads
      OBVIOUS
    <3>2. ts \in Seq(T) /\ new \in Seq(T) /\ us = ts \o new
      BY <1>3, <1>6, <1>7, <3>1
    <3>3. /\ us \in Seq(T) /\ Len(us) = Len(ts) + Len(new)
          /\ \A i \in 1 .. Len(us) :
               \/ i \in 1 .. Len(ts) /\ us[i] = ts[i]
               \/ i - Len(ts) \in 1 .. Len(new) /\ us[i] = new[i - Len(ts)]
      BY ONLY <3>2, Joined
    <3> QED BY <3>1, <3>3
  <2> QED BY ONLY <1>3, <1>7, <1>8, <2>1
<1>10. \A i \in 1 .. Len(more) : us[i].at = "unborn"
  <2>1. x.at = "unborn"
    BY <1>2 DEF Lib!Unborn
  <2> QED BY <1>3, <1>9, <2>1
<1>11. LibTypes'
  <2>1. _threads_num' \in [Lib!Groups -> Nat \ {0}]
    BY ONLY <1>3, <1>4, <1>6
  <2>2. _running' \subseteq 1 .. Len(more)
    <3>1. 1 .. Len(list) \subseteq 1 .. Len(more)
      BY ONLY <1>8
    <3> QED BY <1>1, <1>3, <3>1
  <2>3. _index' \in [Lib!Groups -> Nat] /\ \A f \in Lib!Groups : _index'[f] < Len(HandlersOf[f])
    BY <1>1 DEF LibInv, LibTypes
  <2> QED BY <1>2, <1>9, <1>10, <2>1, <2>2, <2>3 DEF LibTypes
<1>12. ThreadsMade(more)
  <2>1. \A i \in 1 .. Len(list) : list[i].group # g
    BY <1>3
  <2>2. ASSUME NEW i \in 1 .. Len(more), more[i].handler # Lib!None
        PROVE  more[i].handler \in HandlersIn(more[i].group)
    <3>1. CASE i \in 1 .. Len(list) /\ more[i] = list[i]
      BY <1>3, <2>2, <3>1 DEF ThreadsMade
    <3>2. CASE i - Len(list) \in 1 .. Len(made) /\ more[i] = made[i - Len(list)]
      <4>1. PICK j \in 1 .. Len(made) : more[i] = made[j]
        BY <3>2
      <4> QED BY <1>4, <2>2, <4>1
    <3> QED BY <1>8, <3>1, <3>2
  <2>3. ASSUME NEW i \in 1 .. Len(more), NEW j \in 1 .. Len(more), more[i].group = more[j].group
        PROVE  more[i].handler = Lib!None <=> more[j].handler = Lib!None
    <3>1. \A h \in HandlersIn(g) : h # Lib!None
      BY <1>3, Registered
    <3>2. CASE more[i].group = g
      BY <1>4, <1>8, <2>1, <2>3, <3>1, <3>2
    <3>3. CASE more[i].group # g
      <4>1. i \in 1 .. Len(list) /\ more[i] = list[i] /\ j \in 1 .. Len(list) /\ more[j] = list[j]
        BY <1>4, <1>8, <2>3, <3>3
      <4> QED BY <1>3, <2>3, <4>1 DEF ThreadsMade
    <3> QED BY <3>2, <3>3
  <2>4. ASSUME NEW i \in 1 .. Len(more), NEW j \in 1 .. Len(more),
               more[i].handler = more[j].handler, more[i].handler # Lib!None
        PROVE  i = j
    <3>1. more[i].group = more[j].group
      <4>1. more[i].handler \in HandlersIn(more[i].group) /\ more[j].handler \in HandlersIn(more[j].group)
        BY <2>2, <2>4
      <4>2. more[i].group \in Lib!Groups /\ more[j].group \in Lib!Groups
        <5>1. more[i] \in ListEntries /\ more[j] \in ListEntries
          BY <1>8
        <5> QED BY <5>1 DEF ListEntries
      <4>3. HandlersIn(more[i].group) \cap HandlersIn(more[j].group) # {}
        BY <2>4, <4>1
      <4> QED BY <4>2, <4>3, Registered
    <3>2. CASE more[i].group = g
      <4>1. i - Len(list) \in 1 .. Len(made) /\ more[i] = made[i - Len(list)]
        BY <1>8, <2>1, <3>2
      <4>2. j - Len(list) \in 1 .. Len(made) /\ more[j] = made[j - Len(list)]
        BY <1>8, <2>1, <3>1, <3>2
      <4>3. i - Len(list) = j - Len(list)
        BY <1>4, <2>4, <4>1, <4>2
      <4> QED BY ONLY <1>8, <4>3, i \in 1 .. Len(more), j \in 1 .. Len(more)
    <3>3. CASE more[i].group # g
      <4>1. i \in 1 .. Len(list) /\ more[i] = list[i] /\ j \in 1 .. Len(list) /\ more[j] = list[j]
        BY <1>4, <1>8, <3>1, <3>3
      <4> QED BY <1>3, <2>4, <4>1 DEF ThreadsMade
    <3> QED BY <3>2, <3>3
  <2> QED BY <1>8, <2>2, <2>3, <2>4 DEF ThreadsMade
<1>13. InHandlers(us, more, handlerQueue, handlerLocks)
  <2>1. \A i \in 1 .. Len(more) : us[i].at # "handle"
    BY <1>10
  <2>2. handlerLocks \subseteq Lib!Handlers /\ \A h \in Lib!Handlers : h \notin handlerLocks
    BY <1>2, <1>3 DEF LibInv, InHandlers
  <2> QED BY <2>1, <2>2 DEF InHandlers
<1>14. MainComes(main', us, more, _running, handlerQueue, _state)
  <2>1. _state = 2
    BY <1>1 DEF LibInv, MainComes
  <2>2. Len(more) > 0 /\ Len(more) \in Nat
    BY ONLY <1>4, <1>8
  <2>3. CASE g = 1
    <3>1. main'.at = "start" /\ main'.k = 1
      BY <1>6, <2>3
    <3>2. 1 \in 1 .. Len(more)
      BY ONLY <2>2
    <3> QED BY <1>10, <2>1, <2>2, <3>1, <3>2 DEF MainComes, MainStates
  <2>4. CASE g # 1
    <3>1. main'.at = "create" /\ main'.k = g - 1
      BY <1>6, <2>4
    <3>2. g - 1 \in Lib!Groups /\ g - 1 \in Int
      BY <1>3, <2>4, Registered
    <3>3. ASSUME NEW i \in 1 .. Len(more) PROVE more[i].group > g - 1
      <4>1. more[i].group \in Int /\ (more[i].group > g \/ more[i].group = g)
        <5>1. more[i] \in ListEntries
          BY <1>8
        <5>2. more[i].group \in Int
          BY <5>1, Registered DEF ListEntries
        <5> QED BY <1>3, <1>4, <1>8, <5>2, SMTT(30)
      <4> QED BY ONLY <1>3, <4>1
    <3> QED BY <1>10, <2>1, <3>1, <3>2, <3>3 DEF MainComes, MainStates
  <2> QED BY <2>3, <2>4
<1>15. Died(aborted', main')
  BY <1>1 DEF Died
<1>16. MsgsPlaced(handlerQueue, handlerMsgs, handled, freedMsgs)
  BY DEF LibInv
<1> QED BY <1>1, <1>2, <1>11, <1>12, <1>13, <1>14, <1>15, <1>16 DEF LibInv

LEMMA LibStartsThread == LibInv /\ Lib!StartThread => LibInv'
<1> SUFFICES ASSUME LibInv, Lib!StartThread PROVE LibInv'
  OBVIOUS
<1>1. /\ aborted = "no" /\ main.at = "start"
      /\ UNCHANGED <<_threads_num, _threadlist, _index, handlerLocks, _state, handlerQueue,
                     handlerMsgs, handled, freedMsgs, aborted>>
  BY DEF Lib!StartThread, Lib!MainAt, Lib!lockVars, Lib!listVars
<1>2. PICK k, ts, list, us, x :
        /\ k = main.k /\ ts = thread /\ list = _threadlist /\ us = thread'
        /\ x = [ts[k] EXCEPT !.at = "loop"]
  OBVIOUS
<1>3. /\ k \in 1 .. Len(list) /\ ts \in Seq(LibThreads) /\ Len(ts) = Len(list)
      /\ _running \subseteq 1 .. Len(list) /\ Len(list) \in Nat
      /\ \A l \in k .. Len(list) : ts[l].at = "unborn"
  <2>1. Len(thread) \in Nat
    BY DEF LibInv, LibTypes
  <2> QED BY <1>1, <1>2, <2>1 DEF LibInv, LibTypes, MainComes
<1>4. us = [ts EXCEPT ![k] = x] /\ _running' = _running \cup {k}
      /\ main' = IF k = Len(list) THEN [at |-> "loop", k |-> 0] ELSE [at |-> "start", k |-> k + 1]
  BY <1>2 DEF Lib!StartThread, Lib!Goes
<1>5. us \in Seq(LibThreads) /\ Len(us) = Len(list) /\ OnlyMoves(us, ts, k, x, list)
  <2>1. ts[k] \in LibThreads
    BY <1>3
  <2>2. x \in LibThreads
    BY <1>2, <2>1 DEF LibThreads, ThreadStates
  <2>3. PICK T : T = LibThreads
    OBVIOUS
  <2>4. /\ us \in Seq(T) /\ Len(us) = Len(list) /\ us[k] = x
        /\ \A l \in 1 .. Len(list) : l # k => us[l] = ts[l]
    BY ONLY <1>3, <1>4, <2>2, <2>3
  <2> QED BY <1>3, <2>3, <2>4 DEF OnlyMoves
<1>6. x.at = "loop" /\ ts[k].at = "unborn"
  <2>1. ts[k] \in LibThreads
    BY <1>3
  <2> QED BY <1>2, <1>3, <2>1 DEF LibThreads
<1>7. us[k] = x /\ \A l \in 1 .. Len(list) : l # k => us[l] = ts[l]
  BY <1>5 DEF OnlyMoves
<1>8. LibTypes'
  <2>1. \A l \in 1 .. Len(list) : us[l].at = "try" => list[l].handler = Lib!None
    BY <1>2, <1>6, <1>7, ZenonT(40) DEF LibInv, LibTypes
  <2> QED BY <1>1, <1>2, <1>3, <1>4, <1>5, <2>1 DEF LibInv, LibTypes
<1>9. InHandlers(us, list, handlerQueue, handlerLocks)
  <2>1. InHandlers(ts, list, handlerQueue, handlerLocks) /\ ThreadsMade(list)
    BY <1>2 DEF LibInv
  <2>2. PICK q, locks : q = handlerQueue /\ locks = handlerLocks
    OBVIOUS
  <2>3. InHandlers(us, list, q, locks)
    BY <1>5, <1>6, <2>1, <2>2, ThreadLeaves
  <2> QED BY <2>2, <2>3
<1>10. MainComes(main', us, list, _running', handlerQueue, _state)
  <2>1. _state = 2
    BY <1>1 DEF LibInv, MainComes
  <2>2. CASE k = Len(list)
    <3>1. main'.at = "loop" /\ main'.k = 0
      BY <1>4, <2>2
    <3> QED BY <1>3, <2>1, <3>1 DEF MainComes, MainStates
  <2>3. CASE k # Len(list)
    <3>1. main'.at = "start" /\ main'.k = k + 1
      BY <1>4, <2>3
    <3>2. k + 1 \in 1 .. Len(list)
      BY <1>3, <2>3
    <3>3. ASSUME NEW l \in k + 1 .. Len(list) PROVE us[l].at = "unborn"
      <4>1. l \in k .. Len(list) /\ l # k /\ l \in 1 .. Len(list)
        BY <1>3
      <4> QED BY <1>3, <1>7, <4>1
    <3> QED BY <1>3, <2>1, <3>1, <3>2, <3>3 DEF MainComes, MainStates
  <2> QED BY <2>2, <2>3
<1>11. Died(aborted', main')
  BY <1>1 DEF Died
<1> QED BY <1>1, <1>2, <1>8, <1>9, <1>10, <1>11 DEF LibInv

LEMMA LibTimer == LibInv /\ Lib!ServerTimer => LibInv'
<1> SUFFICES ASSUME LibInv, Lib!ServerTimer PROVE LibInv'
  OBVIOUS
<1>1. /\ aborted = "no" /\ main.at = "loop" /\ Lib!Sends(handlerQueue)
      /\ UNCHANGED <<_threads_num, _threadlist, _index, handlerLocks, main, thread, _running, _state,
                     handled, freedMsgs>>
  BY DEF Lib!ServerTimer, Lib!MainAt, Lib!lockVars, Lib!listVars
<1>2. PICK q, m, p, n, calls, gone, a, b :
        /\ q = handlerQueue /\ m = handlerMsgs /\ p = handlerQueue' /\ n = handlerMsgs'
        /\ calls = handled /\ gone = freedMsgs /\ a = aborted /\ b = aborted'
  OBVIOUS
<1>3. Sending(q, m, p, n, a, b, 2)
  BY <1>1, <1>2 DEF Lib!Sends, LibInv, MainComes, Sending
<1>4. MsgsPlaced(q, m, calls, gone)
  BY <1>2 DEF LibInv
<1>5. /\ MsgsPlaced(p, n, calls, gone)
      /\ p \in [Lib!Handlers -> Seq(Lib!Msgs)]
      /\ \A h \in Lib!Handlers : Len(p[h]) >= Len(q[h])
      /\ b = a \/ (b = "assertion" /\ 2 = 3)
  BY ONLY <1>3, <1>4, SendsPlaces
<1>6. InHandlers(thread, _threadlist, p, handlerLocks)
  <2>1. PICK ts, list, locks : ts = thread /\ list = _threadlist /\ locks = handlerLocks
    OBVIOUS
  <2>2. ts \in Seq(LibThreads) /\ Len(ts) = Len(list) /\ InHandlers(ts, list, q, locks)
        /\ ThreadsMade(list) /\ q \in [Lib!Handlers -> Seq(Lib!Msgs)]
    BY <1>2, <2>1 DEF LibInv, LibTypes, MsgsPlaced
  <2>3. InHandlers(ts, list, p, locks)
    BY ONLY <1>5, <2>2, MessagesCome
  <2> QED BY <2>1, <2>3
<1>7. MainComes(main, thread, _threadlist, _running, p, _state)
  BY <1>1 DEF LibInv, MainComes
<1>8. Died(aborted', main)
  BY <1>1, <1>2, <1>5 DEF LibInv, Died
<1>9. LibTypes'
  BY <1>1 DEF LibInv, LibTypes
<1>10. ThreadsMade(_threadlist)
  BY DEF LibInv
<1> QED BY <1>1, <1>2, <1>5, <1>6, <1>7, <1>8, <1>9, <1>10 DEF LibInv

\* Steps of main that no thread and no message sees.
LEMMA LibMains ==
  ASSUME LibInv, aborted = "no",
         UNCHANGED <<_threads_num, _threadlist, _index, handlerLocks, thread, handlerQueue,
                     handlerMsgs, handled, freedMsgs>>,
         _running' \subseteq _running,
         MainComes(main, thread, _threadlist, _running, handlerQueue, _state)',
         Died(aborted, main)'
  PROVE  LibInv'
<1>1. LibTypes'
  BY DEF LibInv, LibTypes
<1> QED BY <1>1 DEF LibInv

LEMMA LibStops ==
  LibInv /\ (Lib!StopServer \/ Lib!StopThread \/ Lib!JoinThread \/ Lib!DestroyThreads) => LibInv'
<1> SUFFICES ASSUME LibInv, Lib!StopServer \/ Lib!StopThread \/ Lib!JoinThread \/ Lib!DestroyThreads
             PROVE  LibInv'
  OBVIOUS
<1> USE DEF Lib!MainAt, Lib!lockVars, Lib!listVars, Lib!Goes
<1>1. /\ aborted = "no" /\ Len(_threadlist) \in Nat /\ _running \subseteq 1 .. Len(_threadlist)
      /\ MainComes(main, thread, _threadlist, _running, handlerQueue, _state) /\ Died(aborted, main)
  <2>1. Len(thread) \in Nat
    BY DEF LibInv, LibTypes
  <2> QED BY <2>1 DEF LibInv, LibTypes, Lib!StopServer, Lib!StopThread, Lib!JoinThread, Lib!DestroyThreads
<1>2. CASE Lib!StopServer
  <2>1. /\ main.at = "loop" /\ main'.at = "stop" /\ main'.k = 1 /\ _state' = 3
        /\ UNCHANGED <<_threads_num, _threadlist, _index, handlerLocks, thread, _running, handlerQueue,
                       handlerMsgs, handled, freedMsgs, aborted>>
    BY <1>2 DEF Lib!StopServer
  <2>2. Len(_threadlist) > 0
    BY <1>1, <2>1 DEF MainComes
  <2>3. 1 \in 1 .. Len(_threadlist) /\ 1 .. 1 - 1 = {}
    BY <1>1, <2>2
  <2>4. MainComes(main, thread, _threadlist, _running, handlerQueue, _state)'
    BY <2>1, <2>2, <2>3 DEF MainComes, MainStates
  <2>5. Died(aborted, main)'
    BY <1>1, <2>1 DEF Died
  <2> QED BY <1>1, <2>1, <2>4, <2>5, LibMains
<1>3. CASE Lib!StopThread
  <2>1. PICK k : k = main.k
    OBVIOUS
  <2>2. /\ main.at = "stop" /\ _running' = _running \ {k}
        /\ main' = IF k = Len(_threadlist) THEN [at |-> "join", k |-> 1] ELSE [at |-> "stop", k |-> k + 1]
        /\ UNCHANGED <<_threads_num, _threadlist, _index, handlerLocks, thread, _state, handlerQueue,
                       handlerMsgs, handled, freedMsgs, aborted>>
    BY <1>3, <2>1 DEF Lib!StopThread
  <2>3. /\ k \in 1 .. Len(_threadlist) /\ Len(_threadlist) > 0 /\ _state = 3
        /\ \A l \in 1 .. k - 1 : l \notin _running
    BY <1>1, <2>1, <2>2 DEF MainComes
  <2>4. \A l \in 1 .. k : l \notin _running'
    BY <1>1, <2>2, <2>3
  <2>5. CASE k = Len(_threadlist)
    <3>1. main'.at = "join" /\ main'.k = 1 /\ 1 \in 1 .. Len(_threadlist) /\ 1 .. 1 - 1 = {}
      BY <1>1, <2>2, <2>3, <2>5
    <3>2. _running' = {}
      BY <1>1, <2>2, <2>4, <2>5
    <3>3. MainComes(main, thread, _threadlist, _running, handlerQueue, _state)'
      BY <2>2, <2>3, <3>1, <3>2 DEF MainComes, MainStates
    <3>4. Died(aborted, main)'
      BY <1>1, <2>2 DEF Died
    <3> QED BY <1>1, <2>2, <3>3, <3>4, LibMains
  <2>6. CASE k # Len(_threadlist)
    <3>1. main'.at = "stop" /\ main'.k = k + 1 /\ k + 1 \in 1 .. Len(_threadlist) /\ k + 1 - 1 = k
      BY <1>1, <2>2, <2>3, <2>6
    <3>3. MainComes(main, thread, _threadlist, _running, handlerQueue, _state)'
      BY <2>2, <2>3, <2>4, <3>1 DEF MainComes, MainStates
    <3>4. Died(aborted, main)'
      BY <1>1, <2>2 DEF Died
    <3> QED BY <1>1, <2>2, <3>3, <3>4, LibMains
  <2> QED BY <2>5, <2>6
<1>4. CASE Lib!JoinThread
  <2>1. PICK k : k = main.k
    OBVIOUS
  <2>2. /\ main.at = "join" /\ thread[k].at = "end"
        /\ main' = IF k = Len(_threadlist) THEN [at |-> "uninit", k |-> 0] ELSE [at |-> "join", k |-> k + 1]
        /\ UNCHANGED <<_threads_num, _threadlist, _index, handlerLocks, thread, _running, _state,
                       handlerQueue, handlerMsgs, handled, freedMsgs, aborted>>
    BY <1>4, <2>1 DEF Lib!JoinThread, Lib!Ended
  <2>3. /\ k \in 1 .. Len(_threadlist) /\ Len(_threadlist) > 0 /\ _state = 3 /\ _running = {}
        /\ \A l \in 1 .. k - 1 : thread[l].at = "end"
    BY <1>1, <2>1, <2>2 DEF MainComes
  <2>4. ASSUME NEW l \in 1 .. k PROVE thread[l].at = "end"
    <3>1. l = k \/ l \in 1 .. k - 1
      BY <1>1, <2>3
    <3> QED BY <2>2, <2>3, <3>1
  <2>5. CASE k = Len(_threadlist)
    <3>1. main'.at = "uninit" /\ main'.k = 0
      BY <2>2, <2>5
    <3>3. MainComes(main, thread, _threadlist, _running, handlerQueue, _state)'
      BY <2>2, <2>3, <2>4, <2>5, <3>1 DEF MainComes, MainStates
    <3>4. Died(aborted, main)'
      BY <1>1, <2>2 DEF Died
    <3> QED BY <1>1, <2>2, <3>3, <3>4, LibMains
  <2>6. CASE k # Len(_threadlist)
    <3>1. main'.at = "join" /\ main'.k = k + 1 /\ k + 1 \in 1 .. Len(_threadlist) /\ k + 1 - 1 = k
      BY <1>1, <2>2, <2>3, <2>6
    <3>3. MainComes(main, thread, _threadlist, _running, handlerQueue, _state)'
      BY <2>2, <2>3, <2>4, <3>1 DEF MainComes, MainStates
    <3>4. Died(aborted, main)'
      BY <1>1, <2>2 DEF Died
    <3> QED BY <1>1, <2>2, <3>3, <3>4, LibMains
  <2> QED BY <2>5, <2>6
<1>5. CASE Lib!DestroyThreads
  <2>1. /\ main.at = "uninit"
        /\ UNCHANGED <<_threads_num, _threadlist, _index, handlerLocks, thread, _running, _state,
                       handlerQueue, handlerMsgs, handled, freedMsgs>>
    BY <1>5 DEF Lib!DestroyThreads
  <2>2. CASE aborted' = "threads" /\ main' = main
    <3>1. MainComes(main, thread, _threadlist, _running, handlerQueue, _state)'
      BY <1>1, <2>1, <2>2 DEF MainComes
    <3>2. Died(aborted, main)'
      BY <2>1, <2>2 DEF Died
    <3> QED BY <1>1, <2>1, <3>1, <3>2, LibMains
  <2>3. CASE main' = [at |-> "handlers", k |-> 1] /\ aborted' = aborted
    <3>1. main'.at = "handlers" /\ main'.k = 1 /\ 1 \in Lib!Handlers /\ \A h \in Lib!Handlers : ~(h < 1)
      BY <2>3, Registered
    <3>2. MainComes(main, thread, _threadlist, _running, handlerQueue, _state)'
      BY <1>1, <2>1, <3>1 DEF MainComes, MainStates
    <3>3. Died(aborted, main)'
      BY <1>1, <2>3 DEF Died
    <3> QED BY <1>1, <2>1, <3>2, <3>3, LibMains
  <2> QED BY <1>5, <2>2, <2>3 DEF Lib!DestroyThreads
<1> QED BY <1>2, <1>3, <1>4, <1>5

LEMMA LibFrees == LibInv /\ Lib!DestroyHandler => LibInv'
<1> SUFFICES ASSUME LibInv, Lib!DestroyHandler PROVE LibInv'
  OBVIOUS
<1>1. PICK h, q, p, gone, rest :
        h = main.k /\ q = handlerQueue /\ p = handlerQueue' /\ gone = freedMsgs /\ rest = freedMsgs'
  OBVIOUS
<1>2. /\ main.at = "handlers" /\ p = [q EXCEPT ![h] = <<>>] /\ rest = gone \cup Range(q[h])
      /\ main' = IF h + 1 \in Lib!Handlers THEN [at |-> "handlers", k |-> h + 1] ELSE [at |-> "end", k |-> 0]
      /\ UNCHANGED <<_threads_num, _threadlist, _index, handlerLocks, thread, _running, _state,
                     handlerMsgs, handled, aborted>>
  BY <1>1 DEF Lib!DestroyHandler, Lib!MainAt, Lib!Goes, Lib!listVars, Lib!lockVars, Lib!Range, Range
<1>3. /\ h \in Lib!Handlers /\ \A g \in Lib!Handlers : g < h => q[g] = <<>>
      /\ _running = {} /\ \A k \in 1 .. Len(_threadlist) : thread[k].at = "end"
      /\ Len(_threadlist) > 0 /\ _state = 3
  BY <1>1, <1>2 DEF LibInv, MainComes
<1>4. MsgsPlaced(q, handlerMsgs, handled, gone) /\ q \in [Lib!Handlers -> Seq(Lib!Msgs)]
  BY <1>1 DEF LibInv, MsgsPlaced
<1>5. MsgsPlaced(p, handlerMsgs, handled, rest)
  <2>1. PICK m, calls : m = handlerMsgs /\ calls = handled
    OBVIOUS
  <2>2. MsgsPlaced(q, m, calls, gone)
    BY <1>4, <2>1
  <2>3. MsgsPlaced(p, m, calls, rest)
    BY ONLY <1>2, <1>3, <2>2, FreePlaces, Zenon
  <2> QED BY <2>1, <2>3
<1>6. p[h] = <<>> /\ \A g \in Lib!Handlers : g # h => p[g] = q[g]
  BY <1>2, <1>3, <1>4
<1>7. LibTypes'
  BY <1>2 DEF LibInv, LibTypes
<1>8. InHandlers(thread, _threadlist, p, handlerLocks)
  BY <1>3 DEF LibInv, InHandlers
<1>9. MainComes(main', thread, _threadlist, _running, p, _state)
  <2>1. \A g \in Lib!Handlers : g \in Nat \ {0} /\ 1 .. g \subseteq Lib!Handlers
    BY Registered
  <2>2. CASE h + 1 \in Lib!Handlers
    <3>1. main'.at = "handlers" /\ main'.k = h + 1 /\ h + 1 \in Int
      BY <1>2, <1>3, <2>1, <2>2
    <3>2. ASSUME NEW g \in Lib!Handlers, g < h + 1 PROVE p[g] = <<>>
      <4>1. g < h \/ g = h
        BY <1>3, <2>1, <3>2
      <4> QED BY <1>3, <1>6, <4>1
    <3> QED BY <1>3, <2>2, <3>1, <3>2 DEF MainComes, MainStates
  <2>3. CASE h + 1 \notin Lib!Handlers
    <3>1. main'.at = "end" /\ main'.k = 0
      BY <1>2, <2>3
    <3>2. ASSUME NEW g \in Lib!Handlers PROVE p[g] = <<>>
      <4>1. ~(h + 1 \in 1 .. g)
        BY <2>1, <2>3
      <4>2. g < h \/ g = h
        BY <1>3, <2>1, <4>1
      <4> QED BY <1>3, <1>6, <4>2
    <3> QED BY <1>3, <3>1, <3>2 DEF MainComes, MainStates
  <2> QED BY <2>2, <2>3
<1>10. Died(aborted, main')
  BY <1>2 DEF LibInv, Died
<1>11. ThreadsMade(_threadlist)
  BY DEF LibInv
<1> QED BY <1>1, <1>2, <1>5, <1>7, <1>8, <1>9, <1>10, <1>11 DEF LibInv

-----------------------------------------------------------------------------
\* A step of thread k, which leaves it as x.
LEMMA LibThreadSteps ==
  ASSUME LibInv, NEW k \in 1 .. Len(_threadlist), NEW x \in LibThreads,
         thread' = [thread EXCEPT ![k] = x], thread[k].at \notin {"unborn", "end"},
         x.at = "try" => _threadlist[k].handler = Lib!None,
         UNCHANGED <<_threads_num, _threadlist, main, _running, _state>>,
         _index' \in [Lib!Groups -> Nat], \A g \in Lib!Groups : _index'[g] < Len(HandlersOf[g]),
         MsgsPlaced(handlerQueue', handlerMsgs', handled', freedMsgs'),
         \A us : OnlyMoves(us, thread, k, x, _threadlist)
                   => InHandlers(us, _threadlist, handlerQueue', handlerLocks'),
         \/ aborted' = aborted
         \/ aborted' = "assertion" /\ _state = 3
  PROVE  LibInv'
<1>1. PICK ts, list, us : ts = thread /\ list = _threadlist /\ us = thread'
  OBVIOUS
<1>2. /\ ts \in Seq(LibThreads) /\ Len(ts) = Len(list) /\ k \in 1 .. Len(list)
      /\ us = [ts EXCEPT ![k] = x]
  BY <1>1 DEF LibInv, LibTypes
<1>3. us \in Seq(LibThreads) /\ Len(us) = Len(list) /\ OnlyMoves(us, ts, k, x, list) /\ Len(list) \in Nat
  <2>1. PICK T : T = LibThreads
    OBVIOUS
  <2>2. /\ us \in Seq(T) /\ Len(us) = Len(list) /\ us[k] = x /\ Len(list) \in Nat
        /\ \A l \in 1 .. Len(list) : l # k => us[l] = ts[l]
    BY ONLY <1>2, <2>1, x \in LibThreads
  <2> QED BY <1>2, <2>1, <2>2 DEF OnlyMoves
<1>4. us[k] = x /\ \A l \in 1 .. Len(list) : l # k => us[l] = ts[l]
  BY <1>3 DEF OnlyMoves
<1>5. LibTypes'
  <2>1. \A l \in 1 .. Len(list) : us[l].at = "try" => list[l].handler = Lib!None
    BY <1>1, <1>4 DEF LibInv, LibTypes
  <2> QED BY <1>1, <1>3, <2>1 DEF LibInv, LibTypes
<1>6. InHandlers(us, list, handlerQueue', handlerLocks')
  BY <1>1, <1>3
<1>7. MainComes(main, us, list, _running, handlerQueue', _state) /\ main.at \in {"start", "loop", "stop", "join"}
  <2>1. PICK m, running, q, p, state :
          m = main /\ running = _running /\ q = handlerQueue /\ p = handlerQueue' /\ state = _state
    OBVIOUS
  <2>2. MainComes(m, ts, list, running, q, state) /\ ts[k].at \notin {"unborn", "end"}
    BY <1>1, <2>1 DEF LibInv
  <2>3. MainComes(m, us, list, running, p, state) /\ m.at \in {"start", "loop", "stop", "join"}
    BY ONLY <1>3, <2>2, MainLets
  <2> QED BY <2>1, <2>3
<1>8. Died(aborted', main)
  BY <1>7 DEF Died, LibInv, MainComes
<1>9. ThreadsMade(list)
  BY <1>1 DEF LibInv
<1> QED BY <1>1, <1>5, <1>6, <1>7, <1>8, <1>9 DEF LibInv

\* What is known of a thread and where it stands.
LEMMA LibThreadKnown ==
  ASSUME LibInv, NEW k \in 1 .. Len(_threadlist)
  PROVE  /\ thread[k] \in LibThreads /\ _threadlist[k] \in ListEntries
         /\ Len(thread) = Len(_threadlist) /\ thread \in Seq(LibThreads)
         /\ _threadlist[k].group \in Lib!Groups
         /\ _threadlist[k].handler # Lib!None => _threadlist[k].handler \in HandlersIn(_threadlist[k].group)
         /\ thread[k].at = "handle" =>
              /\ thread[k].handler \in HandlersIn(_threadlist[k].group)
              /\ thread[k].handler \in Lib!Handlers
              /\ thread[k].batch <= Len(handlerQueue[thread[k].handler])
         /\ _index \in [Lib!Groups -> Nat] /\ \A g \in Lib!Groups : _index[g] < Len(HandlersOf[g])
         /\ MsgsPlaced(handlerQueue, handlerMsgs, handled, freedMsgs)
         /\ handlerQueue \in [Lib!Handlers -> Seq(Lib!Msgs)]
<1>1. /\ thread \in Seq(LibThreads) /\ Len(thread) = Len(_threadlist) /\ _threadlist \in Seq(ListEntries)
      /\ MsgsPlaced(handlerQueue, handlerMsgs, handled, freedMsgs)
      /\ _index \in [Lib!Groups -> Nat] /\ \A g \in Lib!Groups : _index[g] < Len(HandlersOf[g])
  BY DEF LibInv, LibTypes, ThreadsMade
<1>2. thread[k] \in LibThreads /\ _threadlist[k] \in ListEntries
  BY <1>1
<1>3. _threadlist[k].group \in Lib!Groups
  BY <1>2 DEF ListEntries
<1>4. _threadlist[k].handler # Lib!None => _threadlist[k].handler \in HandlersIn(_threadlist[k].group)
  BY DEF LibInv, ThreadsMade
<1>5. ASSUME thread[k].at = "handle"
      PROVE  /\ thread[k].handler \in HandlersIn(_threadlist[k].group)
             /\ thread[k].handler \in Lib!Handlers
             /\ thread[k].batch <= Len(handlerQueue[thread[k].handler])
  <2>1. /\ thread[k].handler \in HandlersIn(_threadlist[k].group)
        /\ thread[k].batch <= Len(handlerQueue[thread[k].handler])
    BY <1>5 DEF LibInv, InHandlers
  <2> QED BY <1>3, <2>1, Registered
<1>6. handlerQueue \in [Lib!Handlers -> Seq(Lib!Msgs)]
  BY <1>1 DEF MsgsPlaced
<1> QED BY <1>1, <1>2, <1>3, <1>4, <1>5, <1>6

\* A thread that comes to a handler, and one that goes on without one.
LEMMA LibEnters ==
  ASSUME LibInv, NEW k \in 1 .. Len(_threadlist), NEW h, NEW n \in Int,
         Lib!Enters(k, h, n), thread[k].at \in {"loop", "try"},
         h \in HandlersIn(_threadlist[k].group),
         IF _threadlist[k].handler # Lib!None
         THEN h = _threadlist[k].handler /\ handlerLocks' = handlerLocks
         ELSE h \notin handlerLocks /\ handlerLocks' = handlerLocks \cup {h},
         UNCHANGED <<_threads_num, _threadlist, main, _running, _state, handlerQueue, handlerMsgs,
                     handled, freedMsgs, aborted>>,
         _index' \in [Lib!Groups -> Nat], \A g \in Lib!Groups : _index'[g] < Len(HandlersOf[g])
  PROVE  LibInv'
<1>1. PICK x : x = [at |-> "handle", handler |-> h, batch |-> Len(handlerQueue[h]), tries |-> n]
  OBVIOUS
<1>2. PICK ts, list, q, locks, after :
        ts = thread /\ list = _threadlist /\ q = handlerQueue /\ locks = handlerLocks /\ after = handlerLocks'
  OBVIOUS
<1>3. thread' = [thread EXCEPT ![k] = x]
  BY <1>1 DEF Lib!Enters
<1>4. h \in Lib!Handlers
  BY LibThreadKnown, Registered
<1>5. Len(q[h]) \in Nat
  <2>1. q[h] \in Seq(Lib!Msgs)
    BY <1>2, <1>4, LibThreadKnown
  <2> QED BY <2>1
<1>6. x \in LibThreads /\ x.at = "handle" /\ x.handler = h /\ x.batch = Len(q[h])
  BY <1>1, <1>2, <1>4, <1>5 DEF LibThreads, ThreadStates
<1>7. ASSUME NEW us, OnlyMoves(us, ts, k, x, list) PROVE InHandlers(us, list, q, after)
  <2>1. InHandlers(ts, list, q, locks) /\ ThreadsMade(list)
    BY <1>2 DEF LibInv
  <2>2. /\ ts[k].at # "handle" /\ x.handler \in HandlersIn(list[k].group) /\ x.batch <= Len(q[x.handler])
        /\ IF list[k].handler # Lib!None
           THEN x.handler = list[k].handler /\ after = locks
           ELSE x.handler \notin locks /\ after = locks \cup {x.handler}
    BY <1>2, <1>5, <1>6
  <2> QED BY ONLY <1>6, <1>7, <2>1, <2>2, ThreadEnters
<1>8. MsgsPlaced(handlerQueue', handlerMsgs', handled', freedMsgs')
  BY DEF LibInv
<1>9. \A us : OnlyMoves(us, thread, k, x, _threadlist)
                => InHandlers(us, _threadlist, handlerQueue', handlerLocks')
  BY <1>2, <1>7
<1> QED BY <1>3, <1>6, <1>8, <1>9, LibThreadSteps

LEMMA LibGoesOn ==
  ASSUME LibInv, NEW k \in 1 .. Len(_threadlist), NEW x \in LibThreads,
         thread' = [thread EXCEPT ![k] = x], thread[k].at \in {"loop", "try"}, x.at # "handle",
         x.at = "try" => _threadlist[k].handler = Lib!None,
         UNCHANGED <<_threads_num, _threadlist, main, _running, _state, handlerQueue, handlerMsgs,
                     handled, freedMsgs, aborted, handlerLocks>>,
         _index' \in [Lib!Groups -> Nat], \A g \in Lib!Groups : _index'[g] < Len(HandlersOf[g])
  PROVE  LibInv'
<1>1. PICK ts, list, q, locks : ts = thread /\ list = _threadlist /\ q = handlerQueue /\ locks = handlerLocks
  OBVIOUS
<1>2. ASSUME NEW us, OnlyMoves(us, ts, k, x, list) PROVE InHandlers(us, list, q, locks)
  <2>1. InHandlers(ts, list, q, locks) /\ ThreadsMade(list)
    BY <1>1 DEF LibInv
  <2>2. IF ts[k].at = "handle" /\ list[k].handler = Lib!None
        THEN locks = locks \ {ts[k].handler} ELSE locks = locks
    BY <1>1
  <2>3. x.at # "handle"
    OBVIOUS
  <2> QED BY ONLY <1>2, <2>1, <2>2, <2>3, ThreadLeaves
<1>3. MsgsPlaced(handlerQueue', handlerMsgs', handled', freedMsgs')
  BY DEF LibInv
<1>4. \A us : OnlyMoves(us, thread, k, x, _threadlist)
                => InHandlers(us, _threadlist, handlerQueue', handlerLocks')
  BY <1>1, <1>2
<1> QED BY <1>3, <1>4, LibThreadSteps

LEMMA LibDoHandler ==
  ASSUME LibInv, NEW k, Lib!DoHandler(k) PROVE LibInv'
<1> USE DEF Lib!DoHandler, Lib!ThreadAt, Lib!Shares, Lib!lockVars, Lib!listVars
<1>1. k \in 1 .. Len(_threadlist)
  <2>1. _threadlist \in Seq(ListEntries)
    BY DEF LibInv, ThreadsMade
  <2> QED BY <2>1 DEF Lib!Threads
<1>2. PICK h : h = _threadlist[k].handler
  OBVIOUS
<1>3. h # Lib!None /\ h \in HandlersIn(_threadlist[k].group)
  BY <1>1, <1>2, LibThreadKnown
<1>4. Lib!Enters(k, h, 0)
  BY <1>2
<1>5. _index' \in [Lib!Groups -> Nat] /\ \A g \in Lib!Groups : _index'[g] < Len(HandlersOf[g])
  BY <1>1, LibThreadKnown
<1> QED BY <1>1, <1>2, <1>3, <1>4, <1>5, LibEnters

LEMMA LibTryHandler ==
  ASSUME LibInv, NEW k, Lib!TryHandler(k) PROVE LibInv'
<1> USE DEF Lib!ThreadAt, Lib!Shares, Lib!listVars
<1>1. PICK g, n, h :
        /\ g = _threadlist[k].group /\ n = (IF thread[k].at = "loop" THEN 0 ELSE thread[k].tries)
        /\ h = HandlersOf[g][_index[g] + 1]
  OBVIOUS
<1>2. /\ k \in Lib!Threads /\ thread[k].at \in {"loop", "try"}
      /\ thread[k].at = "loop" => _threadlist[k].handler = Lib!None
      /\ _index' = [_index EXCEPT ![g] = (_index[g] + 1) % Len(HandlersOf[g])]
      /\ IF h \in handlerLocks
         THEN /\ thread' = [thread EXCEPT ![k].at = "try", ![k].tries = n + 1]
              /\ handlerLocks' = handlerLocks
         ELSE handlerLocks' = handlerLocks \cup {h} /\ Lib!Enters(k, h, n + 1)
      /\ UNCHANGED <<_threads_num, _threadlist, main, _running, _state, handlerQueue, handlerMsgs,
                     handled, freedMsgs, aborted>>
  BY <1>1 DEF Lib!TryHandler, Lib!Locked
<1>3. k \in 1 .. Len(_threadlist)
  <2>1. _threadlist \in Seq(ListEntries)
    BY DEF LibInv, ThreadsMade
  <2> QED BY <1>2, <2>1 DEF Lib!Threads
<1>4. _threadlist[k].handler = Lib!None
  BY <1>2, <1>3 DEF LibInv, LibTypes
<1>5. /\ g \in Lib!Groups /\ thread[k] \in LibThreads
      /\ _index \in [Lib!Groups -> Nat] /\ \A f \in Lib!Groups : _index[f] < Len(HandlersOf[f])
  BY <1>1, <1>3, LibThreadKnown
<1>6. n \in Int
  BY <1>1, <1>5 DEF LibThreads
<1>7. PICK i, c : i = _index[g] /\ c = Len(HandlersOf[g])
  OBVIOUS
<1>8. i \in Nat /\ c \in Nat \ {0} /\ i < c
  BY <1>5, <1>7, Registered
<1>9. h \in HandlersIn(g)
  <2>1. i + 1 \in 1 .. c
    BY ONLY <1>8
  <2> QED BY <1>1, <1>5, <1>7, <2>1, Registered
<1>10. ((i + 1) % c) \in Nat /\ ((i + 1) % c) < c
  <2>1. i + 1 < c \/ i + 1 = c
    BY ONLY <1>8
  <2> QED BY ONLY <1>8, <2>1
<1>11. _index' \in [Lib!Groups -> Nat] /\ \A f \in Lib!Groups : _index'[f] < Len(HandlersOf[f])
  <2>1. PICK r : r = (i + 1) % c
    OBVIOUS
  <2>2. _index' = [_index EXCEPT ![g] = r] /\ r \in Nat /\ r < Len(HandlersOf[g])
    BY <1>2, <1>7, <1>10, <2>1
  <2> QED BY ONLY <1>5, <2>2
<1>12. CASE h \in handlerLocks
  <2>1. PICK x : x = [thread[k] EXCEPT !.at = "try", !.tries = n + 1]
    OBVIOUS
  <2>2. x \in LibThreads /\ x.at = "try"
    <3>1. PICK r, m : r = thread[k] /\ m = n + 1
      OBVIOUS
    <3>2. r \in LibThreads /\ m \in Int /\ x = [r EXCEPT !.at = "try", !.tries = m]
      BY <1>5, <1>6, <2>1, <3>1
    <3> QED BY ONLY <3>2 DEF LibThreads, ThreadStates
  <2>3. thread' = [thread EXCEPT ![k] = x]
    BY <1>2, <1>3, <1>12, <2>1
  <2>4. handlerLocks' = handlerLocks
    BY <1>2, <1>12
  <2> QED BY <1>2, <1>3, <1>4, <1>11, <2>2, <2>3, <2>4, LibGoesOn
<1>13. CASE h \notin handlerLocks
  <2>1. Lib!Enters(k, h, n + 1) /\ handlerLocks' = handlerLocks \cup {h} /\ n + 1 \in Int
    BY <1>2, <1>6, <1>13
  <2> QED BY <1>1, <1>2, <1>3, <1>4, <1>9, <1>11, <1>13, <2>1, LibEnters
<1> QED BY <1>12, <1>13

LEMMA LibRests ==
  ASSUME LibInv, NEW k, Lib!RoundEnds(k) \/ Lib!ThreadEnds(k) PROVE LibInv'
<1> USE DEF Lib!ThreadAt, Lib!lockVars, Lib!listVars
<1>1. k \in 1 .. Len(_threadlist)
  <2>1. _threadlist \in Seq(ListEntries)
    BY DEF LibInv, ThreadsMade
  <2> QED BY <2>1 DEF Lib!Threads, Lib!RoundEnds, Lib!ThreadEnds
<1>2. _index' \in [Lib!Groups -> Nat] /\ \A g \in Lib!Groups : _index'[g] < Len(HandlersOf[g])
  BY <1>1, LibThreadKnown DEF Lib!RoundEnds, Lib!ThreadEnds
<1>3. PICK x : x = IF thread[k].at = "try" THEN [Lib!Unborn EXCEPT !.at = "loop"]
                                           ELSE [thread[k] EXCEPT !.at = "end"]
  OBVIOUS
<1>4. x \in LibThreads /\ x.at \in {"loop", "end"}
  BY <1>1, <1>3, LibThreadKnown DEF LibThreads, ThreadStates, Lib!Unborn
<1>5. thread' = [thread EXCEPT ![k] = x] /\ thread[k].at \in {"loop", "try"}
  BY <1>3 DEF Lib!RoundEnds, Lib!ThreadEnds
<1>6. UNCHANGED <<_threads_num, _threadlist, main, _running, _state, handlerQueue, handlerMsgs,
                  handled, freedMsgs, aborted, handlerLocks>>
  BY DEF Lib!RoundEnds, Lib!ThreadEnds
<1> QED BY <1>1, <1>2, <1>4, <1>5, <1>6, LibGoesOn

LEMMA LibDoMsg ==
  ASSUME LibInv, NEW k, Lib!DoMsg(k) PROVE LibInv'
<1> USE DEF Lib!ThreadAt, Lib!listVars, Lib!lockVars
<1>1. PICK h, q, m, p, n, calls, more, gone, a, b :
        /\ h = thread[k].handler /\ q = handlerQueue /\ m = handlerMsgs /\ p = handlerQueue'
        /\ n = handlerMsgs' /\ calls = handled /\ more = handled' /\ gone = freedMsgs
        /\ a = aborted /\ b = aborted'
  OBVIOUS
<1>2. PICK head, rest : head = Head(q[h]) /\ rest = [q EXCEPT ![h] = Tail(q[h])]
  OBVIOUS
<1>3. PICK x : x = [thread[k] EXCEPT !.batch = thread[k].batch - 1]
  OBVIOUS
<1>4. /\ k \in Lib!Threads /\ thread[k].at = "handle" /\ thread[k].batch > 0
      /\ thread' = [thread EXCEPT ![k] = x]
      /\ more = [calls EXCEPT ![head] = calls[head] + 1]
      /\ UNCHANGED <<_threads_num, _threadlist, main, _running, _state, _index, handlerLocks, freedMsgs>>
  BY <1>1, <1>2, <1>3 DEF Lib!DoMsg
<1>5. PICK state : state = _state /\ Sending(rest, m, p, n, a, b, state)
  BY <1>1, <1>2 DEF Lib!DoMsg, Lib!Sends, Sending
<1>6. k \in 1 .. Len(_threadlist)
  <2>1. _threadlist \in Seq(ListEntries)
    BY DEF LibInv, ThreadsMade
  <2> QED BY <1>4, <2>1 DEF Lib!Threads
<1>7. /\ thread[k] \in LibThreads /\ thread \in Seq(LibThreads) /\ Len(thread) = Len(_threadlist)
      /\ h \in Lib!Handlers /\ thread[k].batch <= Len(q[h])
      /\ MsgsPlaced(q, m, calls, gone) /\ q \in [Lib!Handlers -> Seq(Lib!Msgs)]
      /\ _index' \in [Lib!Groups -> Nat] /\ \A g \in Lib!Groups : _index'[g] < Len(HandlersOf[g])
  BY <1>1, <1>4, <1>6, LibThreadKnown
<1>8. q[h] # <<>>
  <2>1. thread[k].batch \in Int
    BY <1>7 DEF LibThreads
  <2>2. PICK s, c, M : s = q[h] /\ c = thread[k].batch /\ M = Lib!Msgs
    OBVIOUS
  <2>3. s \in Seq(M) /\ c \in Int /\ c > 0 /\ c <= Len(s)
    BY <1>4, <1>7, <2>1, <2>2
  <2>4. s # <<>>
    BY ONLY <2>3
  <2> QED BY <2>2, <2>4
<1>9. MsgsPlaced(rest, m, more, gone) /\ OneLess(rest, q, h)
  <2>1. TakesFirst(q, h, head, rest, calls, more)
    BY <1>2, <1>4, <1>8 DEF TakesFirst
  <2>2. MsgsPlaced(q, m, calls, gone) /\ h \in Lib!Handlers
    BY <1>7
  <2> QED BY ONLY <2>1, <2>2, TakePlaces
<1>10. /\ MsgsPlaced(p, n, more, gone)
       /\ p \in [Lib!Handlers -> Seq(Lib!Msgs)]
       /\ \A g \in Lib!Handlers : Len(p[g]) >= Len(rest[g])
       /\ b = a \/ (b = "assertion" /\ _state = 3)
  <2>1. MsgsPlaced(rest, m, more, gone) /\ Sending(rest, m, p, n, a, b, state)
    BY <1>5, <1>9
  <2>2. /\ MsgsPlaced(p, n, more, gone)
        /\ p \in [Lib!Handlers -> Seq(Lib!Msgs)]
        /\ \A g \in Lib!Handlers : Len(p[g]) >= Len(rest[g])
        /\ b = a \/ (b = "assertion" /\ state = 3)
    BY ONLY <2>1, SendsPlaces
  <2> QED BY <1>5, <2>2
<1>11. ASSUME NEW g \in Lib!Handlers
       PROVE  Len(p[g]) >= Len(q[g]) - (IF g = h THEN 1 ELSE 0)
  <2>1. Len(q[g]) \in Int /\ Len(p[g]) \in Int /\ Len(p[g]) >= Len(rest[g])
    <3>1. q[g] \in Seq(Lib!Msgs) /\ p[g] \in Seq(Lib!Msgs)
      BY <1>7, <1>10
    <3> QED BY <1>10, <3>1
  <2>2. CASE g = h
    BY ONLY <1>9, <2>1, <2>2 DEF OneLess
  <2>3. CASE g # h
    <3>1. rest[g] = q[g]
      BY <1>9, <2>3 DEF OneLess
    <3> QED BY ONLY <2>1, <2>3, <3>1
  <2> QED BY <2>2, <2>3
<1>12. x \in LibThreads /\ x.at = "handle"
  <2>1. PICK r, c : r = thread[k] /\ c = r.batch - 1
    OBVIOUS
  <2>2. r \in LibThreads /\ r.at = "handle" /\ c \in Int /\ x = [r EXCEPT !.batch = c]
    BY <1>3, <1>4, <1>7, <2>1 DEF LibThreads
  <2> QED BY ONLY <2>2 DEF LibThreads, ThreadStates
<1>13. ASSUME NEW us, OnlyMoves(us, thread, k, x, _threadlist)
       PROVE  InHandlers(us, _threadlist, p, handlerLocks)
  <2>1. PICK ts, list, locks : ts = thread /\ list = _threadlist /\ locks = handlerLocks
    OBVIOUS
  <2>2. /\ ts \in Seq(LibThreads) /\ Len(ts) = Len(list)
        /\ InHandlers(ts, list, q, locks) /\ ThreadsMade(list)
        /\ OnlyMoves(us, ts, k, x, list)
        /\ ts[k].at = "handle" /\ x = [ts[k] EXCEPT !.batch = ts[k].batch - 1]
    BY <1>1, <1>3, <1>4, <1>7, <1>13, <2>1 DEF LibInv
  <2>3. \A g \in Lib!Handlers : Len(p[g]) >= Len(q[g]) - (IF g = ts[k].handler THEN 1 ELSE 0)
    BY <1>1, <1>11, <2>1
  <2>4. q \in [Lib!Handlers -> Seq(Lib!Msgs)] /\ p \in [Lib!Handlers -> Seq(Lib!Msgs)]
    BY <1>7, <1>10
  <2>5. InHandlers(us, list, p, locks)
    BY ONLY <2>2, <2>3, <2>4, ThreadTakes, Zenon
  <2> QED BY <2>1, <2>5
<1>14. \A us : OnlyMoves(us, thread, k, x, _threadlist)
                => InHandlers(us, _threadlist, handlerQueue', handlerLocks')
  BY <1>1, <1>4, <1>13
<1>15. MsgsPlaced(handlerQueue', handlerMsgs', handled', freedMsgs')
  BY <1>1, <1>4, <1>10
<1>16. aborted' = aborted \/ (aborted' = "assertion" /\ _state = 3)
  BY <1>1, <1>10
<1> QED BY <1>4, <1>6, <1>7, <1>12, <1>14, <1>15, <1>16, LibThreadSteps

LEMMA LibHandlerProc ==
  ASSUME LibInv, NEW k, Lib!HandlerProc(k) PROVE LibInv'
<1> USE DEF Lib!ThreadAt, Lib!listVars
<1>1. PICK h, q, m, p, n, calls, gone, a, b, state :
        /\ h = thread[k].handler /\ q = handlerQueue /\ m = handlerMsgs /\ p = handlerQueue'
        /\ n = handlerMsgs' /\ calls = handled /\ gone = freedMsgs
        /\ a = aborted /\ b = aborted' /\ state = _state
  OBVIOUS
<1>2. PICK x : x = IF Lib!Shares(k) /\ thread[k].tries < WaitTries
                   THEN [Lib!Unborn EXCEPT !.at = "try", !.tries = thread[k].tries]
                   ELSE [Lib!Unborn EXCEPT !.at = "loop"]
  OBVIOUS
<1>3. /\ k \in Lib!Threads /\ thread[k].at = "handle"
      /\ thread' = [thread EXCEPT ![k] = x]
      /\ handlerLocks' = handlerLocks \ {g \in {h} : Lib!Shares(k)}
      /\ UNCHANGED <<_threads_num, _threadlist, main, _running, _state, _index, handled, freedMsgs>>
  BY <1>1, <1>2 DEF Lib!HandlerProc
<1>4. Sending(q, m, p, n, a, b, state)
  BY <1>1 DEF Lib!HandlerProc, Lib!Sends, Sending
<1>5. k \in 1 .. Len(_threadlist)
  <2>1. _threadlist \in Seq(ListEntries)
    BY DEF LibInv, ThreadsMade
  <2> QED BY <1>3, <2>1 DEF Lib!Threads
<1>6. /\ thread[k] \in LibThreads /\ thread \in Seq(LibThreads) /\ Len(thread) = Len(_threadlist)
      /\ MsgsPlaced(q, m, calls, gone) /\ q \in [Lib!Handlers -> Seq(Lib!Msgs)]
      /\ _index' \in [Lib!Groups -> Nat] /\ \A g \in Lib!Groups : _index'[g] < Len(HandlersOf[g])
  BY <1>1, <1>3, <1>5, LibThreadKnown
<1>7. /\ MsgsPlaced(p, n, calls, gone)
      /\ p \in [Lib!Handlers -> Seq(Lib!Msgs)]
      /\ \A g \in Lib!Handlers : Len(p[g]) >= Len(q[g])
      /\ b = a \/ (b = "assertion" /\ state = 3)
  <2>1. MsgsPlaced(q, m, calls, gone)
    BY <1>6
  <2> QED BY ONLY <1>4, <2>1, SendsPlaces
<1>8. /\ x \in LibThreads /\ x.at \in {"loop", "try"}
      /\ x.at = "try" => _threadlist[k].handler = Lib!None
  <2>1. thread[k].tries \in Int
    BY <1>6 DEF LibThreads
  <2>2. Lib!Unborn \in [at : {"unborn"}, handler : {Lib!None}, batch : {0}, tries : {0}]
    BY DEF Lib!Unborn
  <2>3. PICK u, c : u = Lib!Unborn /\ c = thread[k].tries
    OBVIOUS
  <2>4. CASE Lib!Shares(k) /\ c < WaitTries
    <3>1. x = [u EXCEPT !.at = "try", !.tries = c] /\ c \in Int
      BY <1>2, <2>1, <2>3, <2>4
    <3>2. x = [at |-> "try", handler |-> Lib!None, batch |-> 0, tries |-> c]
      BY <2>3, <3>1 DEF Lib!Unborn
    <3>3. x \in LibThreads /\ x.at = "try"
      BY ONLY <3>1, <3>2 DEF LibThreads, ThreadStates
    <3> QED BY <2>4, <3>3 DEF Lib!Shares
  <2>5. CASE ~(Lib!Shares(k) /\ c < WaitTries)
    <3>1. x = [u EXCEPT !.at = "loop"]
      BY <1>2, <2>3, <2>5
    <3>2. x \in LibThreads /\ x.at = "loop"
      BY <2>2, <2>3, <3>1 DEF LibThreads, ThreadStates
    <3> QED BY <3>2
  <2> QED BY <2>4, <2>5
<1>9. ASSUME NEW us, OnlyMoves(us, thread, k, x, _threadlist)
      PROVE  InHandlers(us, _threadlist, p, handlerLocks')
  <2>1. PICK ts, list, locks, after :
          ts = thread /\ list = _threadlist /\ locks = handlerLocks /\ after = handlerLocks'
    OBVIOUS
  <2>2. /\ ts \in Seq(LibThreads) /\ Len(ts) = Len(list)
        /\ InHandlers(ts, list, q, locks) /\ ThreadsMade(list)
        /\ OnlyMoves(us, ts, k, x, list) /\ ts[k].at = "handle"
    BY <1>1, <1>3, <1>6, <1>9, <2>1 DEF LibInv
  <2>3. IF ts[k].at = "handle" /\ list[k].handler = Lib!None
        THEN after = locks \ {ts[k].handler} ELSE after = locks
    BY <1>1, <1>3, <2>1 DEF Lib!Shares
  <2>4. x.at # "handle"
    BY <1>8
  <2>5. InHandlers(ts, list, p, locks)
    BY ONLY <1>6, <1>7, <2>2, MessagesCome
  <2>6. InHandlers(us, list, p, after)
    BY ONLY <2>2, <2>3, <2>4, <2>5, ThreadLeaves
  <2> QED BY <2>1, <2>6
<1>10. \A us : OnlyMoves(us, thread, k, x, _threadlist)
                => InHandlers(us, _threadlist, handlerQueue', handlerLocks')
  BY <1>1, <1>9
<1>11. MsgsPlaced(handlerQueue', handlerMsgs', handled', freedMsgs')
  BY <1>1, <1>3, <1>7
<1>12. aborted' = aborted \/ (aborted' = "assertion" /\ _state = 3)
  BY <1>1, <1>7
<1>13. thread[k].at \notin {"unborn", "end"}
  BY <1>3
<1> QED BY <1>3, <1>5, <1>6, <1>8, <1>10, <1>11, <1>12, <1>13, LibThreadSteps

-----------------------------------------------------------------------------
LEMMA LibStep == LibInv /\ Lib!LibNext => LibInv'
<1> SUFFICES ASSUME LibInv, Lib!LibNext PROVE LibInv'
  OBVIOUS
<1>1. CASE Lib!MainThread
  BY <1>1, LibCreates, LibStartsThread, LibStops, LibFrees DEF Lib!MainThread
<1>2. CASE Lib!ServerTimer
  BY <1>2, LibTimer
<1>3. CASE Lib!StopServer
  BY <1>3, LibStops
<1>4. ASSUME NEW k, Lib!HandlerThread(k) PROVE LibInv'
  <2>1. CASE Lib!DoHandler(k)
    BY <2>1, LibDoHandler
  <2>2. CASE Lib!TryHandler(k)
    BY <2>2, LibTryHandler
  <2>3. CASE Lib!DoMsg(k)
    BY <2>3, LibDoMsg
  <2>4. CASE Lib!HandlerProc(k)
    BY <2>4, LibHandlerProc
  <2>5. CASE Lib!RoundEnds(k) \/ Lib!ThreadEnds(k)
    BY <2>5, LibRests
  <2> QED BY <1>4, <2>1, <2>2, <2>3, <2>4, <2>5 DEF Lib!HandlerThread
<1> QED BY <1>1, <1>2, <1>3, <1>4 DEF Lib!LibNext

LEMMA LibStutters == LibInv /\ UNCHANGED libVars => LibInv'
<1> SUFFICES ASSUME LibInv, UNCHANGED libVars PROVE LibInv'
  OBVIOUS
<1>1. UNCHANGED <<_threads_num, main, _threadlist, _index, handlerLocks, thread, _running, _state,
                  handlerQueue, handlerMsgs, handled, freedMsgs, aborted>>
  BY DEF libVars
<1>2. LibTypes'
  BY <1>1 DEF LibInv, LibTypes
<1> QED BY <1>1, <1>2 DEF LibInv

\* A set of which the members are equal has one of them, or none.
LEMMA OneOrNone ==
  ASSUME NEW S, \A x, y \in S : x = y
  PROVE  Lib!Cardinality(S) = IF S = {} THEN 0 ELSE 1
<1>1. Lib!Cardinality(S) = Cardinality(S)
  BY DEF Lib!Cardinality, Cardinality
<1>2. CASE S = {}
  BY <1>1, <1>2, FS_EmptySet
<1>3. CASE S # {}
  <2>1. PICK x : S = {x}
    BY <1>3
  <2>2. Cardinality({x}) = 1
    BY FS_Singleton
  <2> QED BY <1>1, <1>3, <2>1, <2>2
<1> QED BY <1>2, <1>3

LEMMA LibRight == LibInv => Lib!HandlersInOrder
<1> SUFFICES ASSUME LibInv PROVE Lib!HandlersInOrder
  OBVIOUS
<1>1. /\ MsgsPlaced(handlerQueue, handlerMsgs, handled, freedMsgs)
      /\ InHandlers(thread, _threadlist, handlerQueue, handlerLocks)
      /\ MainComes(main, thread, _threadlist, _running, handlerQueue, _state)
      /\ Died(aborted, main) /\ ThreadsMade(_threadlist)
  BY DEF LibInv
<1>2. Lib!Threads = 1 .. Len(_threadlist)
  BY <1>1 DEF ThreadsMade, Lib!Threads
<1>3. ASSUME NEW n \in 1 .. handlerMsgs
      PROVE  Lib!Cardinality({h \in Lib!Handlers : n \in Lib!Range(handlerQueue[h])})
               + handled[n] + (IF n \in freedMsgs THEN 1 ELSE 0) = 1
  <2>1. n \in Lib!Msgs /\ n <= handlerMsgs
    BY <1>1, LibAssumption DEF MsgsPlaced, Lib!Msgs
  <2>2. PICK S : S = {h \in Lib!Handlers : n \in Lib!Range(handlerQueue[h])}
    OBVIOUS
  <2>3. \A h : h \in S <=> h \in Lib!Handlers /\ \E i \in DOMAIN handlerQueue[h] : handlerQueue[h][i] = n
    BY <2>2 DEF Lib!Range
  <2>4. S # {} <=> Waits(handlerQueue, n)
    BY <2>3 DEF Waits
  <2>5. \A g, h \in S : g = h
    BY <1>1, <2>3 DEF MsgsPlaced
  <2>6. Lib!Cardinality(S) = IF S = {} THEN 0 ELSE 1
    BY <2>5, OneOrNone
  <2>7. /\ Waits(handlerQueue, n) \/ handled[n] = 1 \/ n \in freedMsgs
        /\ Waits(handlerQueue, n) => handled[n] = 0 /\ n \notin freedMsgs
        /\ n \in freedMsgs => handled[n] = 0
        /\ handled[n] \in 0 .. 1
    BY <1>1, <2>1 DEF MsgsPlaced
  <2> QED BY ONLY <2>2, <2>4, <2>6, <2>7
<1>4. ASSUME NEW k \in Lib!Threads, NEW l \in Lib!Threads, k # l,
             Lib!InHandler(k), Lib!InHandler(l)
      PROVE  thread[k].handler # thread[l].handler
  BY <1>1, <1>2, <1>4 DEF InHandlers, Lib!InHandler
<1>5. handlerLocks = {thread[k].handler : k \in {k \in Lib!Threads : Lib!InHandler(k) /\ Lib!Shares(k)}}
  <2>1. ASSUME NEW h \in handlerLocks
        PROVE  \E k \in Lib!Threads : Lib!InHandler(k) /\ Lib!Shares(k) /\ thread[k].handler = h
    BY <1>1, <1>2 DEF InHandlers, Lib!InHandler, Lib!Shares
  <2>2. ASSUME NEW k \in Lib!Threads, Lib!InHandler(k), Lib!Shares(k)
        PROVE  thread[k].handler \in handlerLocks
    <3>1. thread[k].handler \in Lib!Handlers
      BY <1>2, <2>2, LibThreadKnown DEF Lib!InHandler
    <3> QED BY <1>1, <1>2, <2>2, <3>1 DEF InHandlers, Lib!InHandler, Lib!Shares
  <2> QED BY <2>1, <2>2
<1>6. main.at \in {"uninit", "handlers", "end"} => \A k \in Lib!Threads : thread[k].at = "end"
  BY <1>1, <1>2 DEF MainComes
<1>7. main.at = "end" => \A h \in Lib!Handlers : handlerQueue[h] = <<>>
  BY <1>1 DEF MainComes
<1>8. /\ aborted = "assertion" => main.at \in {"stop", "join"}
      /\ aborted = "threads" => main.at = "uninit"
  BY <1>1 DEF Died
<1> QED BY <1>3, <1>4, <1>5, <1>6, <1>7, <1>8 DEF Lib!HandlersInOrder

-----------------------------------------------------------------------------
(***************************************************************************)
(* The tools together.                                                     *)
(***************************************************************************)
ToolInv == /\ tool \in ToolNames
           /\ LogInv /\ WorkInv /\ QueueInv /\ ListInv /\ HashInv /\ LibInv

LEMMA ToolsStart == ASSUME ToolInit PROVE ToolInv
<1>1. LogInv
  BY LogStarts DEF ToolInit
<1>2. WorkInv
  BY WorkStarts DEF ToolInit
<1>3. QueueInv
  BY QueueInit DEF ToolInit
<1>4. ListInv
  BY ListStarts DEF ToolInit
<1>5. HashInv
  BY HashStarts DEF ToolInit
<1>6. LibInv
  BY LibStarts DEF ToolInit
<1> QED BY <1>1, <1>2, <1>3, <1>4, <1>5, <1>6 DEF ToolInit, ToolInv

\* A step is one of the tool that is used, and leaves the others alone.
LEMMA StepOfOneTool ==
  ASSUME ToolNext
  PROVE  /\ tool' = tool
         /\ Log!LogNext \/ UNCHANGED logVars
         /\ Work!WorkNext \/ UNCHANGED workVars
         /\ Queue!SqueueNext \/ UNCHANGED queueVars
         /\ List!ListNext \/ UNCHANGED listVars
         /\ Hash!HashNext \/ UNCHANGED hashVars
         /\ Lib!LibNext \/ UNCHANGED libVars
<1>1. CASE ToolRuns("log") /\ Log!LogNext
  BY <1>1 DEF ToolRuns
<1>2. CASE ToolRuns("tasks") /\ Work!WorkNext
  BY <1>2 DEF ToolRuns
<1>3. CASE ToolRuns("queue") /\ Queue!SqueueNext
  BY <1>3 DEF ToolRuns
<1>4. CASE ToolRuns("buffers") /\ Queue!SqueueNext
  BY <1>4 DEF ToolRuns
<1>5. CASE ToolRuns("hash") /\ Hash!HashNext
  BY <1>5 DEF ToolRuns
<1>6. CASE ToolRuns("lists") /\ List!ListNext
  BY <1>6 DEF ToolRuns
<1>7. CASE ToolRuns("handlers") /\ Lib!LibNext
  BY <1>7 DEF ToolRuns
<1> QED BY <1>1, <1>2, <1>3, <1>4, <1>5, <1>6, <1>7 DEF ToolNext

LEMMA ToolsStep == ASSUME ToolInv, ToolNext PROVE ToolInv'
<1> USE DEF ToolInv
<1>1. LogInv'
  BY StepOfOneTool, LogStepKeepsInv, LogStutters
<1>2. WorkInv'
  BY StepOfOneTool, WorkStepKeepsInv, WorkStutters
<1>3. QueueInv'
  BY StepOfOneTool, QueueNext, QueueStutters
<1>4. ListInv'
  BY StepOfOneTool, ListStepKeepsInv, ListsStutter
<1>5. HashInv'
  BY StepOfOneTool, HashStep, HashStutters
<1>6. LibInv'
  BY StepOfOneTool, LibStep, LibStutters
<1> QED BY <1>1, <1>2, <1>3, <1>4, <1>5, <1>6, StepOfOneTool

LEMMA ToolsStutter == ASSUME ToolInv, UNCHANGED toolVars PROVE ToolInv'
<1> USE DEF ToolInv, toolVars
<1>1. LogInv' /\ WorkInv' /\ ListInv'
  BY LogStutters, WorkStutters, ListsStutter
<1>2. QueueInv' /\ HashInv' /\ LibInv'
  BY QueueStutters, HashStutters, LibStutters
<1> QED BY <1>1, <1>2

LEMMA ToolsInOrder == ASSUME ToolInv PROVE QueuesInOrder
BY LinesAreWritten, TasksAreInOrder, QueueOrdered, HashRight, ListsAreSequences, LibRight
   DEF ToolInv, QueuesInOrder

\* The invariants of all tools hold in every behaviour, whichever tool is used.
THEOREM ToolInvHolds == ToolSpec => []ToolInv
<1>1. ToolInv /\ [ToolNext]_toolVars => ToolInv'
  BY ToolsStep, ToolsStutter
<1> QED BY <1>1, ToolsStart, PTL DEF ToolSpec

\* In every behaviour of the tools, however many threads, messages, keys and
\* nodes there are: a line that was logged is in one place, and in the file of
\* its type once, behind those logged before it (CLoggerMT::LogInfo, run);
\* tasks are begun once, in the order they were added, and threads do not all
\* wait while one is queued (CThreadPool::AddTask, ThreadWork); what a thread
\* pushes is popped at most once and in its order, and who pops waits for
\* somebody who pushes (push_squeue, pop_squeue); a table gives the value that
\* was set last, doall asks about each node once (set_str_hash, doall_strhash); a list
\* is, both ways, the one asked for (double_list_*); and a message to a
\* handler is handled or freed once, one thread being in a handler at a time,
\* also while the threads are made, stopped and joined (crate_handlers_thread,
\* _thread_proc, stop_all_threads, destory_handler).
THEOREM QueuesStayInOrder == ToolSpec => []QueuesInOrder
BY ToolInvHolds, ToolsInOrder, PTL
=============================================================================
