-------------------------------- MODULE Logger --------------------------------
(***************************************************************************)
(* CLoggerMT: any thread appends lines to m_logList, and one thread takes  *)
(* the whole list and writes its lines to the files of their types.  A     *)
(* list that has grown too long loses its oldest lines; a file that has    *)
(* grown too large is closed and the next one opened.                      *)
(*                                                                         *)
(* DestoryInstance sets m_threadEnd and waits for the event that the       *)
(* writer sets when it ends.  The event is a bare condition: one that is   *)
(* set before anybody waits is lost, and the server then never exits.      *)
(***************************************************************************)
EXTENDS Integers, Sequences, FiniteSets, Functions

CONSTANTS
  LogTypes,         \* the types Init enables; lines of others end at once
  MaxLines,         \* lines that a list may have (10000 in the code)
  m_singleLogSize,  \* lines that a file holds
  MaxLogged         \* bound of the model: lines that are ever logged

VARIABLES
  m_logList,    \* a line is [type, nr]: the order in which lines were logged
  tList, pos,   \* the writer's list, and how far it has written it
  writer,       \* what the writer does
  file,         \* of each type: is it open, its index, the lines it has
  enableLog,    \* types the writer will flush
  m_threadEnd,
  waiting,      \* DestoryInstance: before, in, or after the wait for the event
  logged,       \* history: lines that were appended
  written,      \* history: lines in the files of each type, over all files
  dropped, unsaved  \* history: lines given up, and lines no file was open for

files   == <<file, enableLog, written, unsaved>>
closing == <<m_threadEnd, waiting>>
logVars == <<m_logList, tList, pos, writer, files, closing, logged, dropped>>

\* CreateFile may fail; Init of the logger goes on without the file.
LogInit ==
  /\ m_logList = <<>> /\ tList = <<>> /\ pos = 1
  /\ writer = "take"
  /\ file \in [LogTypes -> [open : {TRUE}, m_index : {2}, m_fileSize : {0}]
                              \cup [open : {FALSE}, m_index : {1}, m_fileSize : {0}]]
  /\ enableLog = {}
  /\ m_threadEnd = FALSE /\ waiting = "no"
  /\ logged = 0
  /\ written = [t \in LogTypes |-> <<>>]
  /\ dropped = {} /\ unsaved = {}

\* LogInfo, LogDebug, LogWarning, LogError, LogFatal and LogBase.
Log(type) ==
  /\ logged < MaxLogged /\ waiting # "destroyed"
  /\ logged' = logged + 1
  /\ m_logList' = Append(m_logList, [type |-> type, nr |-> logged'])
  /\ UNCHANGED <<tList, pos, writer, files, closing, dropped>>

-----------------------------------------------------------------------------
(***************************************************************************)
(* run, the writer.                                                        *)
(***************************************************************************)

\* The lines in front, that are given up.
Excess(list) == IF Len(list) > MaxLines THEN Len(list) - MaxLines ELSE 0

\* Broken variant: the list is copied and not cleared.
LeftAfterTake_Copies(list) == list

LeftAfterTake(list) == <<>>

\* The list is taken under the lock.  enableLog is not initialised.
TakeList ==
  /\ writer = "take" /\ ~m_threadEnd
  /\ tList' = m_logList /\ m_logList' = LeftAfterTake(m_logList)
  /\ IF m_logList = <<>> THEN UNCHANGED <<writer, pos, enableLog, dropped>>
     ELSE /\ writer' = "write"
          /\ pos' = Excess(m_logList) + 1
          /\ enableLog' \in SUBSET LogTypes
          /\ dropped' = dropped \cup {m_logList[i].nr : i \in 1 .. Excess(m_logList)}
  /\ UNCHANGED <<file, written, unsaved, closing, logged>>

\* Broken variant: the size of the full file is kept.
CreateFile_KeepsSize(f) == {[f EXCEPT !.m_index = @ + 1], [f EXCEPT !.open = FALSE]}

\* CreateFile: the file that is full is closed.  If the next cannot be opened
\* there is no file, for good.
CreateFile(f) == {[open |-> TRUE, m_index |-> f.m_index + 1, m_fileSize |-> 0],
                  [f EXCEPT !.open = FALSE]}

\* writeLog of the next line.
WriteLine ==
  LET line == tList[pos]
      f    == file[line.type]
      size == f.m_fileSize + 1
  IN
  /\ writer = "write" /\ pos <= Len(tList)
  /\ IF f.open
     THEN /\ written' = [written EXCEPT ![line.type] = Append(@, line.nr)]
          /\ \E g \in IF size >= m_singleLogSize THEN CreateFile([f EXCEPT !.m_fileSize = size])
                      ELSE {[f EXCEPT !.m_fileSize = size]} :
               file' = [file EXCEPT ![line.type] = g]
          /\ UNCHANGED unsaved
     ELSE unsaved' = unsaved \cup {line.nr} /\ UNCHANGED <<file, written>>
  /\ enableLog' = enableLog \cup {line.type}
  /\ pos' = pos + 1
  /\ UNCHANGED <<m_logList, tList, writer, closing, logged, dropped>>

\* The files are flushed, and the loop's condition is asked again.
FlushAll ==
  /\ writer = "write" /\ pos > Len(tList)
  /\ writer' = "take" /\ tList' = <<>> /\ pos' = 1 /\ enableLog' = {}
  /\ UNCHANGED <<m_logList, file, written, unsaved, closing, logged, dropped>>

\* SetEvent after the loop wakes who waits; nobody remembers it.
RunEnds ==
  /\ writer = "take" /\ m_threadEnd
  /\ writer' = "ended"
  /\ waiting' = IF waiting = "waits" THEN "woken" ELSE waiting
  /\ UNCHANGED <<m_logList, tList, pos, files, m_threadEnd, logged, dropped>>

-----------------------------------------------------------------------------
(***************************************************************************)
(* DestoryInstance.                                                        *)
(***************************************************************************)
EndThread ==
  /\ waiting = "no"
  /\ m_threadEnd' = TRUE /\ waiting' = "set"
  /\ UNCHANGED <<m_logList, tList, pos, writer, files, logged, dropped>>

WaitForEnd ==
  /\ waiting = "set"
  /\ waiting' = "waits"
  /\ UNCHANGED <<m_logList, tList, pos, writer, files, m_threadEnd, logged, dropped>>

\* The thread has been joined.
Joined ==
  /\ waiting = "woken"
  /\ waiting' = "destroyed"
  /\ UNCHANGED <<m_logList, tList, pos, writer, files, m_threadEnd, logged, dropped>>

LogNext ==
  \/ \E t \in LogTypes : Log(t)
  \/ TakeList \/ WriteLine \/ FlushAll \/ RunEnds
  \/ EndThread \/ WaitForEnd \/ Joined

-----------------------------------------------------------------------------
LogTypeOK ==
  /\ \A i \in DOMAIN m_logList : m_logList[i].type \in LogTypes
  /\ pos \in 1 .. MaxLogged + 1 /\ writer \in {"take", "write", "ended"}
  /\ \A t \in LogTypes : /\ file[t].open \in BOOLEAN
                         /\ file[t].m_fileSize \in 0 .. m_singleLogSize
  /\ enableLog \subseteq LogTypes
  /\ waiting \in {"no", "set", "waits", "woken", "destroyed"}

Pending == {m_logList[i].nr : i \in DOMAIN m_logList}
Current == {tList[i].nr : i \in pos .. Len(tList)}

\* The lines of a type are in its files in the order they were logged in, each
\* once; and a line that was logged is written, waits, was dropped from a list
\* that was too long, or had no file: the writer loses none of its own, even
\* while others log, and files change under it.
LinesWritten ==
  LET inFiles == UNION {Range(written[t]) : t \in LogTypes}
      places  == <<inFiles, Pending, Current, dropped, unsaved>>
  IN
  /\ \A t \in LogTypes : \A i, j \in DOMAIN written[t] : i < j => written[t][i] < written[t][j]
  /\ \A t, u \in LogTypes : t # u => Range(written[t]) \cap Range(written[u]) = {}
  /\ \A i, j \in DOMAIN places : i # j => places[i] \cap places[j] = {}
  /\ UNION Range(places) = 1 .. logged
=============================================================================
