------------------------------- MODULE Logger --------------------------------
(***************************************************************************)
(* The logger of a host or of the switch.  Threads push entries into       *)
(* logQueue, a worker thread writes them to the file, std::cout feeds it   *)
(* through LogStreamBuf, which gathers a line until it is complete or      *)
(* flushed, and the destructor, which runs after main has joined all other *)
(* threads, has the worker write what is left.                             *)
(***************************************************************************)
EXTENDS Integers, Sequences

CONSTANTS
  Threads,     \* the threads that call log or logf, and end before main does
  MaxEntries,  \* the number of entries that the threads push in a behaviour
  MaxPieces,   \* the number of insertions of main into std::cout
  Main         \* the main thread

ASSUME LoggerAssumption ==
  /\ MaxEntries \in Nat /\ MaxPieces \in Nat
  /\ Main \notin Threads

VARIABLES
  logQueue,   \* logQueue; an entry is the sequence of the pieces it is made of
  stopFlag,   \* stopFlag
  thread,     \* [Threads and Main -> "idle", or "notify" between push and notify_one]
  ended,      \* the threads that have returned
  entries,    \* the number of entries pushed by the threads
  buffer,     \* LogStreamBuf::buffer of std::cout
  pieces,     \* the number of insertions of main so far
  main,       \* how far main is: see MainState
  worker,     \* what the worker thread is doing
  item,       \* the entry it has taken, or the empty sequence
  file,       \* the entries in the log file
  logged      \* history: what was logged or inserted, in the order it was pushed

callVars == <<thread, ended, entries, pieces, buffer>>
workerVars == <<worker, item, file>>
vars == <<logQueue, stopFlag, callVars, main, workerVars, logged>>

\* "run": before the destructor; "flushed": it has flushed the streams; "stop":
\* stopFlag is set, notify_all is still to come; "join": in worker.join();
\* "closed": the file is closed and the destructor has returned.
MainState == { "run", "flushed", "stop", "join", "closed" }

\* An entry, by the pieces it is made of.
Entry == Seq(Threads \cup {Main})

TypeOK ==
  /\ logQueue \in Seq(Entry)
  /\ stopFlag \in BOOLEAN
  /\ thread \in [Threads \cup {Main} -> {"idle", "notify"}]
  /\ ended \in SUBSET Threads
  /\ entries \in Nat
  /\ buffer \in Seq({Main})
  /\ pieces \in Nat
  /\ main \in MainState
  /\ worker \in {"test", "waiting", "write", "ended"}
  /\ item \in Entry
  /\ file \in Seq(Entry)
  /\ logged \in Seq(Entry)

Init ==
  /\ logQueue = << >>
  /\ stopFlag = FALSE
  /\ thread = [t \in Threads \cup {Main} |-> "idle"]
  /\ ended = {}
  /\ entries = 0
  /\ buffer = << >>
  /\ pieces = 0
  /\ main = "run"
  /\ worker = "test"
  /\ item = << >>
  /\ file = << >>
  /\ logged = << >>

-----------------------------------------------------------------------------
(* The threads that log *)

\* log, up to the end of its critical section.
Enqueue(t, entry) ==
  /\ thread[t] = "idle"
  /\ logQueue' = Append(logQueue, entry)
  /\ logged' = Append(logged, entry)
  /\ thread' = [thread EXCEPT ![t] = "notify"]

\* cv.notify_one at the end of log; only the worker ever waits.
NotifyOne(t) ==
  /\ thread[t] = "notify"
  /\ thread' = [thread EXCEPT ![t] = "idle"]
  /\ worker' = IF worker = "waiting" THEN "test" ELSE worker
  /\ UNCHANGED <<logQueue, stopFlag, ended, entries, buffer, pieces, main, item, file, logged>>

\* logf in a thread that main has started.
LogF(t) ==
  /\ t \notin ended
  /\ entries < MaxEntries
  /\ Enqueue(t, <<t>>)
  /\ entries' = entries + 1
  /\ UNCHANGED <<stopFlag, ended, buffer, pieces, main, workerVars>>

ThreadEnds(t) ==
  /\ t \notin ended /\ thread[t] = "idle"
  /\ ended' = ended \cup {t}
  /\ UNCHANGED <<logQueue, stopFlag, thread, entries, buffer, pieces, main, workerVars, logged>>

\* LogStreamBuf::overflow: main inserts a piece that does not end a line.
InsertPiece ==
  /\ main = "run" /\ thread[Main] = "idle"
  /\ pieces < MaxPieces
  /\ pieces' = pieces + 1
  /\ buffer' = Append(buffer, Main)
  /\ UNCHANGED <<logQueue, stopFlag, thread, ended, entries, main, workerVars, logged>>

\* LogStreamBuf::overflow of a newline: the line so far becomes an entry, even
\* an empty one.
InsertNewline ==
  /\ main = "run"
  /\ pieces < MaxPieces
  /\ pieces' = pieces + 1
  /\ Enqueue(Main, buffer)
  /\ buffer' = << >>
  /\ UNCHANGED <<stopFlag, ended, entries, main, workerVars>>

-----------------------------------------------------------------------------
(* The destructor *)

\* Seeded fault: the streams are not flushed, and the last line is lost.
FlushNothing == main' = "flushed" /\ UNCHANGED <<logQueue, logged, thread, buffer>>

\* LogStreamBuf::sync of std::cout: what is in the buffer becomes an entry.
Sync ==
  /\ main' = "flushed"
  /\ IF buffer = << >>
     THEN UNCHANGED <<logQueue, logged, thread, buffer>>
     ELSE Enqueue(Main, buffer) /\ buffer' = << >>

\* ~Logger begins, once main has joined all other threads.
DestructorFlush ==
  /\ main = "run" /\ thread[Main] = "idle"
  /\ ended = Threads
  /\ Sync
  /\ UNCHANGED <<stopFlag, ended, entries, pieces, workerVars>>

DestructorStop ==
  /\ main = "flushed" /\ thread[Main] = "idle"
  /\ stopFlag' = TRUE
  /\ main' = "stop"
  /\ UNCHANGED <<logQueue, callVars, workerVars, logged>>

DestructorNotify ==
  /\ main = "stop"
  /\ main' = "join"
  /\ worker' = IF worker = "waiting" THEN "test" ELSE worker
  /\ UNCHANGED <<logQueue, stopFlag, callVars, item, file, logged>>

DestructorReturns ==
  /\ main = "join"
  /\ worker = "ended"
  /\ main' = "closed"
  /\ UNCHANGED <<logQueue, stopFlag, callVars, workerVars, logged>>

-----------------------------------------------------------------------------
(* The worker, processQueue *)

\* Seeded fault: the predicate of the wait ignores stopFlag.
WakesForEntries == logQueue # << >>

\* The predicate of cv.wait.
Wakes == logQueue # << >> \/ stopFlag

\* Seeded fault: the worker leaves as soon as it is told to stop.
LeavesAtOnce == stopFlag

\* The worker leaves only when it has been told to and the queue is empty.
Leaves == logQueue = << >> /\ stopFlag

\* The predicate is tested and false: the mutex is released and the worker sleeps.
WorkerWait ==
  /\ worker = "test"
  /\ ~Wakes
  /\ worker' = "waiting"
  /\ UNCHANGED <<logQueue, stopFlag, callVars, main, item, file, logged>>

WorkerTake ==
  /\ worker = "test"
  /\ Wakes /\ ~Leaves
  /\ item' = Head(logQueue)
  /\ logQueue' = Tail(logQueue)
  /\ worker' = "write"
  /\ UNCHANGED <<stopFlag, callVars, main, file, logged>>

WorkerWrite ==
  /\ worker = "write"
  /\ file' = Append(file, item)
  /\ item' = << >>
  /\ worker' = "test"
  /\ UNCHANGED <<logQueue, stopFlag, callVars, main, logged>>

WorkerEnds ==
  /\ worker = "test"
  /\ Wakes /\ Leaves
  /\ worker' = "ended"
  /\ UNCHANGED <<logQueue, stopFlag, callVars, main, item, file, logged>>

\* A condition variable may wake a thread that nobody notified.
SpuriousWakeup ==
  /\ worker = "waiting"
  /\ worker' = "test"
  /\ UNCHANGED <<logQueue, stopFlag, callVars, main, item, file, logged>>

Worker == WorkerWait \/ WorkerTake \/ WorkerWrite \/ WorkerEnds

Destructor == DestructorFlush \/ DestructorStop \/ DestructorNotify \/ DestructorReturns

Next ==
  \/ \E t \in Threads : LogF(t) \/ ThreadEnds(t)
  \/ \E t \in Threads \cup {Main} : NotifyOne(t)
  \/ InsertPiece \/ InsertNewline
  \/ Destructor \/ Worker \/ SpuriousWakeup

Spec == Init /\ [][Next]_vars

\* The worker and main go on; the threads return in the end, as HostsExit shows
\* for a host, and notify what they have pushed.
FairSpec ==
  /\ Spec
  /\ \A t \in Threads : WF_vars(ThreadEnds(t))
  /\ \A t \in Threads \cup {Main} : WF_vars(NotifyOne(t))
  /\ WF_vars(Destructor) /\ WF_vars(Worker)

-----------------------------------------------------------------------------
(* Properties *)

\* When the destructor returns, the file holds every entry that any thread has
\* logged and every piece that main has inserted, each once and in the order in
\* which they were pushed, with the line main had not ended as the last entry.
DestructorDrains ==
  main = "closed" => file = logged /\ buffer = << >>

\* The worker sleeps only if it has nothing to do or is about to be notified.
WorkerSleepsIdle ==
  worker = "waiting" =>
    \/ logQueue = << >> /\ ~stopFlag
    \/ \E t \in Threads \cup {Main} : thread[t] = "notify"
    \/ main = "stop"

\* The destructor returns: main does not wait for a worker that sleeps.
DestructorTerminates == <>(main = "closed")
=============================================================================
