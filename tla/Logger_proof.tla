---------------------------- MODULE Logger_proof -----------------------------
(***************************************************************************)
(* Proofs about Logger for any number of threads and entries.              *)
(***************************************************************************)
EXTENDS Logger, SequenceTheorems, TLAPS

\* What the worker has taken and not yet written, as a sequence of entries.
Taken == IF worker = "write" THEN <<item>> ELSE << >>

\* The file, the entry in hand and the queue together are what was logged.
OrderKept == file \o (Taken \o logQueue) = logged

\* What is over when the destructor has got so far: the threads, then the line
\* of main, then every call of log, then the worker.
ShutdownOrder ==
  /\ \A t \in ended : thread[t] = "idle"
  /\ main # "run" => ended = Threads /\ buffer = << >>
  /\ main \in {"stop", "join", "closed"} => thread[Main] = "idle"
  /\ stopFlag <=> main \in {"stop", "join", "closed"}
  /\ worker = "ended" => stopFlag /\ logQueue = << >>
  /\ main = "closed" => worker = "ended"

IInv == TypeOK /\ OrderKept /\ ShutdownOrder /\ WorkerSleepsIdle

-----------------------------------------------------------------------------
(* Facts about sequences *)

LEMMA ConcatRebracket ==
  ASSUME NEW S, NEW s \in Seq(S), NEW t \in Seq(S), NEW u \in Seq(S)
  PROVE  (s \o t) \o u = s \o (t \o u)
BY ConcatAssociative, SMTT(30)

LEMMA RebracketEntries ==
  \A s, t, u \in Seq(Entry) : (s \o t) \o u = s \o (t \o u)
BY ConcatRebracket, SMTT(30)

\* An entry that joins the queue joins the order at its end, and the entry that
\* the worker has in hand stands between the file and the queue.  The provers
\* see only that concatenation is associative.
LEMMA OrderOfThree ==
  ASSUME NEW s \in Seq(Entry), NEW t \in Seq(Entry), NEW u \in Seq(Entry), NEW e \in Entry
  PROVE  /\ s \o (t \o Append(u, e)) = Append(s \o (t \o u), e)
         /\ Append(s, e) \o u = s \o (<<e>> \o u)
<1>. DEFINE C(a, b) == a \o b
            A(a) == Append(a, e)
            v == <<e>>
<1>1. \A a, b, c \in Seq(Entry) : C(C(a, b), c) = C(a, C(b, c))
  BY RebracketEntries
<1>2. \A a, b \in Seq(Entry) : C(a, b) \in Seq(Entry)
  BY ConcatProperties
<1>3. v \in Seq(Entry)
  OBVIOUS
<1>4. \A a \in Seq(Entry) : A(a) = C(a, v)
  BY AppendIsConcat
<1>. HIDE DEF C, A, v
<1>5. C(s, C(t, A(u))) = A(C(s, C(t, u)))
  <2>1. C(t, u) \in Seq(Entry) /\ C(s, C(t, u)) \in Seq(Entry)
    BY <1>2
  <2>2. A(C(s, C(t, u))) = C(s, C(C(t, u), v))
    BY <1>1, <1>3, <1>4, <2>1
  <2>3. C(C(t, u), v) = C(t, A(u))
    BY <1>1, <1>3, <1>4
  <2>. QED
    BY <2>2, <2>3
<1>6. C(A(s), u) = C(s, C(v, u))
  BY <1>1, <1>3, <1>4
<1>. QED
  BY <1>5, <1>6 DEF C, A, v

-----------------------------------------------------------------------------
(* Facts about the order *)

USE LoggerAssumption

\* log appends at the end of what was logged.
LEMMA OrderAfterPush ==
  ASSUME TypeOK, OrderKept, NEW entry \in Entry,
         logQueue' = Append(logQueue, entry), logged' = Append(logged, entry),
         UNCHANGED workerVars
  PROVE  OrderKept'
<1>1. file \in Seq(Entry) /\ Taken \in Seq(Entry) /\ logQueue \in Seq(Entry)
  BY DEF TypeOK, Taken
<1>2. Taken' = Taken /\ file' = file
  BY DEF workerVars, Taken
<1>3. file \o (Taken \o Append(logQueue, entry)) = Append(file \o (Taken \o logQueue), entry)
  BY <1>1, OrderOfThree, SMTT(30)
<1>. QED
  BY <1>2, <1>3 DEF OrderKept

\* The worker takes from the front.
LEMMA OrderAfterTake ==
  ASSUME TypeOK, OrderKept, WorkerTake
  PROVE  OrderKept'
<1>1. logQueue \in Seq(Entry) /\ logQueue # << >>
  BY DEF TypeOK, WorkerTake, Wakes, Leaves
<1>2. logQueue = <<Head(logQueue)>> \o Tail(logQueue)
  BY <1>1
<1>3. Taken = << >> /\ Taken' = <<Head(logQueue)>>
  BY DEF WorkerTake, Taken
<1>4. Taken \o logQueue = logQueue
  BY <1>1, <1>3, ConcatEmptySeq
<1>. QED
  BY <1>2, <1>3, <1>4 DEF OrderKept, WorkerTake

\* The worker writes at the end of the file.
LEMMA OrderAfterWrite ==
  ASSUME TypeOK, OrderKept, WorkerWrite
  PROVE  OrderKept'
<1>1. file \in Seq(Entry) /\ item \in Entry /\ logQueue \in Seq(Entry)
  BY DEF TypeOK
<1>2. Taken = <<item>> /\ Taken' = << >>
  BY DEF WorkerWrite, Taken
<1>3. Append(file, item) \o logQueue = file \o (<<item>> \o logQueue)
  BY <1>1, OrderOfThree, SMTT(30)
<1>4. << >> \o logQueue = logQueue
  BY <1>1, ConcatEmptySeq
<1>. QED
  BY <1>2, <1>3, <1>4 DEF OrderKept, WorkerWrite

-----------------------------------------------------------------------------
(* The invariant *)

LEMMA TypeStep == TypeOK /\ [Next]_vars => TypeOK'
<1>. SUFFICES ASSUME TypeOK, [Next]_vars PROVE TypeOK'
  OBVIOUS
<1>. USE DEF TypeOK, MainState
<1>0. /\ \A t \in Threads \cup {Main} : <<t>> \in Entry
      /\ << >> \in Entry /\ << >> \in Seq({Main})
      /\ buffer \in Entry
  BY SeqMonotonic DEF Entry
<1>1. ASSUME NEW t \in Threads \cup {Main}, NEW entry \in Entry, Enqueue(t, entry)
      PROVE  /\ logQueue' \in Seq(Entry) /\ logged' \in Seq(Entry)
             /\ thread' \in [Threads \cup {Main} -> {"idle", "notify"}]
  BY <1>1 DEF Enqueue
<1>2. ASSUME NEW t \in Threads, LogF(t) PROVE TypeOK'
  <2>1. Enqueue(t, <<t>>) /\ <<t>> \in Entry
    BY <1>0, <1>2 DEF LogF
  <2>2. /\ logQueue' \in Seq(Entry) /\ logged' \in Seq(Entry)
        /\ thread' \in [Threads \cup {Main} -> {"idle", "notify"}]
    BY <1>1, <2>1
  <2>. QED
    BY <1>2, <2>2 DEF LogF, workerVars
<1>3. ASSUME NEW t \in Threads, ThreadEnds(t) PROVE TypeOK'
  BY <1>3 DEF ThreadEnds, workerVars
<1>4. ASSUME NEW t \in Threads \cup {Main}, NotifyOne(t) PROVE TypeOK'
  BY <1>4 DEF NotifyOne
<1>5. CASE InsertPiece
  <2>1. Append(buffer, Main) \in Seq({Main})
    OBVIOUS
  <2>. QED
    BY <1>5, <2>1 DEF InsertPiece, workerVars
<1>6. CASE InsertNewline
  BY <1>0, <1>1, <1>6 DEF InsertNewline, workerVars
<1>7. CASE DestructorFlush
  <2>1. CASE buffer = << >>
    BY <1>7, <2>1 DEF DestructorFlush, Sync, workerVars
  <2>2. CASE buffer # << >>
    BY <1>0, <1>1, <1>7, <2>2 DEF DestructorFlush, Sync, workerVars
  <2>. QED
    BY <2>1, <2>2
<1>8. CASE DestructorStop \/ DestructorNotify \/ DestructorReturns
  BY <1>8 DEF DestructorStop, DestructorNotify, DestructorReturns, callVars, workerVars
<1>9. CASE WorkerWait \/ WorkerEnds \/ SpuriousWakeup
  BY <1>9 DEF WorkerWait, WorkerEnds, SpuriousWakeup, callVars
<1>10. CASE WorkerTake
  <2>1. logQueue # << >>
    BY <1>10 DEF WorkerTake, Wakes, Leaves
  <2>2. Head(logQueue) \in Entry /\ Tail(logQueue) \in Seq(Entry)
    BY <2>1, HeadTailProperties
  <2>. QED
    BY <1>10, <2>2 DEF WorkerTake, callVars
<1>11. CASE WorkerWrite
  <2>1. Append(file, item) \in Seq(Entry)
    OBVIOUS
  <2>. QED
    BY <1>0, <1>11, <2>1 DEF WorkerWrite, callVars
<1>12. CASE UNCHANGED vars
  BY <1>12 DEF vars, callVars, workerVars
<1>. QED
  BY <1>2, <1>3, <1>4, <1>5, <1>6, <1>7, <1>8, <1>9, <1>10, <1>11, <1>12
     DEF Next, Destructor, Worker

LEMMA OrderStep == TypeOK /\ OrderKept /\ [Next]_vars => OrderKept'
<1>. SUFFICES ASSUME TypeOK, OrderKept, [Next]_vars PROVE OrderKept'
  OBVIOUS
<1>0. /\ \A t \in Threads \cup {Main} : <<t>> \in Entry
      /\ buffer \in Entry
  BY SeqMonotonic DEF Entry, TypeOK
<1>1. ASSUME NEW t \in Threads, LogF(t) PROVE OrderKept'
  <2>1. <<t>> \in Entry
    BY <1>0
  <2>. QED
    BY <1>1, <2>1, OrderAfterPush DEF LogF, Enqueue
<1>2. CASE InsertNewline
  BY <1>0, <1>2, OrderAfterPush DEF InsertNewline, Enqueue
<1>3. CASE DestructorFlush
  <2>1. CASE buffer = << >>
    BY <1>3, <2>1 DEF DestructorFlush, Sync, workerVars, OrderKept, Taken
  <2>2. CASE buffer # << >>
    BY <1>0, <1>3, <2>2, OrderAfterPush DEF DestructorFlush, Sync, Enqueue
  <2>. QED
    BY <2>1, <2>2
<1>4. CASE WorkerTake
  BY <1>4, OrderAfterTake
<1>5. CASE WorkerWrite
  BY <1>5, OrderAfterWrite
<1>6. ASSUME NEW t \in Threads \cup {Main}, NotifyOne(t) PROVE OrderKept'
  BY <1>6 DEF NotifyOne, OrderKept, Taken
<1>7. ASSUME NEW t \in Threads, ThreadEnds(t) PROVE OrderKept'
  BY <1>7 DEF ThreadEnds, workerVars, OrderKept, Taken
<1>8. CASE InsertPiece \/ DestructorStop \/ DestructorReturns
  BY <1>8 DEF InsertPiece, DestructorStop, DestructorReturns, workerVars, OrderKept, Taken
<1>9. CASE DestructorNotify
  BY <1>9 DEF DestructorNotify, OrderKept, Taken
<1>10. CASE WorkerWait \/ WorkerEnds \/ SpuriousWakeup
  BY <1>10 DEF WorkerWait, WorkerEnds, SpuriousWakeup, OrderKept, Taken
<1>11. CASE UNCHANGED vars
  BY <1>11 DEF vars, workerVars, OrderKept, Taken
<1>. QED
  BY <1>1, <1>2, <1>3, <1>4, <1>5, <1>6, <1>7, <1>8, <1>9, <1>10, <1>11
     DEF Next, Destructor, Worker

LEMMA ShutdownStep == TypeOK /\ ShutdownOrder /\ [Next]_vars => ShutdownOrder'
<1>. SUFFICES ASSUME TypeOK, ShutdownOrder, [Next]_vars PROVE ShutdownOrder'
  OBVIOUS
<1>. USE DEF TypeOK, MainState, ShutdownOrder
<1>1. ASSUME NEW t \in Threads, LogF(t) PROVE ShutdownOrder'
  BY <1>1 DEF LogF, Enqueue, workerVars
<1>2. ASSUME NEW t \in Threads, ThreadEnds(t) PROVE ShutdownOrder'
  BY <1>2 DEF ThreadEnds, workerVars
<1>3. ASSUME NEW t \in Threads \cup {Main}, NotifyOne(t) PROVE ShutdownOrder'
  BY <1>3 DEF NotifyOne
<1>4. CASE InsertPiece
  BY <1>4 DEF InsertPiece, workerVars
<1>5. CASE InsertNewline
  BY <1>5 DEF InsertNewline, Enqueue, workerVars
<1>6. CASE DestructorFlush
  BY <1>6 DEF DestructorFlush, Sync, Enqueue, workerVars
<1>7. CASE DestructorStop
  BY <1>7 DEF DestructorStop, callVars, workerVars
<1>8. CASE DestructorNotify
  BY <1>8 DEF DestructorNotify, callVars
<1>9. CASE DestructorReturns
  BY <1>9 DEF DestructorReturns, callVars, workerVars
<1>10. CASE WorkerWait \/ WorkerEnds \/ SpuriousWakeup
  BY <1>10 DEF WorkerWait, WorkerEnds, SpuriousWakeup, callVars, Leaves
<1>11. CASE WorkerTake \/ WorkerWrite
  BY <1>11 DEF WorkerTake, WorkerWrite, callVars
<1>12. CASE UNCHANGED vars
  BY <1>12 DEF vars, callVars, workerVars
<1>. QED
  BY <1>1, <1>2, <1>3, <1>4, <1>5, <1>6, <1>7, <1>8, <1>9, <1>10, <1>11, <1>12
     DEF Next, Destructor, Worker

LEMMA SleepStep == TypeOK /\ WorkerSleepsIdle /\ [Next]_vars => WorkerSleepsIdle'
<1>. SUFFICES ASSUME TypeOK, WorkerSleepsIdle, [Next]_vars PROVE WorkerSleepsIdle'
  OBVIOUS
<1>. USE DEF TypeOK, WorkerSleepsIdle
<1>1. ASSUME NEW t \in Threads \cup {Main}, NEW entry, Enqueue(t, entry) PROVE WorkerSleepsIdle'
  BY <1>1 DEF Enqueue
<1>2. ASSUME NEW t \in Threads, LogF(t) PROVE WorkerSleepsIdle'
  BY <1>1, <1>2 DEF LogF
<1>3. ASSUME NEW t \in Threads, ThreadEnds(t) PROVE WorkerSleepsIdle'
  BY <1>3 DEF ThreadEnds, workerVars
<1>4. ASSUME NEW t \in Threads \cup {Main}, NotifyOne(t) PROVE WorkerSleepsIdle'
  BY <1>4 DEF NotifyOne
<1>5. CASE InsertPiece
  BY <1>5 DEF InsertPiece, workerVars
<1>6. CASE InsertNewline
  BY <1>1, <1>6 DEF InsertNewline
<1>7. CASE DestructorFlush
  <2>1. CASE buffer = << >>
    BY <1>7, <2>1 DEF DestructorFlush, Sync, workerVars
  <2>2. CASE buffer # << >>
    BY <1>1, <1>7, <2>2 DEF DestructorFlush, Sync
  <2>. QED
    BY <2>1, <2>2
<1>8. CASE DestructorStop
  BY <1>8 DEF DestructorStop, callVars, workerVars
<1>9. CASE DestructorNotify
  BY <1>9 DEF DestructorNotify
<1>10. CASE DestructorReturns
  BY <1>10 DEF DestructorReturns, callVars, workerVars
<1>11. CASE WorkerWait
  BY <1>11 DEF WorkerWait, Wakes
<1>12. CASE WorkerTake \/ WorkerWrite \/ WorkerEnds \/ SpuriousWakeup
  BY <1>12 DEF WorkerTake, WorkerWrite, WorkerEnds, SpuriousWakeup
<1>13. CASE UNCHANGED vars
  BY <1>13 DEF vars, callVars, workerVars
<1>. QED
  BY <1>2, <1>3, <1>4, <1>5, <1>6, <1>7, <1>8, <1>9, <1>10, <1>11, <1>12, <1>13
     DEF Next, Destructor, Worker

LEMMA InitHolds == Init => IInv
<1>. SUFFICES ASSUME Init PROVE IInv
  OBVIOUS
<1>1. TypeOK
  <2>1. /\ << >> \in Seq(Entry) /\ << >> \in Entry /\ << >> \in Seq({Main})
    BY DEF Entry
  <2>2. [t \in Threads \cup {Main} |-> "idle"] \in [Threads \cup {Main} -> {"idle", "notify"}]
    OBVIOUS
  <2>3. {} \in SUBSET Threads /\ 0 \in Nat /\ "run" \in MainState
    BY DEF MainState
  <2>. QED
    BY <2>1, <2>2, <2>3, Zenon DEF Init, TypeOK
<1>2. OrderKept
  <2>1. << >> \o (<< >> \o << >>) = << >>
    BY ConcatEmptySeq, EmptySeq
  <2>. QED
    BY <2>1 DEF Init, OrderKept, Taken
<1>3. ShutdownOrder /\ WorkerSleepsIdle
  BY DEF Init, ShutdownOrder, WorkerSleepsIdle
<1>. QED
  BY <1>1, <1>2, <1>3 DEF IInv

THEOREM Inductive == Spec => []IInv
<1>1. IInv /\ [Next]_vars => IInv'
  BY TypeStep, OrderStep, ShutdownStep, SleepStep DEF IInv
<1>. QED
  BY <1>1, InitHolds, PTL DEF Spec

\* When the destructor of the logger returns, everything logged is in the file,
\* in order and once (~Logger and processQueue).
THEOREM DestructorDrainsAlways == Spec => []DestructorDrains
<1>1. IInv => DestructorDrains
  <2>. SUFFICES ASSUME IInv, main = "closed" PROVE file = logged /\ buffer = << >>
    BY DEF DestructorDrains
  <2>1. worker = "ended" /\ logQueue = << >> /\ buffer = << >>
    BY DEF IInv, ShutdownOrder
  <2>2. Taken = << >>
    BY <2>1 DEF Taken
  <2>3. file \in Seq(Entry) /\ << >> \in Seq(Entry)
    BY DEF IInv, TypeOK
  <2>4. file \o (<< >> \o << >>) = file
    BY <2>3, ConcatEmptySeq
  <2>. QED
    BY <2>1, <2>2, <2>4 DEF IInv, OrderKept
<1>. QED
  BY <1>1, Inductive, PTL

\* The worker of the logger never sleeps over an entry or a stop that nobody is
\* about to notify it of.
THEOREM WorkerSleepsIdleAlways == Spec => []WorkerSleepsIdle
<1>1. IInv => WorkerSleepsIdle
  BY DEF IInv
<1>. QED
  BY <1>1, Inductive, PTL
=============================================================================
