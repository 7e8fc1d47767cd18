--------------------------- MODULE BlockingQueue ----------------------------
(***************************************************************************)
(* The queue between the threads of a host, with its condition variable.   *)
(* Each critical section under mu_ is one step; notifications are sent     *)
(* after the mutex is released, which is a step of its own.  The class is  *)
(* modelled for any number of threads at either end; the host has one      *)
(* consumer per queue and two producers.                                   *)
(***************************************************************************)
EXTENDS Integers, Sequences, FiniteSets

CONSTANTS
  Producers,  \* the threads that push
  Consumers,  \* the threads that pop until they are told to stop
  MaxPushes   \* the number of calls of push in a behaviour

ASSUME QueueAssumption == MaxPushes \in Nat /\ IsFiniteSet(Producers) /\ IsFiniteSet(Consumers)

VARIABLES
  queue,     \* q_
  closed,    \* closed_
  pushes,    \* the number of calls of push so far, which is also the next item
  producer,  \* [Producers -> "idle", or "notify" between push_back and notify_one]
  closer,    \* "open", "notify" between closed_ and notify_all, "done"
  consumer,  \* [Consumers -> what the thread is doing]
  timed      \* consumers whose wait is that of try_pop_for

vars == <<queue, closed, pushes, producer, closer, consumer, timed>>

\* "idle": about to call pop; "waiting": on the condition variable; "woken":
\* notified, the predicate is still to be tested; "expired": the wait of
\* try_pop_for is over; "released": pop has returned false on a closed queue.
ConsumerState == { "idle", "waiting", "woken", "expired", "released" }

TypeOK ==
  /\ queue \in Seq(Nat)
  /\ closed \in BOOLEAN
  /\ pushes \in Nat
  /\ producer \in [Producers -> {"idle", "notify"}]
  /\ closer \in {"open", "notify", "done"}
  /\ consumer \in [Consumers -> ConsumerState]
  /\ timed \in SUBSET Consumers

Init ==
  /\ queue = << >>
  /\ closed = FALSE
  /\ pushes = 0
  /\ producer = [p \in Producers |-> "idle"]
  /\ closer = "open"
  /\ consumer = [c \in Consumers |-> "idle"]
  /\ timed = {}

\* The consumers on the condition variable, and those that have left it and
\* are about to test the predicate.
Asleep == { c \in Consumers : consumer[c] = "waiting" }

Awake == { c \in Consumers : consumer[c] \in {"woken", "expired"} }

\* The producers that are about to notify.
Notifying == { p \in Producers : producer[p] = "notify" }

-----------------------------------------------------------------------------
(* Producers *)

\* Seeded fault: only a push into an empty queue notifies.
NotifiesFirst(q) == IF q = << >> THEN "notify" ELSE "idle"

\* Seeded fault: push does not notify.
NeverNotifies(q) == "idle"

\* What a thread that has pushed into q does next.
AfterPush(q) == "notify"

\* push: a closed queue drops the item.
Push(p) ==
  /\ producer[p] = "idle"
  /\ pushes < MaxPushes
  /\ pushes' = pushes + 1
  /\ IF closed
     THEN UNCHANGED <<queue, producer>>
     ELSE /\ queue' = Append(queue, pushes)
          /\ producer' = [producer EXCEPT ![p] = AfterPush(queue)]
  /\ UNCHANGED <<closed, closer, consumer, timed>>

\* notify_one wakes one of the threads that wait, if there is one.
WakeOne ==
  IF Asleep = {}
  THEN UNCHANGED consumer
  ELSE \E c \in Asleep : consumer' = [consumer EXCEPT ![c] = "woken"]

\* notify_all
WakeAll ==
  consumer' = [c \in Consumers |-> IF c \in Asleep THEN "woken" ELSE consumer[c]]

NotifyOne(p) ==
  /\ producer[p] = "notify"
  /\ producer' = [producer EXCEPT ![p] = "idle"]
  /\ WakeOne
  /\ UNCHANGED <<queue, closed, pushes, closer, timed>>

Close ==
  /\ closer = "open"
  /\ closed' = TRUE
  /\ closer' = "notify"
  /\ UNCHANGED <<queue, pushes, producer, consumer, timed>>

CloseNotify ==
  /\ closer = "notify"
  /\ closer' = "done"
  /\ WakeAll
  /\ UNCHANGED <<queue, closed, pushes, producer, timed>>

-----------------------------------------------------------------------------
(* Consumers.  try_pop is Take, or leaves everything as it is. *)

\* pop, try_pop_for or try_pop finds an item, at once or after a wait.
Take(c) ==
  /\ consumer[c] \in {"idle", "woken", "expired"}
  /\ queue # << >>
  /\ queue' = Tail(queue)
  /\ consumer' = [consumer EXCEPT ![c] = "idle"]
  /\ UNCHANGED <<closed, pushes, producer, closer, timed>>

\* pop or try_pop_for returns false because the queue is closed and empty.
Released(c) ==
  /\ consumer[c] \in {"idle", "woken", "expired"}
  /\ queue = << >> /\ closed
  /\ consumer' = [consumer EXCEPT ![c] = "released"]
  /\ UNCHANGED <<queue, closed, pushes, producer, closer, timed>>

\* The predicate is false: the mutex is released and the thread sleeps.  A
\* thread that was woken for nothing goes on with the wait it was in.
Wait(c) ==
  /\ consumer[c] \in {"idle", "woken"}
  /\ queue = << >> /\ ~closed
  /\ consumer' = [consumer EXCEPT ![c] = "waiting"]
  /\ timed' \in IF consumer[c] = "idle" THEN {timed \cup {c}, timed \ {c}} ELSE {timed}
  /\ UNCHANGED <<queue, closed, pushes, producer, closer>>

\* wait_for is over: the predicate is tested a last time.
Expire(c) ==
  /\ consumer[c] = "waiting" /\ c \in timed
  /\ consumer' = [consumer EXCEPT ![c] = "expired"]
  /\ UNCHANGED <<queue, closed, pushes, producer, closer, timed>>

\* try_pop_for returns false because nothing has come in time.
TimedOut(c) ==
  /\ consumer[c] = "expired"
  /\ queue = << >> /\ ~closed
  /\ consumer' = [consumer EXCEPT ![c] = "idle"]
  /\ UNCHANGED <<queue, closed, pushes, producer, closer, timed>>

\* A condition variable may wake a thread that nobody notified.
SpuriousWakeup(c) ==
  /\ consumer[c] = "waiting"
  /\ consumer' = [consumer EXCEPT ![c] = "woken"]
  /\ UNCHANGED <<queue, closed, pushes, producer, closer, timed>>

Next ==
  \/ \E p \in Producers : Push(p) \/ NotifyOne(p)
  \/ Close \/ CloseNotify
  \/ \E c \in Consumers :
       \/ Take(c) \/ Released(c) \/ Wait(c)
       \/ Expire(c) \/ TimedOut(c) \/ SpuriousWakeup(c)

Spec == Init /\ [][Next]_vars

\* A thread that has to notify does, and a consumer that is awake tests its
\* predicate.  Nobody has to push or close, no wait has to expire, and no
\* wakeup has to be spurious.
FairSpec ==
  /\ Spec
  /\ \A p \in Producers : WF_vars(NotifyOne(p))
  /\ WF_vars(CloseNotify)
  /\ \A c \in Consumers : WF_vars(Take(c) \/ Released(c))

-----------------------------------------------------------------------------
(* Properties *)

\* No wakeup is lost: while a thread sleeps, every item of the queue is matched
\* by a notification still to come or by a thread that has been woken, and a
\* closed queue still has its notify_all to come.
NoLostWakeup ==
  Asleep # {} =>
    /\ Len(queue) <= Cardinality(Notifying) + Cardinality(Awake)
    /\ closed => closer = "notify"

\* Every item that is pushed is taken, as long as the consumers call pop again.
ItemsTaken == queue # << >> ~> queue = << >>

\* Once the queue is closed every consumer gets its false: the joins in main do
\* not hang on a thread that waits in pop.
ConsumersReleased == \A c \in Consumers : closed ~> consumer[c] = "released"
=============================================================================
