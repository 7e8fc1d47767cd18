------------------------ MODULE BlockingQueue_proof -------------------------
(***************************************************************************)
(* Proofs about BlockingQueue for any number of producers, consumers and   *)
(* items.                                                                  *)
(***************************************************************************)
EXTENDS BlockingQueue, FiniteSetTheorems, TLAPS

USE QueueAssumption

\* No variable of the queue leaves its type (the members of BlockingQueue and
\* the local states of the threads that call it).
THEOREM TypeCorrect == Spec => []TypeOK
<1>1. Init => TypeOK
  <2>1. << >> \in Seq(Nat)
    OBVIOUS
  <2>2. [p \in Producers |-> "idle"] \in [Producers -> {"idle", "notify"}]
    OBVIOUS
  <2>3. [c \in Consumers |-> "idle"] \in [Consumers -> ConsumerState]
    BY DEF ConsumerState
  <2>4. {} \in SUBSET Consumers /\ 0 \in Nat
    OBVIOUS
  <2>. QED
    BY <2>1, <2>2, <2>3, <2>4, Zenon DEF Init, TypeOK
<1>2. TypeOK /\ [Next]_vars => TypeOK'
  <2>. SUFFICES ASSUME TypeOK, [Next]_vars PROVE TypeOK'
    OBVIOUS
  <2>. USE DEF TypeOK, ConsumerState
  <2>1. ASSUME NEW p \in Producers, Push(p) PROVE TypeOK'
    <3>1. Append(queue, pushes) \in Seq(Nat) /\ pushes + 1 \in Nat
      OBVIOUS
    <3>2. [producer EXCEPT ![p] = "notify"] \in [Producers -> {"idle", "notify"}]
      OBVIOUS
    <3>. QED
      BY <2>1, <3>1, <3>2 DEF Push, AfterPush
  <2>2. ASSUME NEW p \in Producers, NotifyOne(p) PROVE TypeOK'
    BY <2>2 DEF NotifyOne, WakeOne, Asleep
  <2>3. CASE Close
    BY <2>3 DEF Close
  <2>4. CASE CloseNotify
    BY <2>4 DEF CloseNotify, WakeAll, Asleep
  <2>5. ASSUME NEW c \in Consumers, Take(c) PROVE TypeOK'
    BY <2>5 DEF Take
  <2>6. ASSUME NEW c \in Consumers, Wait(c) PROVE TypeOK'
    BY <2>6 DEF Wait
  <2>7. ASSUME NEW c \in Consumers, Released(c) \/ Expire(c) \/ TimedOut(c) \/ SpuriousWakeup(c)
        PROVE  TypeOK'
    BY <2>7 DEF Released, Expire, TimedOut, SpuriousWakeup
  <2>8. CASE UNCHANGED vars
    BY <2>8 DEF vars
  <2>. QED
    BY <2>1, <2>2, <2>3, <2>4, <2>5, <2>6, <2>7, <2>8 DEF Next
<1>. QED
  BY <1>1, <1>2, PTL DEF Spec

\* The sets that NoLostWakeup counts are finite.
LEMMA CountsAreNaturals ==
  /\ IsFiniteSet(Notifying) /\ Cardinality(Notifying) \in Nat
  /\ IsFiniteSet(Awake) /\ Cardinality(Awake) \in Nat
  BY FS_Subset, FS_CardinalityType DEF Notifying, Awake

\* How the two counts follow a step that changes one thread.
LEMMA AwakeGains ==
  ASSUME TypeOK, NEW c \in Asleep, NEW state \in {"woken", "expired"},
         consumer' = [consumer EXCEPT ![c] = state]
  PROVE  Cardinality(Awake') = Cardinality(Awake) + 1
<1>1. c \notin Awake /\ Awake' = Awake \cup {c}
  BY DEF TypeOK, Asleep, Awake
<1>. QED
  BY <1>1, FS_AddElement, CountsAreNaturals

LEMMA AwakeLoses ==
  ASSUME TypeOK, NEW c \in Awake, NEW state \in {"idle", "released", "waiting"},
         consumer' = [consumer EXCEPT ![c] = state]
  PROVE  Cardinality(Awake') = Cardinality(Awake) - 1
<1>1. Awake' = Awake \ {c}
  BY DEF TypeOK, Awake
<1>. QED
  BY <1>1, FS_RemoveElement, CountsAreNaturals

LEMMA AwakeKeeps ==
  ASSUME TypeOK, NEW c \in Consumers, consumer[c] = "idle", NEW state \in {"idle", "released", "waiting"},
         consumer' = [consumer EXCEPT ![c] = state]
  PROVE  Awake' = Awake
  BY DEF TypeOK, Awake

\* No wakeup is lost (push and close of BlockingQueue): an item that a sleeping
\* thread could take always has a notification or a woken thread of its own.
THEOREM NoLostWakeupAlways == Spec => []NoLostWakeup
<1>1. Init => NoLostWakeup
  BY DEF Init, NoLostWakeup, Asleep
<1>2. TypeOK /\ NoLostWakeup /\ [Next]_vars => NoLostWakeup'
  <2>. SUFFICES ASSUME TypeOK, NoLostWakeup, [Next]_vars, Asleep' # {}
                PROVE  /\ Len(queue') <= Cardinality(Notifying') + Cardinality(Awake')
                       /\ closed' => closer' = "notify"
    BY DEF NoLostWakeup
  <2>0. /\ queue \in Seq(Nat) /\ Len(queue) \in Nat
        /\ Cardinality(Notifying) \in Nat /\ Cardinality(Awake) \in Nat
    BY CountsAreNaturals DEF TypeOK
  <2>1. ASSUME NEW p \in Producers, Push(p)
        PROVE  /\ Len(queue') <= Cardinality(Notifying') + Cardinality(Awake')
               /\ closed' => closer' = "notify"
    <3>1. Asleep' = Asleep /\ Awake' = Awake /\ closed' = closed /\ closer' = closer
      BY <2>1 DEF Push, Asleep, Awake
    <3>2. CASE closed
      BY <2>1, <3>1, <3>2 DEF Push, NoLostWakeup, Notifying
    <3>3. CASE ~closed
      <4>1. Len(queue') = Len(queue) + 1
        BY <2>0, <2>1, <3>3 DEF Push, TypeOK
      <4>2. p \notin Notifying /\ Notifying' = Notifying \cup {p}
        BY <2>1, <3>3 DEF Push, AfterPush, Notifying, TypeOK
      <4>3. Cardinality(Notifying') = Cardinality(Notifying) + 1
        BY <4>2, FS_AddElement, CountsAreNaturals
      <4>. QED
        BY <2>0, <3>1, <3>3, <4>1, <4>3 DEF NoLostWakeup
    <3>. QED
      BY <3>2, <3>3
  <2>2. ASSUME NEW p \in Producers, NotifyOne(p)
        PROVE  /\ Len(queue') <= Cardinality(Notifying') + Cardinality(Awake')
               /\ closed' => closer' = "notify"
    <3>1. PICK c \in Asleep : consumer' = [consumer EXCEPT ![c] = "woken"]
      BY <2>2 DEF NotifyOne, WakeOne, Asleep
    <3>2. Notifying' = Notifying \ {p} /\ p \in Notifying
      BY <2>2 DEF NotifyOne, Notifying, TypeOK
    <3>3. Cardinality(Notifying') = Cardinality(Notifying) - 1
      BY <3>2, FS_RemoveElement, CountsAreNaturals
    <3>4. Cardinality(Awake') = Cardinality(Awake) + 1
      BY <3>1, AwakeGains
    <3>5. queue' = queue /\ closed' = closed /\ closer' = closer
      BY <2>2 DEF NotifyOne
    <3>. QED
      BY <2>0, <3>1, <3>3, <3>4, <3>5 DEF NoLostWakeup
  <2>3. CASE Close
    BY <2>0, <2>3 DEF Close, NoLostWakeup, Asleep, Awake, Notifying
  <2>4. CASE CloseNotify
    BY <2>4 DEF CloseNotify, WakeAll, Asleep, TypeOK
  <2>5. ASSUME NEW c \in Consumers,
               Take(c) \/ Released(c) \/ Wait(c) \/ Expire(c) \/ TimedOut(c) \/ SpuriousWakeup(c)
        PROVE  /\ Len(queue') <= Cardinality(Notifying') + Cardinality(Awake')
               /\ closed' => closer' = "notify"
    <3>0. Notifying' = Notifying /\ closed' = closed /\ closer' = closer
      BY <2>5 DEF Take, Released, Wait, Expire, TimedOut, SpuriousWakeup, Notifying
    <3>1. CASE Take(c)
      <4>1. Len(queue') = Len(queue) - 1
        BY <2>0, <3>1 DEF Take
      <4>2. Asleep' = Asleep
        BY <3>1 DEF Take, Asleep, TypeOK
      <4>3. Cardinality(Awake') >= Cardinality(Awake) - 1
        <5>1. CASE consumer[c] = "idle"
          <6>1. Awake' = Awake
            BY <3>1, <5>1, AwakeKeeps DEF Take
          <6>. QED
            BY <2>0, <6>1
        <5>2. CASE c \in Awake
          <6>1. Cardinality(Awake') = Cardinality(Awake) - 1
            BY <3>1, <5>2, AwakeLoses DEF Take
          <6>. QED
            BY <2>0, <6>1
        <5>. QED
          BY <3>1, <5>1, <5>2 DEF Take, Awake
      <4>4. Cardinality(Awake') \in Nat
        BY CountsAreNaturals, <3>1, FS_Subset, FS_CardinalityType DEF Awake
      <4>. QED
        BY <2>0, <3>0, <4>1, <4>2, <4>3, <4>4 DEF NoLostWakeup
    <3>2. CASE Released(c) \/ Wait(c) \/ TimedOut(c)
      <4>1. Len(queue') = 0
        BY <3>2 DEF Released, Wait, TimedOut
      <4>2. Cardinality(Awake') \in Nat
        BY FS_Subset, FS_CardinalityType DEF Awake
      <4>3. closed' => Asleep' = Asleep
        BY <3>2 DEF Released, Wait, TimedOut, Asleep, TypeOK
      <4>. QED
        BY <2>0, <3>0, <4>1, <4>2, <4>3 DEF NoLostWakeup
    <3>3. CASE Expire(c) \/ SpuriousWakeup(c)
      <4>1. c \in Asleep /\ queue' = queue
        BY <3>3 DEF Expire, SpuriousWakeup, Asleep
      <4>2. Cardinality(Awake') = Cardinality(Awake) + 1
        BY <3>3, <4>1, AwakeGains DEF Expire, SpuriousWakeup
      <4>. QED
        BY <2>0, <3>0, <4>1, <4>2 DEF NoLostWakeup
    <3>. QED
      BY <2>5, <3>1, <3>2, <3>3
  <2>6. CASE UNCHANGED vars
    BY <2>0, <2>6 DEF vars, NoLostWakeup, Asleep, Awake, Notifying
  <2>. QED
    BY <2>1, <2>2, <2>3, <2>4, <2>5, <2>6 DEF Next
<1>. QED
  BY <1>1, <1>2, TypeCorrect, PTL DEF Spec
=============================================================================
