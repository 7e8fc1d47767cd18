-------------------------- MODULE Accounting_proof --------------------------
(***************************************************************************)
(* Proofs of the counting properties of INASystem: no message is lost,     *)
(* none is sent twice, no slot is lost or overwritten, and the system is   *)
(* quiet when it stops.                                                    *)
(***************************************************************************)
EXTENDS INASystem_proof, WellFoundedInduction

-----------------------------------------------------------------------------
(* Counting the messages of a sequence *)

\* Whether an empty or full place holds such a message, as a number.
In(x, types, h, i) == One(x # None /\ Matches(x, types, h, i))

\* The places of a sequence that hold such a message.
Places(seq, types, h, i) == { n \in DOMAIN seq : Matches(seq[n], types, h, i) }

LEMMA CountType ==
  ASSUME NEW S, NEW s \in Seq(S), NEW types, NEW h, NEW i
  PROVE  /\ IsFiniteSet(Places(s, types, h, i))
         /\ Count(s, types, h, i) = Cardinality(Places(s, types, h, i))
         /\ Count(s, types, h, i) \in Nat
<1>1. DOMAIN s = 1 .. Len(s) /\ Len(s) \in Nat
  OBVIOUS
<1>2. IsFiniteSet(DOMAIN s)
  BY <1>1, FS_Interval
<1>3. IsFiniteSet(Places(s, types, h, i))
  BY <1>2, FS_Subset DEF Places
<1>4. Count(s, types, h, i) = Cardinality(Places(s, types, h, i))
  BY DEF Count, Places
<1>. QED
  BY <1>3, <1>4, FS_CardinalityType

LEMMA CountEmpty ==
  ASSUME NEW types, NEW h, NEW i
  PROVE  Count(<< >>, types, h, i) = 0
  BY FS_EmptySet DEF Count

LEMMA CountAppend ==
  ASSUME NEW S, NEW s \in Seq(S), NEW x \in S, NEW types, NEW h, NEW i
  PROVE  Count(Append(s, x), types, h, i)
           = Count(s, types, h, i) + One(Matches(x, types, h, i))
<1> DEFINE t == Append(s, x)
           A == Places(s, types, h, i)
           B == Places(t, types, h, i)
           k == Len(s) + 1
<1>1. /\ DOMAIN s = 1 .. Len(s) /\ Len(s) \in Nat /\ DOMAIN t = 1 .. k
      /\ \A n \in 1 .. Len(s) : t[n] = s[n]
      /\ t[k] = x
  OBVIOUS
<1>2. B = IF Matches(x, types, h, i) THEN A \cup {k} ELSE A
  BY <1>1 DEF Places
<1>3. k \notin A
  BY <1>1 DEF Places
<1>4. IsFiniteSet(A)
  BY CountType
<1>5. Count(s, types, h, i) = Cardinality(A) /\ Count(t, types, h, i) = Cardinality(B)
  BY DEF Count, Places
<1>6. Cardinality(A) \in Nat
  BY <1>4, FS_CardinalityType
<1> HIDE DEF A, B, k, t
<1>7. Matches(x, types, h, i) => Cardinality(B) = Cardinality(A) + 1
  BY <1>2, <1>3, <1>4, FS_AddElement
<1>. QED
  BY <1>2, <1>5, <1>6, <1>7 DEF One, t

LEMMA CountTail ==
  ASSUME NEW S, NEW s \in Seq(S), s # << >>, NEW types, NEW h, NEW i
  PROVE  Count(s, types, h, i)
           = One(Matches(Head(s), types, h, i)) + Count(Tail(s), types, h, i)
<1> DEFINE t == Tail(s)
           A == Places(s, types, h, i)
           B == Places(t, types, h, i)
           C == A \ {1}
           f == [n \in B |-> n + 1]
<1>1. /\ DOMAIN s = 1 .. Len(s) /\ Len(s) \in Nat \ {0} /\ DOMAIN t = 1 .. Len(s) - 1
      /\ t \in Seq(S)
      /\ \A n \in 1 .. Len(s) - 1 : t[n] = s[n + 1]
      /\ Head(s) = s[1]
  OBVIOUS
<1>2. f \in Bijection(B, C)
  <2>1. \A n \in B : n \in Int /\ n + 1 \in C
    BY <1>1 DEF Places
  <2>2. \A n \in C : n - 1 \in B /\ n \in Int
    BY <1>1 DEF Places
  <2>3. f \in [B -> C]
    BY <2>1
  <2>4. \A a, b \in B : f[a] = f[b] => a = b
    BY <2>1
  <2>5. \A n \in C : \E b \in B : f[b] = n
    <3>1. ASSUME NEW n \in C PROVE n - 1 \in B /\ f[n - 1] = n
      BY <2>2
    <3>. QED
      BY <3>1
  <2> HIDE DEF B, C, f
  <2>. QED
    BY <2>3, <2>4, <2>5 DEF Bijection, Injection, Surjection, IsInjective
<1>3. IsFiniteSet(B) /\ IsFiniteSet(A) /\ Cardinality(A) \in Nat
  <2>1. IsFiniteSet(B) /\ IsFiniteSet(A)
    BY <1>1, CountType
  <2>. QED
    BY <2>1, FS_CardinalityType
<1>4. Cardinality(C) = Cardinality(B)
  BY <1>2, <1>3, FS_Bijection DEF ExistsBijection
<1>5. Cardinality(C) = IF 1 \in A THEN Cardinality(A) - 1 ELSE Cardinality(A)
  BY <1>3, FS_RemoveElement
<1>6. 1 \in A <=> Matches(Head(s), types, h, i)
  BY <1>1 DEF Places
<1>7. Count(s, types, h, i) = Cardinality(A) /\ Count(t, types, h, i) = Cardinality(B)
  BY <1>1, CountType
<1> HIDE DEF A, B, C, t
<1>. QED
  BY <1>3, <1>4, <1>5, <1>6, <1>7 DEF One, t

\* A message that is there is counted.
LEMMA CountThere ==
  ASSUME NEW S, NEW s \in Seq(S), NEW n \in 1 .. Len(s), NEW types, s[n].type \in types
  PROVE  Count(s, types, s[n].origin, s[n].idx) > 0
<1> DEFINE A == Places(s, types, s[n].origin, s[n].idx)
<1>1. n \in A
  BY DEF Matches, Places
<1>2. IsFiniteSet(A) /\ Cardinality(A) \in Nat /\ Count(s, types, s[n].origin, s[n].idx) = Cardinality(A)
  BY CountType, FS_CardinalityType
<1> HIDE DEF A
<1>3. Cardinality(A) # 0
  BY <1>1, <1>2, FS_EmptySet
<1>. QED
  BY <1>2, <1>3

LEMMA CountHeldBehind ==
  ASSUME NEW S, NEW s \in Seq(S), NEW x \in S \cup {None}, NEW types, NEW h, NEW i
  PROVE  /\ s \o Held(x) \in Seq(S)
         /\ Count(s \o Held(x), types, h, i) = Count(s, types, h, i) + In(x, types, h, i)
<1>1. CASE x = None
  <2>1. s \o Held(x) = s
    BY <1>1 DEF Held
  <2>2. In(x, types, h, i) = 0 /\ Count(s, types, h, i) \in Nat
    BY <1>1, CountType DEF In, One
  <2>. QED
    BY <2>1, <2>2
<1>2. CASE x # None
  <2>1. s \o Held(x) = Append(s, x) /\ x \in S
    BY <1>2 DEF Held
  <2>2. In(x, types, h, i) = One(Matches(x, types, h, i))
    BY <1>2 DEF In, One
  <2>. QED
    BY <2>1, <2>2, CountAppend
<1>. QED
  BY <1>1, <1>2

LEMMA CountHeldBefore ==
  ASSUME NEW S, NEW s \in Seq(S), NEW x \in S \cup {None}, NEW types, NEW h, NEW i
  PROVE  /\ Held(x) \o s \in Seq(S)
         /\ Count(Held(x) \o s, types, h, i) = In(x, types, h, i) + Count(s, types, h, i)
<1>1. CASE x = None
  <2>1. Held(x) \o s = s
    BY <1>1 DEF Held
  <2>2. In(x, types, h, i) = 0 /\ Count(s, types, h, i) \in Nat
    BY <1>1, CountType DEF In, One
  <2>. QED
    BY <2>1, <2>2
<1>2. CASE x # None
  <2> DEFINE t == <<x>> \o s
  <2>1. Held(x) \o s = t /\ x \in S
    BY <1>2 DEF Held
  <2>2. t \in Seq(S) /\ t # << >> /\ Head(t) = x /\ Tail(t) = s
    <3>1. t \in Seq(S) /\ Len(t) = Len(s) + 1 /\ t[1] = x /\ \A n \in 1 .. Len(s) : t[n + 1] = s[n]
      BY <2>1
    <3>2. t # << >> /\ Head(t) = t[1]
      BY <3>1
    <3>3. Tail(t) \in Seq(S) /\ Len(Tail(t)) = Len(s) /\ \A n \in 1 .. Len(s) : Tail(t)[n] = t[n + 1]
      BY <3>1, <3>2
    <3>. QED
      BY <3>1, <3>2, <3>3
  <2>3. Count(t, types, h, i) = One(Matches(x, types, h, i)) + Count(s, types, h, i)
    <3> HIDE DEF t
    <3>. QED
      BY <2>2, CountTail
  <2>4. In(x, types, h, i) = One(Matches(x, types, h, i))
    BY <1>2 DEF In, One
  <2>. QED
    BY <2>1, <2>2, <2>3, <2>4
<1>. QED
  BY <1>1, <1>2

-----------------------------------------------------------------------------
(* The three paths, before and after a step *)

LEMMA NoneIsNoMessage == \A m : m \in Message \/ m \in Task => m # None
  BY NoneAssumption DEF Message, Task, Header, MsgType, TaskType

LEMMA HeldSum ==
  ASSUME NEW S, NEW x \in S \cup {None}, NEW y \in S \cup {None}, NEW types, NEW h, NEW i
  PROVE  Count(Held(x) \o Held(y), types, h, i) = In(x, types, h, i) + In(y, types, h, i)
<1>1. Held(x) \in Seq(S)
  BY DEF Held
<1>2. Count(Held(x) \o Held(y), types, h, i) = Count(Held(x), types, h, i) + In(y, types, h, i)
  BY <1>1, CountHeldBehind
<1>3. Count(Held(x), types, h, i) = In(x, types, h, i)
  <2>1. CASE x = None
    BY <2>1, CountEmpty DEF Held, In, One
  <2>2. CASE x # None
    <3> DEFINE e == << >>
    <3>1. Append(e, x) = Held(x)
      BY <2>2 DEF Held
    <3>5. e \in Seq(S) /\ x \in S
      BY <2>2
    <3>4. Count(e, types, h, i) = 0
      BY CountEmpty
    <3> HIDE DEF e
    <3>2. Count(Append(e, x), types, h, i) = Count(e, types, h, i) + One(Matches(x, types, h, i))
      BY <3>5, CountAppend
    <3>3. In(x, types, h, i) = One(Matches(x, types, h, i)) /\ In(x, types, h, i) \in Nat
      BY <2>2 DEF In, One
    <3>. QED
      BY <3>1, <3>2, <3>3, <3>4
  <2>. QED
    BY <2>1, <2>2
<1>. QED
  BY <1>2, <1>3

LEMMA QueueHeldSum ==
  ASSUME NEW S, NEW q \in Seq(S), NEW x \in S \cup {None}, NEW y \in S \cup {None},
         NEW types, NEW h, NEW i
  PROVE  /\ Count(q \o Held(x) \o Held(y), types, h, i)
              = Count(q, types, h, i) + In(x, types, h, i) + In(y, types, h, i)
         /\ Count(q, types, h, i) \in Nat
<1> DEFINE r == q \o Held(x)
<1>1. r \in Seq(S) /\ Count(r, types, h, i) = Count(q, types, h, i) + In(x, types, h, i)
  BY CountHeldBehind
<1> HIDE DEF r
<1>2. Count(r \o Held(y), types, h, i) = Count(r, types, h, i) + In(y, types, h, i)
  BY <1>1, CountHeldBehind
<1>. QED
  BY <1>1, <1>2, CountType DEF r

LEMMA HeldQueueSum ==
  ASSUME NEW S, NEW q \in Seq(S), NEW x \in S \cup {None}, NEW y \in S \cup {None},
         NEW types, NEW h, NEW i
  PROVE  /\ Count(Held(x) \o q \o Held(y), types, h, i)
              = In(x, types, h, i) + Count(q, types, h, i) + In(y, types, h, i)
         /\ Count(q, types, h, i) \in Nat
<1> DEFINE r == Held(x) \o q
<1>1. r \in Seq(S) /\ Count(r, types, h, i) = In(x, types, h, i) + Count(q, types, h, i)
  BY CountHeldBefore
<1> HIDE DEF r
<1>2. Count(r \o Held(y), types, h, i) = Count(r, types, h, i) + In(y, types, h, i)
  BY <1>1, CountHeldBehind
<1>. QED
  BY <1>1, <1>2, CountType DEF r

\* What is on each path now, place by place.
LEMMA OutboxSumNow ==
  ASSUME TypeOK, NEW h \in Hosts, NEW types, NEW o, NEW i
  PROVE  /\ Count(Outbox(h), types, o, i)
              = Count(sendQueue[h], types, o, i) + In(sending[h], types, o, i)
                  + In(toSwitch[h], types, o, i)
         /\ Count(sendQueue[h], types, o, i) \in Nat
<1>1. /\ sendQueue[h] \in Seq(Message) /\ sending[h] \in Message \cup {None}
      /\ toSwitch[h] \in Message \cup {None}
  BY DEF TypeOK, LinksTypeOK, HostTypeOK
<1>2. Outbox(h) = sendQueue[h] \o Held(sending[h]) \o Held(toSwitch[h])
  BY DEF Outbox
<1>3. Count(Outbox(h), types, o, i)
        = Count(sendQueue[h], types, o, i) + In(sending[h], types, o, i)
            + In(toSwitch[h], types, o, i)
  BY <1>1, <1>2, QueueHeldSum
<1>. QED
  BY <1>1, <1>3, CountType

LEMMA InboxSumNow ==
  ASSUME TypeOK, NEW h \in Hosts, NEW types, NEW o, NEW i
  PROVE  Count(Inbox(h), types, o, i) = In(reply[h], types, o, i) + In(toHost[h], types, o, i)
<1>1. reply[h] \in Message \cup {None} /\ toHost[h] \in Message \cup {None}
  BY DEF TypeOK, LinksTypeOK, SwitchTypeOK
<1>2. Count(Held(reply[h]) \o Held(toHost[h]), types, o, i)
        = In(reply[h], types, o, i) + In(toHost[h], types, o, i)
  BY <1>1, HeldSum
<1>. QED
  BY <1>2, Zenon DEF Inbox

LEMMA BenchSumNow ==
  ASSUME TypeOK, NEW h \in Hosts, NEW types, NEW o, NEW i
  PROVE  /\ Count(Bench(h), types, o, i)
              = In(toHost[h], types, o, i) + Count(computeQueue[h], types, o, i)
                  + In(computing[h], types, o, i)
         /\ Count(computeQueue[h], types, o, i) \in Nat
<1> DEFINE S == Message \cup Task
<1>1. toHost[h] \in S \cup {None} /\ computeQueue[h] \in Seq(S) /\ computing[h] \in S \cup {None}
  <2>1. Seq(Task) \subseteq Seq(S)
    OBVIOUS
  <2>. QED
    BY <2>1 DEF TypeOK, LinksTypeOK, HostTypeOK
<1> HIDE DEF S
<1>. QED
  BY <1>1, HeldQueueSum DEF Bench

\* The same before and after a step.
LEMMA OutboxSum ==
  ASSUME TypeOK, TypeOK', NEW h \in Hosts, NEW types, NEW o, NEW i
  PROVE  /\ Count(Outbox(h), types, o, i)
              = Count(sendQueue[h], types, o, i) + In(sending[h], types, o, i)
                  + In(toSwitch[h], types, o, i)
         /\ Count(Outbox(h)', types, o, i)
              = Count(sendQueue'[h], types, o, i) + In(sending'[h], types, o, i)
                  + In(toSwitch'[h], types, o, i)
         /\ Count(sendQueue[h], types, o, i) \in Nat
<1>1. /\ sendQueue'[h] \in Seq(Message) /\ sending'[h] \in Message \cup {None}
      /\ toSwitch'[h] \in Message \cup {None}
  BY DEF TypeOK, LinksTypeOK, HostTypeOK
<1>2. Outbox(h)' = sendQueue'[h] \o Held(sending'[h]) \o Held(toSwitch'[h])
  BY DEF Outbox
<1>3. Count(Outbox(h)', types, o, i)
        = Count(sendQueue'[h], types, o, i) + In(sending'[h], types, o, i)
            + In(toSwitch'[h], types, o, i)
  BY <1>1, <1>2, QueueHeldSum
<1>. QED
  BY <1>3, OutboxSumNow

LEMMA InboxSum ==
  ASSUME TypeOK, TypeOK', NEW h \in Hosts, NEW types, NEW o, NEW i
  PROVE  /\ Count(Inbox(h), types, o, i) = In(reply[h], types, o, i) + In(toHost[h], types, o, i)
         /\ Count(Inbox(h)', types, o, i) = In(reply'[h], types, o, i) + In(toHost'[h], types, o, i)
<1>1. reply'[h] \in Message \cup {None} /\ toHost'[h] \in Message \cup {None}
  BY DEF TypeOK, LinksTypeOK, SwitchTypeOK
<1>2. Count(Inbox(h)', types, o, i) = In(reply'[h], types, o, i) + In(toHost'[h], types, o, i)
  BY <1>1, HeldSum DEF Inbox
<1>. QED
  BY <1>2, InboxSumNow

LEMMA BenchSum ==
  ASSUME TypeOK, TypeOK', NEW h \in Hosts, NEW types, NEW o, NEW i
  PROVE  /\ Count(Bench(h), types, o, i)
              = In(toHost[h], types, o, i) + Count(computeQueue[h], types, o, i)
                  + In(computing[h], types, o, i)
         /\ Count(Bench(h)', types, o, i)
              = In(toHost'[h], types, o, i) + Count(computeQueue'[h], types, o, i)
                  + In(computing'[h], types, o, i)
         /\ Count(computeQueue[h], types, o, i) \in Nat
<1> DEFINE S == Message \cup Task
<1>1. toHost'[h] \in S \cup {None} /\ computeQueue'[h] \in Seq(S) /\ computing'[h] \in S \cup {None}
  <2>1. Seq(Task) \subseteq Seq(S)
    OBVIOUS
  <2>. QED
    BY <2>1 DEF TypeOK, LinksTypeOK, HostTypeOK
<1> HIDE DEF S
<1>2. Bench(h)' = Held(toHost'[h]) \o computeQueue'[h] \o Held(computing'[h])
  BY DEF Bench
<1>3. Count(Bench(h)', types, o, i)
        = In(toHost'[h], types, o, i) + Count(computeQueue'[h], types, o, i)
            + In(computing'[h], types, o, i)
  BY <1>1, <1>2, HeldQueueSum
<1>. QED
  BY <1>3, BenchSumNow

-----------------------------------------------------------------------------
(* What the steps do to a path *)

\* A push to a send queue.
LEMMA OutboxPush ==
  ASSUME TypeOK, TypeOK', NEW g \in Hosts, NEW m \in Message, running[g],
         sendQueue' = Push(sendQueue, g, m), UNCHANGED <<sending, toSwitch>>,
         NEW h \in Hosts, NEW types, NEW o, NEW i
  PROVE  Count(Outbox(h)', types, o, i)
           = Count(Outbox(h), types, o, i) + One(h = g /\ Matches(m, types, o, i))
<1>1. /\ sendQueue[g] \in Seq(Message) /\ sendQueue \in [Hosts -> Seq(Message)]
      /\ sendQueue' = [sendQueue EXCEPT ![g] = Append(@, m)]
  BY DEF TypeOK, HostTypeOK, Push
<1>2. Count(Append(sendQueue[g], m), types, o, i)
        = Count(sendQueue[g], types, o, i) + One(Matches(m, types, o, i))
  BY <1>1, CountAppend
<1>3. Count(sendQueue'[h], types, o, i)
        = Count(sendQueue[h], types, o, i) + One(h = g /\ Matches(m, types, o, i))
  <2>1. CASE h = g
    <3>1. sendQueue'[h] = Append(sendQueue[h], m)
      BY <1>1, <2>1
    <3>2. One(h = g /\ Matches(m, types, o, i)) = One(Matches(m, types, o, i))
      BY <2>1 DEF One
    <3>. QED
      BY <1>2, <2>1, <3>1, <3>2
  <2>2. CASE h # g
    BY <1>1, <2>2, OutboxSum DEF One
  <2>. QED
    BY <2>1, <2>2
<1>. QED
  BY <1>3, OutboxSum DEF In, One

\* The send thread moves messages along the path.
LEMMA OutboxMoved ==
  ASSUME TypeOK, TypeOK', NEW g \in Hosts, SendThread(g),
         NEW h \in Hosts, NEW types, NEW o, NEW i
  PROVE  Count(Outbox(h)', types, o, i) = Count(Outbox(h), types, o, i)
<1>1. CASE SendPop(g)
  <2>1. /\ sendQueue[g] \in Seq(Message) /\ sendQueue[g] # << >>
        /\ sendQueue \in [Hosts -> Seq(Message)] /\ sending \in [Hosts -> Message \cup {None}]
        /\ sending[g] = None
    BY <1>1 DEF SendPop, TypeOK, HostTypeOK
  <2>2. /\ sending' = [sending EXCEPT ![g] = Head(sendQueue[g])]
        /\ sendQueue' = [sendQueue EXCEPT ![g] = Tail(@)]
        /\ UNCHANGED toSwitch
    BY <1>1 DEF SendPop, linkVars
  <2>3. Head(sendQueue[g]) \in Message
    BY <2>1
  <2>4. Count(sendQueue[g], types, o, i)
          = One(Matches(Head(sendQueue[g]), types, o, i)) + Count(Tail(sendQueue[g]), types, o, i)
    BY <2>1, CountTail
  <2>5. In(Head(sendQueue[g]), types, o, i) = One(Matches(Head(sendQueue[g]), types, o, i))
    BY <2>3, NoneIsNoMessage DEF In, One
  <2>6. In(None, types, o, i) = 0
    BY DEF In, One
  <2>7. CASE h = g
    <3>1. sending'[h] = Head(sendQueue[g]) /\ sendQueue'[h] = Tail(sendQueue[g])
      BY <2>1, <2>2, <2>7
    <3>2. In(toSwitch[h], types, o, i) \in Int /\ One(Matches(Head(sendQueue[g]), types, o, i)) \in Int
      BY DEF In, One
    <3>3. Tail(sendQueue[g]) \in Seq(Message)
      BY <2>1
    <3>4. Count(Tail(sendQueue[g]), types, o, i) \in Nat
      BY <3>3, CountType
    <3>. QED
      BY <2>1, <2>2, <2>4, <2>5, <2>6, <2>7, <3>1, <3>2, <3>4, OutboxSum
  <2>8. CASE h # g
    BY <2>1, <2>2, <2>8, OutboxSum
  <2>. QED
    BY <2>7, <2>8
<1>2. CASE SendWrite(g)
  <2>1. /\ sending' = [sending EXCEPT ![g] = None]
        /\ toSwitch' = [toSwitch EXCEPT ![g] = sending[g]]
        /\ toSwitch[g] = None
        /\ UNCHANGED sendQueue
    BY <1>2 DEF SendWrite, WriteToSwitch
  <2>2. sending \in [Hosts -> Message \cup {None}] /\ toSwitch \in [Hosts -> Message \cup {None}]
    BY DEF TypeOK, HostTypeOK, LinksTypeOK
  <2>3. In(sending[g], types, o, i) \in Int /\ In(None, types, o, i) = 0
    BY DEF In, One
  <2>4. CASE h = g
    <3>1. sending'[h] = None /\ toSwitch'[h] = sending[g] /\ sendQueue'[h] = sendQueue[h]
      BY <2>1, <2>2, <2>4
    <3>. QED
      BY <2>1, <2>3, <2>4, <3>1, OutboxSum
  <2>5. CASE h # g
    BY <2>1, <2>2, <2>5, OutboxSum
  <2>. QED
    BY <2>4, <2>5
<1>. QED
  BY <1>1, <1>2 DEF SendThread

\* The switch reads a message.
LEMMA OutboxTaken ==
  ASSUME TypeOK, TypeOK', NEW g \in Hosts, NEW type, ReadFromHost(g, type),
         UNCHANGED <<sendQueue, sending>>,
         NEW h \in Hosts, NEW types, NEW o, NEW i
  PROVE  Count(Outbox(h), types, o, i)
           = Count(Outbox(h)', types, o, i) + One(h = g /\ Matches(toSwitch[g], types, o, i))
<1>1. toSwitch \in [Hosts -> Message \cup {None}] /\ toSwitch[g] # None
  BY DEF TypeOK, LinksTypeOK, ReadFromHost
<1>2. toSwitch' = [toSwitch EXCEPT ![g] = None]
  BY DEF ReadFromHost
<1>3. In(toSwitch[h], types, o, i)
        = In(toSwitch'[h], types, o, i) + One(h = g /\ Matches(toSwitch[g], types, o, i))
  BY <1>1, <1>2 DEF In, One
<1>4. In(toSwitch'[h], types, o, i) \in Int /\ In(sending[h], types, o, i) \in Int
      /\ One(h = g /\ Matches(toSwitch[g], types, o, i)) \in Int
  BY DEF In, One
<1>. QED
  BY <1>3, <1>4, OutboxSum

LEMMA OutboxFrame ==
  ASSUME UNCHANGED <<sendQueue, sending, toSwitch>>, NEW h \in Hosts
  PROVE  Outbox(h)' = Outbox(h)
  BY DEF Outbox

\* A reader decides on the answer to its host.
Decides(g, m) == reply[g] = None /\ reply' = [reply EXCEPT ![g] = m] /\ UNCHANGED toHost

LEMMA InboxReply ==
  ASSUME TypeOK, TypeOK', NEW g \in Hosts, NEW m \in Message, Decides(g, m),
         NEW h \in Hosts, NEW types, NEW o, NEW i
  PROVE  Count(Inbox(h)', types, o, i)
           = Count(Inbox(h), types, o, i) + One(h = g /\ Matches(m, types, o, i))
<1>1. /\ reply \in [Hosts -> Message \cup {None}] /\ m # None
      /\ reply[g] = None /\ reply' = [reply EXCEPT ![g] = m] /\ UNCHANGED toHost
  BY NoneIsNoMessage DEF TypeOK, SwitchTypeOK, Decides
<1>2. In(reply'[h], types, o, i)
        = In(reply[h], types, o, i) + One(h = g /\ Matches(m, types, o, i))
  BY <1>1 DEF In, One
<1>3. /\ In(reply[h], types, o, i) \in Int /\ In(toHost[h], types, o, i) \in Int
      /\ One(h = g /\ Matches(m, types, o, i)) \in Int
  BY DEF In, One
<1>. QED
  BY <1>1, <1>2, <1>3, InboxSum

\* A reader sends its answer.
LEMMA InboxMoved ==
  ASSUME TypeOK, TypeOK', NEW g \in Hosts, SendReply(g),
         NEW h \in Hosts, NEW types, NEW o, NEW i
  PROVE  Count(Inbox(h)', types, o, i) = Count(Inbox(h), types, o, i)
<1>1. /\ reply' = [reply EXCEPT ![g] = None]
      /\ toHost' = [toHost EXCEPT ![g] = reply[g]]
      /\ toHost[g] = None
  BY DEF SendReply, WriteToHost
<1>2. reply \in [Hosts -> Message \cup {None}] /\ toHost \in [Hosts -> Message \cup {None}]
  BY DEF TypeOK, LinksTypeOK, SwitchTypeOK
<1>3. In(reply[g], types, o, i) \in Int /\ In(None, types, o, i) = 0
  BY DEF In, One
<1>4. CASE h = g
  <2>1. reply'[h] = None /\ toHost'[h] = reply[g]
    BY <1>1, <1>2, <1>4
  <2>. QED
    BY <1>1, <1>3, <1>4, <2>1, InboxSum
<1>5. CASE h # g
  BY <1>1, <1>2, <1>5, InboxSum
<1>. QED
  BY <1>4, <1>5

\* The host reads a message.
LEMMA InboxTaken ==
  ASSUME TypeOK, TypeOK', NEW g \in Hosts, NEW type, ReadFromSwitch(g, type), UNCHANGED reply,
         NEW h \in Hosts, NEW types, NEW o, NEW i
  PROVE  Count(Inbox(h), types, o, i)
           = Count(Inbox(h)', types, o, i) + One(h = g /\ Matches(toHost[g], types, o, i))
<1>1. toHost \in [Hosts -> Message \cup {None}] /\ toHost[g] # None
  BY DEF TypeOK, LinksTypeOK, ReadFromSwitch
<1>2. toHost' = [toHost EXCEPT ![g] = None]
  BY DEF ReadFromSwitch
<1>3. In(toHost[h], types, o, i)
        = In(toHost'[h], types, o, i) + One(h = g /\ Matches(toHost[g], types, o, i))
  BY <1>1, <1>2 DEF In, One
<1>4. /\ In(toHost'[h], types, o, i) \in Int /\ In(reply[h], types, o, i) \in Int
      /\ One(h = g /\ Matches(toHost[g], types, o, i)) \in Int
  BY DEF In, One
<1>. QED
  BY <1>3, <1>4, InboxSum

\* A reader writes to a host, past the host's own answer.
LEMMA InboxGiven ==
  ASSUME TypeOK, TypeOK', NEW t \in Hosts, NEW m \in Message, WriteToHost(t, m), UNCHANGED reply,
         NEW h \in Hosts, NEW types, NEW o, NEW i
  PROVE  Count(Inbox(h)', types, o, i)
           = Count(Inbox(h), types, o, i) + One(h = t /\ Matches(m, types, o, i))
<1>1. toHost \in [Hosts -> Message \cup {None}] /\ toHost[t] = None /\ m # None
  BY NoneIsNoMessage DEF TypeOK, LinksTypeOK, WriteToHost
<1>2. toHost' = [toHost EXCEPT ![t] = m]
  BY DEF WriteToHost
<1>3. In(toHost'[h], types, o, i)
        = In(toHost[h], types, o, i) + One(h = t /\ Matches(m, types, o, i))
  BY <1>1, <1>2 DEF In, One
<1>4. /\ In(toHost[h], types, o, i) \in Int /\ In(reply[h], types, o, i) \in Int
      /\ One(h = t /\ Matches(m, types, o, i)) \in Int
  BY DEF In, One
<1>. QED
  BY <1>3, <1>4, InboxSum

LEMMA InboxFrame ==
  ASSUME UNCHANGED <<reply, toHost>>, NEW h \in Hosts
  PROVE  Inbox(h)' = Inbox(h)
  BY DEF Inbox

\* A push to a compute queue.
LEMMA BenchPush ==
  ASSUME TypeOK, TypeOK', NEW g \in Hosts, NEW m \in Task, running[g],
         computeQueue' = Push(computeQueue, g, m), UNCHANGED <<toHost, computing>>,
         NEW h \in Hosts, NEW types, NEW o, NEW i
  PROVE  Count(Bench(h)', types, o, i)
           = Count(Bench(h), types, o, i) + One(h = g /\ Matches(m, types, o, i))
<1>1. /\ computeQueue[g] \in Seq(Task) /\ computeQueue \in [Hosts -> Seq(Task)]
      /\ computeQueue' = [computeQueue EXCEPT ![g] = Append(@, m)]
  BY DEF TypeOK, HostTypeOK, Push
<1>2. Count(Append(computeQueue[g], m), types, o, i)
        = Count(computeQueue[g], types, o, i) + One(Matches(m, types, o, i))
  BY <1>1, CountAppend
<1>3. Count(computeQueue'[h], types, o, i)
        = Count(computeQueue[h], types, o, i) + One(h = g /\ Matches(m, types, o, i))
  <2>1. CASE h = g
    <3>1. computeQueue'[h] = Append(computeQueue[h], m)
      BY <1>1, <2>1
    <3>2. One(h = g /\ Matches(m, types, o, i)) = One(Matches(m, types, o, i))
      BY <2>1 DEF One
    <3>. QED
      BY <1>2, <2>1, <3>1, <3>2
  <2>2. CASE h # g
    BY <1>1, <2>2, BenchSum DEF One
  <2>. QED
    BY <2>1, <2>2
<1>. QED
  BY <1>3, BenchSum DEF In, One

\* The compute thread takes a task from its queue.
LEMMA BenchPopped ==
  ASSUME TypeOK, TypeOK', NEW g \in Hosts, ComputePop(g),
         NEW h \in Hosts, NEW types, NEW o, NEW i
  PROVE  Count(Bench(h)', types, o, i) = Count(Bench(h), types, o, i)
<1>1. /\ computeQueue[g] \in Seq(Task) /\ computeQueue[g] # << >>
      /\ computeQueue \in [Hosts -> Seq(Task)] /\ computing \in [Hosts -> Task \cup {None}]
      /\ computing[g] = None
  BY DEF ComputePop, TypeOK, HostTypeOK
<1>2. /\ computing' = [computing EXCEPT ![g] = Head(computeQueue[g])]
      /\ computeQueue' = [computeQueue EXCEPT ![g] = Tail(@)]
      /\ UNCHANGED toHost
  BY DEF ComputePop, linkVars
<1>3. Head(computeQueue[g]) \in Task /\ Tail(computeQueue[g]) \in Seq(Task)
  BY <1>1
<1>4. Count(computeQueue[g], types, o, i)
        = One(Matches(Head(computeQueue[g]), types, o, i)) + Count(Tail(computeQueue[g]), types, o, i)
  BY <1>1, CountTail
<1>5. In(Head(computeQueue[g]), types, o, i) = One(Matches(Head(computeQueue[g]), types, o, i))
  BY <1>3, NoneIsNoMessage DEF In, One
<1>6. /\ In(None, types, o, i) = 0 /\ In(toHost[h], types, o, i) \in Int
      /\ One(Matches(Head(computeQueue[g]), types, o, i)) \in Int
  BY DEF In, One
<1>7. CASE h = g
  <2>1. computing'[h] = Head(computeQueue[g]) /\ computeQueue'[h] = Tail(computeQueue[g])
    BY <1>1, <1>2, <1>7
  <2>2. Count(Tail(computeQueue[g]), types, o, i) \in Nat
    BY <1>3, CountType
  <2>. QED
    BY <1>1, <1>2, <1>4, <1>5, <1>6, <1>7, <2>1, <2>2, BenchSum
<1>8. CASE h # g
  BY <1>1, <1>2, <1>8, BenchSum
<1>. QED
  BY <1>7, <1>8

\* The compute thread has finished a task.
Completes(g) ==
  computing[g] # None /\ computing' = [computing EXCEPT ![g] = None] /\ UNCHANGED <<toHost, computeQueue>>

LEMMA BenchDone ==
  ASSUME TypeOK, TypeOK', NEW g \in Hosts, Completes(g),
         NEW h \in Hosts, NEW types, NEW o, NEW i
  PROVE  Count(Bench(h), types, o, i)
           = Count(Bench(h)', types, o, i) + One(h = g /\ Matches(computing[g], types, o, i))
<1>1. /\ computing \in [Hosts -> Task \cup {None}]
      /\ computing[g] # None /\ computing' = [computing EXCEPT ![g] = None]
      /\ UNCHANGED <<toHost, computeQueue>>
  BY DEF TypeOK, HostTypeOK, Completes
<1>2. In(computing[h], types, o, i)
        = In(computing'[h], types, o, i) + One(h = g /\ Matches(computing[g], types, o, i))
  BY <1>1 DEF In, One
<1>3. /\ In(toHost[h], types, o, i) \in Int /\ In(computing'[h], types, o, i) \in Int
      /\ One(h = g /\ Matches(computing[g], types, o, i)) \in Int
  BY DEF In, One
<1>. QED
  BY <1>1, <1>2, <1>3, BenchSum

\* The host reads a message that is no task for it.
LEMMA BenchTaken ==
  ASSUME TypeOK, TypeOK', NEW g \in Hosts, NEW type, ReadFromSwitch(g, type),
         UNCHANGED <<computeQueue, computing>>,
         NEW h \in Hosts, NEW types, type \notin types, NEW o, NEW i
  PROVE  Count(Bench(h)', types, o, i) = Count(Bench(h), types, o, i)
<1>1. toHost \in [Hosts -> Message \cup {None}] /\ toHost[g] # None /\ toHost[g].type = type
  BY DEF TypeOK, LinksTypeOK, ReadFromSwitch
<1>2. toHost' = [toHost EXCEPT ![g] = None]
  BY DEF ReadFromSwitch
<1>3. In(toHost'[h], types, o, i) = In(toHost[h], types, o, i)
  BY <1>1, <1>2 DEF In, One, Matches
<1>. QED
  BY <1>3, BenchSum

\* The host reads a task and queues it.
LEMMA BenchQueued ==
  ASSUME TypeOK, TypeOK', NEW g \in Hosts, running[g], RecvExpertInput(g),
         NEW h \in Hosts, NEW types, NEW o, NEW i
  PROVE  Count(Bench(h)', types, o, i) = Count(Bench(h), types, o, i)
<1>1. /\ toHost \in [Hosts -> Message \cup {None}] /\ toHost[g] # None
      /\ computeQueue \in [Hosts -> Seq(Task)]
  BY DEF TypeOK, LinksTypeOK, HostTypeOK, RecvExpertInput, ReadFromSwitch
<1>2. /\ toHost' = [toHost EXCEPT ![g] = None]
      /\ computeQueue' = [computeQueue EXCEPT ![g] = Append(@, toHost[g])]
      /\ UNCHANGED computing
  BY <1>1 DEF RecvExpertInput, ReadFromSwitch, Push
<1>3. CASE h = g
  <2>1. toHost[g] \in Task
    BY <1>1, HostMessageTypes DEF RecvExpertInput, ReadFromSwitch
  <2>2. Count(Append(computeQueue[g], toHost[g]), types, o, i)
          = Count(computeQueue[g], types, o, i) + One(Matches(toHost[g], types, o, i))
    BY <1>1, <2>1, CountAppend
  <2>3. /\ In(toHost[g], types, o, i) = One(Matches(toHost[g], types, o, i))
        /\ One(Matches(toHost[g], types, o, i)) \in Int
        /\ In(None, types, o, i) = 0
        /\ In(computing[g], types, o, i) \in Int
    BY <1>1 DEF In, One
  <2>4. toHost'[h] = None /\ computeQueue'[h] = Append(computeQueue[g], toHost[g])
    BY <1>1, <1>2, <1>3
  <2>. QED
    BY <1>2, <1>3, <2>2, <2>3, <2>4, BenchSum
<1>4. CASE h # g
  BY <1>1, <1>2, <1>4, BenchSum
<1>. QED
  BY <1>3, <1>4

\* A reader writes to a host.
LEMMA BenchGiven ==
  ASSUME TypeOK, TypeOK', NEW t \in Hosts, NEW m \in Message, WriteToHost(t, m),
         UNCHANGED <<computeQueue, computing>>,
         NEW h \in Hosts, NEW types, NEW o, NEW i
  PROVE  Count(Bench(h)', types, o, i)
           = Count(Bench(h), types, o, i) + One(h = t /\ Matches(m, types, o, i))
<1>1. toHost \in [Hosts -> Message \cup {None}] /\ toHost[t] = None /\ m # None
  BY NoneIsNoMessage DEF TypeOK, LinksTypeOK, WriteToHost
<1>2. toHost' = [toHost EXCEPT ![t] = m]
  BY DEF WriteToHost
<1>3. In(toHost'[h], types, o, i)
        = In(toHost[h], types, o, i) + One(h = t /\ Matches(m, types, o, i))
  BY <1>1, <1>2 DEF In, One
<1>4. /\ In(toHost[h], types, o, i) \in Int /\ In(computing[h], types, o, i) \in Int
      /\ One(h = t /\ Matches(m, types, o, i)) \in Int
  BY DEF In, One
<1>. QED
  BY <1>3, <1>4, BenchSum

LEMMA BenchFrame ==
  ASSUME UNCHANGED <<toHost, computeQueue, computing>>, NEW h \in Hosts
  PROVE  Bench(h)' = Bench(h)
  BY DEF Bench

-----------------------------------------------------------------------------
(* The ledger of a token *)

LEMMA PathCountsNow ==
  ASSUME TypeOK, NEW h \in Hosts, NEW types, NEW o, NEW i
  PROVE  /\ Count(Outbox(h), types, o, i) \in Nat
         /\ Count(Inbox(h), types, o, i) \in Nat
         /\ Count(Bench(h), types, o, i) \in Nat
<1>1. \A x : In(x, types, o, i) \in Nat
  BY DEF In, One
<1>. QED
  BY <1>1, OutboxSumNow, InboxSumNow, BenchSumNow

LEMMA PathCounts ==
  ASSUME TypeOK, TypeOK', NEW h \in Hosts, NEW types, NEW o, NEW i
  PROVE  /\ Count(Outbox(h), types, o, i) \in Nat /\ Count(Outbox(h)', types, o, i) \in Nat
         /\ Count(Inbox(h), types, o, i) \in Nat /\ Count(Inbox(h)', types, o, i) \in Nat
         /\ Count(Bench(h), types, o, i) \in Nat /\ Count(Bench(h)', types, o, i) \in Nat
<1>1. sendQueue'[h] \in Seq(Message) /\ computeQueue'[h] \in Seq(Task)
  BY DEF TypeOK, HostTypeOK
<1>2. Count(sendQueue'[h], types, o, i) \in Nat /\ Count(computeQueue'[h], types, o, i) \in Nat
  BY <1>1, CountType
<1>3. \A x : In(x, types, o, i) \in Nat
  BY DEF In, One
<1>. QED
  BY <1>2, <1>3, PathCountsNow, OutboxSum, InboxSum, BenchSum

LEMMA TokenCountsNow ==
  ASSUME TypeOK, NEW h \in Hosts, NEW i
  PROVE  /\ Attentions(h, i) \in Nat /\ Dispatches(h, i) \in Nat /\ Acks(h, i) \in Nat
         /\ PullRequests(h, i) \in Nat /\ Refusals(h, i) \in Nat /\ Results(h, i) \in Nat
  BY PathCountsNow DEF Attentions, Dispatches, Acks, PullRequests, Refusals, Results

LEMMA TokenCounts ==
  ASSUME TypeOK, TypeOK', NEW h \in Hosts, NEW i
  PROVE  /\ Attentions(h, i) \in Nat /\ Attentions(h, i)' \in Nat
         /\ Dispatches(h, i) \in Nat /\ Dispatches(h, i)' \in Nat
         /\ Acks(h, i) \in Nat /\ Acks(h, i)' \in Nat
         /\ PullRequests(h, i) \in Nat /\ PullRequests(h, i)' \in Nat
         /\ Refusals(h, i) \in Nat /\ Refusals(h, i)' \in Nat
         /\ Results(h, i) \in Nat /\ Results(h, i)' \in Nat
  BY PathCounts DEF Attentions, Dispatches, Acks, PullRequests, Refusals, Results

\* The paths that a token takes, and its marks: what its ledger adds up.
SendPathKept(h, i) ==
  Dispatches(h, i)' = Dispatches(h, i) /\ PullRequests(h, i)' = PullRequests(h, i)

AnswerPathKept(h, i) ==
  Acks(h, i)' = Acks(h, i) /\ Refusals(h, i)' = Refusals(h, i) /\ Results(h, i)' = Results(h, i)

TaskPathKept(h, i) == Attentions(h, i)' = Attentions(h, i)

MarksKept(h, i) ==
  /\ i < nextToAdmit'[h] <=> i < nextToAdmit[h]
  /\ i \in attentionDone'[h] <=> i \in attentionDone[h]
  /\ i \in dispatchAcked'[h] <=> i \in dispatchAcked[h]
  /\ i \in needPull'[h] <=> i \in needPull[h]
  /\ i \in pullInflight'[h] <=> i \in pullInflight[h]
  /\ i \in combineDone'[h] <=> i \in combineDone[h]
  /\ combineQueue'[<<h, i>>] = None <=> combineQueue[<<h, i>>] = None

LEMMA TokenFrame ==
  ASSUME NEW h \in Hosts, NEW i \in Tokens, TokenLedger(h, i),
         SendPathKept(h, i), AnswerPathKept(h, i), TaskPathKept(h, i), MarksKept(h, i)
  PROVE  TokenLedger(h, i)'
  BY DEF TokenLedger, SendPathKept, AnswerPathKept, TaskPathKept, MarksKept, SlotsOf, One

LEMMA SendPathFrame2 ==
  ASSUME UNCHANGED <<sendQueue, sending, toSwitch>>, NEW h \in Hosts, NEW i
  PROVE  SendPathKept(h, i)
  BY OutboxFrame DEF SendPathKept, Dispatches, PullRequests

LEMMA AnswerPathFrame ==
  ASSUME UNCHANGED <<reply, toHost>>, NEW h \in Hosts, NEW i
  PROVE  AnswerPathKept(h, i)
  BY InboxFrame DEF AnswerPathKept, Acks, Refusals, Results

LEMMA TaskPathFrame2 ==
  ASSUME UNCHANGED <<toHost, computeQueue, computing>>, NEW h \in Hosts, NEW i
  PROVE  TaskPathKept(h, i)
  BY BenchFrame DEF TaskPathKept, Attentions

\* The three answers, of which the host has read one.
LEMMA AnswerRead ==
  ASSUME TypeOK, TypeOK', NEW g \in Hosts, NEW type, ReadFromSwitch(g, type), UNCHANGED reply,
         type \notin {"ACK", "NOT_READY", "COMBINE_RESULT"} \/ toHost[g].origin = g,
         NEW h \in Hosts, NEW i
  PROVE  /\ Acks(h, i) = Acks(h, i)' + One(type = "ACK" /\ h = g /\ i = toHost[g].idx)
         /\ Refusals(h, i) = Refusals(h, i)' + One(type = "NOT_READY" /\ h = g /\ i = toHost[g].idx)
         /\ Results(h, i) = Results(h, i)' + One(type = "COMBINE_RESULT" /\ h = g /\ i = toHost[g].idx)
<1>1. /\ Acks(h, i) = Acks(h, i)' + One(h = g /\ Matches(toHost[g], {"ACK"}, h, i))
      /\ Refusals(h, i) = Refusals(h, i)' + One(h = g /\ Matches(toHost[g], {"NOT_READY"}, h, i))
      /\ Results(h, i) = Results(h, i)' + One(h = g /\ Matches(toHost[g], {"COMBINE_RESULT"}, h, i))
  BY InboxTaken DEF Acks, Refusals, Results
<1>2. toHost[g].type = type
  BY DEF ReadFromSwitch
<1>. QED
  BY <1>1, <1>2 DEF One, Matches

LEMMA RecvAckToken ==
  ASSUME TypeOK, TypeOK', Addressed, NEW g \in Hosts, RecvAck(g), UNCHANGED switchVars,
         NEW h \in Hosts, NEW i \in Tokens, TokenLedger(h, i)
  PROVE  TokenLedger(h, i)'
<1> DEFINE m == toHost[g]
<1> USE DEF switchVars, readerVars, queueVars, tokenVars, windowVars, controlVars
<1>1. m.type = "ACK" /\ m.origin = g /\ m.idx \in Tokens
  BY DEF RecvAck, ReadFromSwitch, Addressed, ReceivePathAddressed, SentTo, AnswerFor
<1>2. SendPathKept(h, i)
  BY SendPathFrame2 DEF RecvAck, ReadFromSwitch
<1>3. TaskPathKept(h, i)
  BY BenchTaken DEF RecvAck, TaskPathKept, Attentions
<1>4. /\ Acks(h, i) = Acks(h, i)' + One(h = g /\ i = m.idx)
      /\ Refusals(h, i)' = Refusals(h, i) /\ Results(h, i)' = Results(h, i)
  BY <1>1, AnswerRead, TokenCounts DEF RecvAck, One
<1>5. TokenOf(m) = {m.idx}
  BY <1>1 DEF TokenOf
<1>6. /\ dispatchAcked' = [dispatchAcked EXCEPT ![g] = @ \cup {m.idx}]
      /\ dispatchAcked \in [Hosts -> SUBSET Tokens]
  BY <1>5 DEF RecvAck, TypeOK, HostTypeOK
<1>7. CASE h = g /\ i = m.idx
  <2>1. Acks(h, i) = Acks(h, i)' + 1
    BY <1>4, <1>7 DEF One
  <2>2. i \in dispatchAcked'[h]
    BY <1>6, <1>7
  <2>. QED
    BY <1>2, <1>3, <1>4, <2>1, <2>2, TokenCounts
    DEF RecvAck, SendPathKept, TaskPathKept, TokenLedger, SlotsOf, One
<1>8. CASE ~(h = g /\ i = m.idx)
  <2>1. AnswerPathKept(h, i)
    BY <1>4, <1>8, TokenCounts DEF AnswerPathKept, One
  <2>2. MarksKept(h, i)
    BY <1>6, <1>8 DEF RecvAck, MarksKept
  <2>. QED
    BY <1>2, <1>3, <2>1, <2>2, TokenFrame
<1>. QED
  BY <1>7, <1>8

\* The host has read an answer to its pull.
LEMMA RecvPullAnswerToken ==
  ASSUME TypeOK, TypeOK', Addressed, NEW g \in Hosts, RecvNotReady(g) \/ RecvCombineResult(g),
         UNCHANGED switchVars,
         NEW h \in Hosts, NEW i \in Tokens, TokenLedger(h, i)
  PROVE  TokenLedger(h, i)'
<1> DEFINE m == toHost[g]
<1> USE DEF switchVars, readerVars, queueVars, tokenVars, windowVars, controlVars
<1>1. /\ m.type \in {"NOT_READY", "COMBINE_RESULT"} /\ m.origin = g /\ m.idx \in Tokens
      /\ ReadFromSwitch(g, m.type)
  BY DEF RecvNotReady, RecvCombineResult, ReadFromSwitch, Addressed, ReceivePathAddressed, SentTo, AnswerFor
<1>2. SendPathKept(h, i)
  BY <1>1, SendPathFrame2 DEF RecvNotReady, RecvCombineResult, ReadFromSwitch
<1>3. TaskPathKept(h, i)
  BY <1>1, BenchTaken DEF RecvNotReady, RecvCombineResult, TaskPathKept, Attentions
<1>4. /\ Acks(h, i)' = Acks(h, i)
      /\ Refusals(h, i) = Refusals(h, i)' + One(m.type = "NOT_READY" /\ h = g /\ i = m.idx)
      /\ Results(h, i) = Results(h, i)' + One(m.type = "COMBINE_RESULT" /\ h = g /\ i = m.idx)
  BY <1>1, AnswerRead, TokenCounts DEF RecvNotReady, RecvCombineResult, One
<1>5. TokenOf(m) = {m.idx}
  BY <1>1 DEF TokenOf
<1>6. /\ pullInflight' = [pullInflight EXCEPT ![g] = @ \ {m.idx}]
      /\ pullInflight \in [Hosts -> SUBSET Tokens]
      /\ combineDone' = IF m.type = "NOT_READY" THEN combineDone
                        ELSE [combineDone EXCEPT ![g] = @ \cup {m.idx}]
      /\ combineDone \in [Hosts -> SUBSET Tokens]
      /\ UNCHANGED <<nextToAdmit, attentionDone, dispatchAcked, needPull, combineQueue>>
  BY <1>5 DEF RecvNotReady, RecvCombineResult, ReadFromSwitch, TypeOK, HostTypeOK
<1>7. CASE h = g /\ i = m.idx
  <2>1. i \notin pullInflight'[h]
    BY <1>6, <1>7
  <2>2. CASE m.type = "NOT_READY"
    <3>1. Refusals(h, i) = Refusals(h, i)' + 1 /\ Results(h, i) = Results(h, i)'
      BY <1>4, <1>7, <2>2, TokenCounts DEF One
    <3>. QED
      BY <1>2, <1>3, <1>4, <1>6, <2>1, <2>2, <3>1, TokenCounts
      DEF SendPathKept, TaskPathKept, TokenLedger, SlotsOf, One
  <2>3. CASE m.type = "COMBINE_RESULT"
    <3>1. Refusals(h, i) = Refusals(h, i)' /\ Results(h, i) = Results(h, i)' + 1
      BY <1>4, <1>7, <2>3, TokenCounts DEF One
    <3>2. i \in combineDone'[h]
      BY <1>6, <1>7, <2>3
    <3>. QED
      BY <1>2, <1>3, <1>4, <1>6, <2>1, <3>1, <3>2, TokenCounts
      DEF SendPathKept, TaskPathKept, TokenLedger, SlotsOf, One
  <2>. QED
    BY <1>1, <2>2, <2>3
<1>8. CASE ~(h = g /\ i = m.idx)
  <2>1. AnswerPathKept(h, i)
    BY <1>4, <1>8, TokenCounts DEF AnswerPathKept, One
  <2>2. MarksKept(h, i)
    BY <1>6, <1>8 DEF MarksKept
  <2>. QED
    BY <1>2, <1>3, <2>1, <2>2, TokenFrame
<1>. QED
  BY <1>7, <1>8

LEMMA RecvOtherToken ==
  ASSUME TypeOK, TypeOK', NEW g \in Hosts, running[g], RecvExpertInput(g) \/ RecvFinish(g),
         UNCHANGED switchVars,
         NEW h \in Hosts, NEW i \in Tokens, TokenLedger(h, i)
  PROVE  TokenLedger(h, i)'
<1> USE DEF switchVars, readerVars, queueVars, tokenVars, windowVars, controlVars
<1>1. SendPathKept(h, i)
  BY SendPathFrame2 DEF RecvExpertInput, RecvFinish, ReadFromSwitch
<1>2. TaskPathKept(h, i)
  BY BenchTaken, BenchQueued DEF RecvFinish, TaskPathKept, Attentions
<1>3. AnswerPathKept(h, i)
  <2>1. PICK type \in {"EXPERT_INPUT", "FINISH"} : ReadFromSwitch(g, type)
    BY DEF RecvExpertInput, RecvFinish
  <2>. QED
    BY <2>1, AnswerRead, TokenCounts DEF AnswerPathKept, One
<1>4. MarksKept(h, i)
  BY DEF RecvExpertInput, RecvFinish, MarksKept
<1>. QED
  BY <1>1, <1>2, <1>3, <1>4, TokenFrame

\* A request that a host pushes.
LEMMA RequestPushed ==
  ASSUME TypeOK, TypeOK', NEW g \in Hosts, NEW m \in Message, running[g],
         m.type \notin {"DISPATCH_TOKEN", "COMBINE_PULL_REQ"} \/ m.origin = g,
         sendQueue' = Push(sendQueue, g, m), UNCHANGED <<sending, toSwitch>>,
         NEW h \in Hosts, NEW i
  PROVE  /\ Dispatches(h, i)' = Dispatches(h, i) + One(m.type = "DISPATCH_TOKEN" /\ h = g /\ i = m.idx)
         /\ PullRequests(h, i)' = PullRequests(h, i) + One(m.type = "COMBINE_PULL_REQ" /\ h = g /\ i = m.idx)
<1>1. \A types : Count(Outbox(h)', types, h, i)
                   = Count(Outbox(h), types, h, i) + One(h = g /\ Matches(m, types, h, i))
  BY OutboxPush
<1>. QED
  BY <1>1 DEF Dispatches, PullRequests, One, Matches

\* A request that the switch has read.
LEMMA RequestRead ==
  ASSUME TypeOK, TypeOK', NEW g \in Hosts, NEW type, ReadFromHost(g, type),
         type \notin {"DISPATCH_TOKEN", "COMBINE_PULL_REQ"} \/ toSwitch[g].origin = g,
         UNCHANGED <<sendQueue, sending>>,
         NEW h \in Hosts, NEW i
  PROVE  /\ Dispatches(h, i)
              = Dispatches(h, i)' + One(type = "DISPATCH_TOKEN" /\ h = g /\ i = toSwitch[g].idx)
         /\ PullRequests(h, i)
              = PullRequests(h, i)' + One(type = "COMBINE_PULL_REQ" /\ h = g /\ i = toSwitch[g].idx)
<1>1. /\ Dispatches(h, i)
           = Dispatches(h, i)' + One(h = g /\ Matches(toSwitch[g], {"DISPATCH_TOKEN"}, h, i))
      /\ PullRequests(h, i)
           = PullRequests(h, i)' + One(h = g /\ Matches(toSwitch[g], {"COMBINE_PULL_REQ"}, h, i))
  BY OutboxTaken DEF Dispatches, PullRequests
<1>2. toSwitch[g].type = type
  BY DEF ReadFromHost
<1>. QED
  BY <1>1, <1>2 DEF One, Matches

\* An answer that a reader has decided on.
LEMMA AnswerDecided ==
  ASSUME TypeOK, TypeOK', NEW g \in Hosts, NEW m \in Message, m.origin = g,
         Decides(g, m), NEW h \in Hosts, NEW i
  PROVE  /\ Acks(h, i)' = Acks(h, i) + One(m.type = "ACK" /\ h = g /\ i = m.idx)
         /\ Refusals(h, i)' = Refusals(h, i) + One(m.type = "NOT_READY" /\ h = g /\ i = m.idx)
         /\ Results(h, i)' = Results(h, i) + One(m.type = "COMBINE_RESULT" /\ h = g /\ i = m.idx)
<1>1. \A types : Count(Inbox(h)', types, h, i)
                   = Count(Inbox(h), types, h, i) + One(h = g /\ Matches(m, types, h, i))
  BY InboxReply
<1>. QED
  BY <1>1 DEF Acks, Refusals, Results, One, Matches

\* The control thread admits a token.
LEMMA AdmitTokenToken ==
  ASSUME NEW excused, NEW lost, IInv(excused, lost),
         TypeOK', NEW g \in Hosts, AdmitToken(g), running[g], UNCHANGED switchVars,
         NEW h \in Hosts, NEW i \in Tokens, TokenLedger(h, i)
  PROVE  TokenLedger(h, i)'
<1> DEFINE m == LocalAttention(g, nextToAdmit[g])
<1> USE DEF switchVars, readerVars, linkVars, queueVars, tokenVars, windowVars, controlVars
<1>1. TypeOK
  BY DEF IInv
<1>2. nextToAdmit[g] \in Tokens /\ m \in Task
  <2>1. nextToAdmit[g] < NumTokens
    BY DEF AdmitToken, IInv, TruthfulBut, HostsTruthful, CanAdmit
  <2>2. nextToAdmit[g] \in Nat
    BY <1>1 DEF TypeOK, HostTypeOK
  <2>3. nextToAdmit[g] \in Tokens
    BY <2>1, <2>2, ConstantsAssumption DEF Tokens
  <2>. QED
    BY <1>1, <2>3, HostMessageTypes
<1>3. SendPathKept(h, i) /\ AnswerPathKept(h, i)
  BY SendPathFrame2, AnswerPathFrame DEF AdmitToken
<1>4. Attentions(h, i)' = Attentions(h, i) + One(h = g /\ i = nextToAdmit[g])
  <2>1. Attentions(h, i)' = Attentions(h, i) + One(h = g /\ Matches(m, {"LOCAL_ATTENTION"}, h, i))
    BY <1>1, <1>2, BenchPush DEF AdmitToken, Attentions
  <2>. QED
    BY <2>1 DEF One, Matches, LocalAttention
<1>5. /\ nextToAdmit' = [nextToAdmit EXCEPT ![g] = @ + 1]
      /\ nextToAdmit \in [Hosts -> 0 .. NumTokens]
  BY <1>1 DEF AdmitToken, TypeOK, HostTypeOK
<1>6. CASE h = g /\ i = nextToAdmit[g]
  <2>1. Attentions(h, i)' = Attentions(h, i) + 1
    BY <1>4, <1>6 DEF One
  <2>2. i < nextToAdmit'[h] /\ ~(i < nextToAdmit[h])
    BY <1>2, <1>5, <1>6 DEF Tokens
  <2>. QED
    BY <1>1, <1>3, <2>1, <2>2, TokenCounts
    DEF AdmitToken, SendPathKept, AnswerPathKept, TokenLedger, SlotsOf, One
<1>7. CASE ~(h = g /\ i = nextToAdmit[g])
  <2>1. TaskPathKept(h, i)
    BY <1>1, <1>4, <1>7, TokenCounts DEF TaskPathKept, One
  <2>2. i < nextToAdmit'[h] <=> i < nextToAdmit[h]
    BY <1>5, <1>7 DEF Tokens
  <2>3. MarksKept(h, i)
    BY <2>2 DEF AdmitToken, MarksKept
  <2>. QED
    BY <1>3, <2>1, <2>3, TokenFrame
<1>. QED
  BY <1>6, <1>7

\* control_tick starts pulls.
LEMMA ControlTickToken ==
  ASSUME TypeOK, TypeOK', NEW g \in Hosts, ControlTick(g), UNCHANGED switchVars,
         NEW h \in Hosts, NEW i \in Tokens, TokenLedger(h, i)
  PROVE  TokenLedger(h, i)'
<1> USE DEF switchVars, readerVars, linkVars, queueVars, tokenVars, windowVars, controlVars
<1>1. SendPathKept(h, i) /\ AnswerPathKept(h, i) /\ TaskPathKept(h, i)
  BY SendPathFrame2, AnswerPathFrame, TaskPathFrame2 DEF ControlTick
<1>2. /\ needPull[g] = {}
      /\ needPull' = [needPull EXCEPT ![g] = PullableTokens(g)]
      /\ pullInflight' = [pullInflight EXCEPT ![g] = @ \cup PullableTokens(g)]
      /\ needPull \in [Hosts -> SUBSET Tokens] /\ pullInflight \in [Hosts -> SUBSET Tokens]
      /\ UNCHANGED <<attentionDone, dispatchAcked, combineDone, nextToAdmit, combineQueue>>
  BY DEF ControlTick, TypeOK, HostTypeOK
<1>3. CASE h = g /\ i \in PullableTokens(g)
  <2>1. i \notin pullInflight[h] /\ i \in dispatchAcked[h] /\ i \notin combineDone[h]
    BY <1>3 DEF PullableTokens
  <2>2. i \in needPull'[h] /\ i \in pullInflight'[h]
    BY <1>2, <1>3
  <2>. QED
    BY <1>1, <1>2, <2>1, <2>2, TokenCounts
    DEF SendPathKept, AnswerPathKept, TaskPathKept, TokenLedger, SlotsOf, One
<1>4. CASE ~(h = g /\ i \in PullableTokens(g))
  <2>1. MarksKept(h, i)
    BY <1>2, <1>4 DEF MarksKept
  <2>. QED
    BY <1>1, <2>1, TokenFrame
<1>. QED
  BY <1>3, <1>4

LEMMA EnqueuePullToken ==
  ASSUME TypeOK, TypeOK', NEW g \in Hosts, EnqueuePull(g), running[g], UNCHANGED switchVars,
         NEW h \in Hosts, NEW i \in Tokens, TokenLedger(h, i)
  PROVE  TokenLedger(h, i)'
<1> USE DEF switchVars, readerVars, linkVars, queueVars, tokenVars, windowVars, controlVars
<1>1. PICK k \in needPull[g] : /\ needPull' = [needPull EXCEPT ![g] = @ \ {k}]
                              /\ sendQueue' = Push(sendQueue, g, CombinePullReq(g, k))
  BY DEF EnqueuePull
<1>2. /\ k \in Tokens /\ CombinePullReq(g, k) \in Message
      /\ needPull \in [Hosts -> SUBSET Tokens]
  BY HostMessageTypes DEF TypeOK, HostTypeOK
<1>3. AnswerPathKept(h, i) /\ TaskPathKept(h, i)
  BY AnswerPathFrame, TaskPathFrame2 DEF EnqueuePull
<1>4. CombinePullReq(g, k).type = "COMBINE_PULL_REQ" /\ CombinePullReq(g, k).origin = g
      /\ CombinePullReq(g, k).idx = k
  BY DEF CombinePullReq
<1>5. /\ Dispatches(h, i)' = Dispatches(h, i)
      /\ PullRequests(h, i)' = PullRequests(h, i) + One(h = g /\ i = k)
  BY <1>1, <1>2, <1>4, RequestPushed, TokenCounts DEF EnqueuePull, One
<1>6. CASE h = g /\ i = k
  <2>1. PullRequests(h, i)' = PullRequests(h, i) + 1
    BY <1>5, <1>6 DEF One
  <2>2. i \in needPull[h] /\ i \notin needPull'[h]
    BY <1>1, <1>2, <1>6
  <2>. QED
    BY <1>3, <1>5, <2>1, <2>2, TokenCounts
    DEF EnqueuePull, AnswerPathKept, TaskPathKept, TokenLedger, SlotsOf, One
<1>7. CASE ~(h = g /\ i = k)
  <2>1. SendPathKept(h, i)
    BY <1>5, <1>7, TokenCounts DEF SendPathKept, One
  <2>2. MarksKept(h, i)
    BY <1>1, <1>2, <1>7 DEF EnqueuePull, MarksKept
  <2>. QED
    BY <1>3, <2>1, <2>2, TokenFrame
<1>. QED
  BY <1>6, <1>7

LEMMA EnqueueFinishToken ==
  ASSUME TypeOK, TypeOK', NEW g \in Hosts, EnqueueFinish(g), running[g], UNCHANGED switchVars,
         NEW h \in Hosts, NEW i \in Tokens, TokenLedger(h, i)
  PROVE  TokenLedger(h, i)'
<1> USE DEF switchVars, readerVars, linkVars, queueVars, tokenVars, windowVars, controlVars
<1>1. AnswerPathKept(h, i) /\ TaskPathKept(h, i)
  BY AnswerPathFrame, TaskPathFrame2 DEF EnqueueFinish
<1>2. HostFinish(g) \in Message /\ HostFinish(g).type = "FINISH"
  BY HostMessageTypes DEF HostFinish
<1>3. SendPathKept(h, i)
  BY <1>2, RequestPushed, TokenCounts DEF EnqueueFinish, SendPathKept, One
<1>4. MarksKept(h, i)
  BY DEF EnqueueFinish, MarksKept
<1>. QED
  BY <1>1, <1>3, <1>4, TokenFrame

\* What the compute thread has finished.
LEMMA AttentionDone ==
  ASSUME TypeOK, TypeOK', NEW g \in Hosts, Completes(g), Addressed,
         NEW h \in Hosts, NEW i
  PROVE  Attentions(h, i)
           = Attentions(h, i)'
               + One(computing[g].type = "LOCAL_ATTENTION" /\ h = g /\ i = computing[g].idx)
<1>1. Attentions(h, i)
        = Attentions(h, i)' + One(h = g /\ Matches(computing[g], {"LOCAL_ATTENTION"}, h, i))
  BY BenchDone DEF Attentions
<1>2. computing[g].type = "LOCAL_ATTENTION" => computing[g].origin = g
  BY DEF Completes, Addressed, TaskPathAddressed, TaskOf
<1>. QED
  BY <1>1, <1>2 DEF One, Matches

LEMMA ProcessLocalAttentionToken ==
  ASSUME TypeOK, TypeOK', Addressed, NEW g \in Hosts, ProcessLocalAttention(g), running[g],
         UNCHANGED switchVars,
         NEW h \in Hosts, NEW i \in Tokens, TokenLedger(h, i)
  PROVE  TokenLedger(h, i)'
<1> DEFINE m == DispatchToken(g, computing[g].idx)
<1> USE DEF switchVars, readerVars, linkVars, queueVars, tokenVars, windowVars, controlVars
<1>1. /\ computing[g].idx \in Tokens /\ m \in Message
      /\ m.type = "DISPATCH_TOKEN" /\ m.origin = g /\ m.idx = computing[g].idx
  <2>1. computing[g].idx \in Tokens
    BY DEF ProcessLocalAttention, Addressed, TaskPathAddressed, TaskOf
  <2>. QED
    BY <2>1, HostMessageTypes DEF DispatchToken
<1>2. AnswerPathKept(h, i)
  BY AnswerPathFrame DEF ProcessLocalAttention
<1>3. /\ PullRequests(h, i)' = PullRequests(h, i)
      /\ Dispatches(h, i)' = Dispatches(h, i) + One(h = g /\ i = computing[g].idx)
  BY <1>1, RequestPushed, TokenCounts DEF ProcessLocalAttention, One
<1>4. Attentions(h, i) = Attentions(h, i)' + One(h = g /\ i = computing[g].idx)
  BY AttentionDone DEF ProcessLocalAttention, Completes, One
<1>5. /\ attentionDone' = [attentionDone EXCEPT ![g] = @ \cup {computing[g].idx}]
      /\ attentionDone \in [Hosts -> SUBSET Tokens]
  BY DEF ProcessLocalAttention, TypeOK, HostTypeOK
<1>6. CASE h = g /\ i = computing[g].idx
  <2>1. Dispatches(h, i)' = Dispatches(h, i) + 1 /\ Attentions(h, i) = Attentions(h, i)' + 1
    BY <1>3, <1>4, <1>6 DEF One
  <2>2. i \in attentionDone'[h]
    BY <1>1, <1>5, <1>6
  <2>. QED
    BY <1>2, <1>3, <2>1, <2>2, TokenCounts
    DEF ProcessLocalAttention, AnswerPathKept, TokenLedger, SlotsOf, One
<1>7. CASE ~(h = g /\ i = computing[g].idx)
  <2>1. SendPathKept(h, i) /\ TaskPathKept(h, i)
    BY <1>3, <1>4, <1>7, TokenCounts DEF SendPathKept, TaskPathKept, One
  <2>2. MarksKept(h, i)
    BY <1>5, <1>7 DEF ProcessLocalAttention, MarksKept
  <2>. QED
    BY <1>2, <2>1, <2>2, TokenFrame
<1>. QED
  BY <1>6, <1>7

LEMMA ProcessExpertMlpToken ==
  ASSUME TypeOK, TypeOK', Addressed, NEW g \in Hosts, ProcessExpertMlp(g), running[g],
         UNCHANGED switchVars,
         NEW h \in Hosts, NEW i \in Tokens, TokenLedger(h, i)
  PROVE  TokenLedger(h, i)'
<1> DEFINE m == ExpertResult(g, computing[g])
<1> USE DEF switchVars, readerVars, linkVars, queueVars, tokenVars, windowVars, controlVars
<1>1. m \in Message /\ m.type = "EXPERT_RESULT"
  <2>1. computing[g] \in Task
    BY DEF ProcessExpertMlp, TypeOK, HostTypeOK
  <2>. QED
    BY <2>1, HostMessageTypes DEF ExpertResult, Task, Header
<1>2. AnswerPathKept(h, i)
  BY AnswerPathFrame DEF ProcessExpertMlp
<1>3. SendPathKept(h, i)
  BY <1>1, RequestPushed, TokenCounts DEF ProcessExpertMlp, SendPathKept, One
<1>4. TaskPathKept(h, i)
  <2>1. Completes(g) /\ computing[g].type # "LOCAL_ATTENTION"
    BY DEF ProcessExpertMlp, Completes
  <2>2. Attentions(h, i)
          = Attentions(h, i)'
              + One(computing[g].type = "LOCAL_ATTENTION" /\ h = g /\ i = computing[g].idx)
    BY <2>1, AttentionDone
  <2>. QED
    BY <2>1, <2>2, TokenCounts DEF TaskPathKept, One
<1>5. MarksKept(h, i)
  BY DEF ProcessExpertMlp, MarksKept
<1>. QED
  BY <1>2, <1>3, <1>4, <1>5, TokenFrame

LEMMA MovedToken ==
  ASSUME TypeOK, TypeOK', NEW g \in Hosts,
         ComputePop(g) \/ SendThread(g) \/ BackOffExpires(g) \/ HostExit(g), UNCHANGED switchVars,
         NEW h \in Hosts, NEW i \in Tokens, TokenLedger(h, i)
  PROVE  TokenLedger(h, i)'
<1> USE DEF switchVars, readerVars, linkVars, hostVars, queueVars, tokenVars, windowVars, controlVars
<1>1. SendPathKept(h, i)
  <2>1. CASE SendThread(g)
    BY <2>1, OutboxMoved DEF SendPathKept, Dispatches, PullRequests
  <2>2. CASE ~SendThread(g)
    BY <2>2, SendPathFrame2 DEF ComputePop, BackOffExpires, HostExit
  <2>. QED
    BY <2>1, <2>2
<1>2. AnswerPathKept(h, i)
  BY AnswerPathFrame
  DEF ComputePop, SendThread, SendPop, SendWrite, WriteToSwitch, BackOffExpires, HostExit
<1>3. TaskPathKept(h, i)
  <2>1. CASE ComputePop(g)
    BY <2>1, BenchPopped DEF TaskPathKept, Attentions
  <2>2. CASE ~ComputePop(g)
    BY <2>2, TaskPathFrame2 DEF SendThread, SendPop, SendWrite, WriteToSwitch, BackOffExpires, HostExit
  <2>. QED
    BY <2>1, <2>2
<1>4. MarksKept(h, i)
  BY DEF ComputePop, SendThread, SendPop, SendWrite, BackOffExpires, HostExit, MarksKept
<1>. QED
  BY <1>1, <1>2, <1>3, <1>4, TokenFrame

\* handle_dispatch_token: the first and only slot of the token.
LEMMA HandleDispatchTokenToken ==
  ASSUME NEW excused, NEW lost, IInv(excused, lost),
         TypeOK', Addressed, NEW r \in Hosts, HandleDispatchToken(r), UNCHANGED hostVars,
         NEW h \in Hosts, NEW i \in Tokens, TokenLedger(h, i)
  PROVE  TokenLedger(h, i)'
<1> DEFINE m == toSwitch[r]
           experts == DecodeExpertIds(m.bitmap) \cap ConnectedHosts
<1> USE DEF hostVars, queueVars, tokenVars, windowVars, controlVars
<1>1. TypeOK
  BY DEF IInv
<1>2. /\ m \in Message /\ m.type = "DISPATCH_TOKEN" /\ m.origin = r /\ m.idx \in Tokens
      /\ ReadFromHost(r, "DISPATCH_TOKEN")
  BY <1>1 DEF HandleDispatchToken, ReadFromHost, Addressed, SendPathAddressed, SentBy, TypeOK, LinksTypeOK
<1>3. /\ SwitchAck(m) \in Message
      /\ SwitchAck(m).type = "ACK" /\ SwitchAck(m).origin = r /\ SwitchAck(m).idx = m.idx
  BY <1>2, SwitchMessageTypes DEF SwitchAck, Message, Header
<1>4. /\ Dispatches(h, i) = Dispatches(h, i)' + One(h = r /\ i = m.idx)
      /\ PullRequests(h, i)' = PullRequests(h, i)
  BY <1>1, <1>2, RequestRead, TokenCounts DEF One
<1>5. /\ Acks(h, i)' = Acks(h, i) + One(h = r /\ i = m.idx)
      /\ Refusals(h, i)' = Refusals(h, i) /\ Results(h, i)' = Results(h, i)
  <2>1. Decides(r, SwitchAck(m))
    BY DEF HandleDispatchToken, ReaderIdle, ReadFromHost, Decides
  <2>. QED
    BY <1>1, <1>3, <2>1, AnswerDecided, TokenCounts DEF One
<1>6. TaskPathKept(h, i)
  BY TaskPathFrame2 DEF HandleDispatchToken, ReadFromHost
<1>7. /\ combineQueue' = [combineQueue EXCEPT ![<<r, m.idx>>] = NewSlot(experts)]
      /\ combineQueue \in [CombineKey -> QueueSlot \cup {None}]
      /\ <<r, m.idx>> \in CombineKey
      /\ NewSlot(experts) # None
  <2>1. NewSlot(experts) \in QueueSlot
    BY DEF NewSlot, QueueSlot, Bitmap, ConnectedHosts, Byte
  <2>. QED
    BY <1>1, <1>2, <2>1, NoSlotAssumption
    DEF HandleDispatchToken, MakeKey, CombineKey, TypeOK, SwitchTypeOK
<1>8. CASE h = r /\ i = m.idx
  <2>1. Dispatches(h, i) = Dispatches(h, i)' + 1 /\ Acks(h, i)' = Acks(h, i) + 1
    BY <1>4, <1>5, <1>8 DEF One
  <2>2. combineQueue'[<<h, i>>] # None
    BY <1>7, <1>8
  <2>. QED
    BY <1>1, <1>4, <1>5, <1>6, <2>1, <2>2, TokenCounts
    DEF TaskPathKept, TokenLedger, SlotsOf, One
<1>9. CASE ~(h = r /\ i = m.idx)
  <2>1. SendPathKept(h, i) /\ AnswerPathKept(h, i)
    BY <1>1, <1>4, <1>5, <1>9, TokenCounts DEF SendPathKept, AnswerPathKept, One
  <2>2. MarksKept(h, i)
    BY <1>7, <1>9 DEF MarksKept
  <2>. QED
    BY <1>6, <2>1, <2>2, TokenFrame
<1>. QED
  BY <1>8, <1>9

\* handle_expert_result keeps every slot.
LEMMA ResultKeepsSlot ==
  ASSUME NEW excused, NEW lost, IInv(excused, lost), Addressed,
         NEW r \in Hosts, HandleExpertResult(r), NEW h \in Hosts, NEW i \in Tokens
  PROVE  combineQueue'[<<h, i>>] = None <=> combineQueue[<<h, i>>] = None
<1> DEFINE m == toSwitch[r]
           slot == combineQueue[MakeKey(m)]
<1>1. CASE Accepts(m)
  <2>1. /\ slot \in QueueSlot /\ slot # None /\ m.data \in Byte /\ m.src \in Hosts
        /\ MakeKey(m) \in CombineKey
    BY <1>1, SlotOfMessage DEF HandleExpertResult, ReadFromHost, Accepts, Message, Header
  <2>2. AddResult(slot, m) \in QueueSlot
    BY <2>1, ByteTypes DEF AddResult, QueueSlot, Bitmap
  <2>3. combineQueue' = [combineQueue EXCEPT ![MakeKey(m)] = AddResult(slot, m)]
    BY <1>1 DEF HandleExpertResult
  <2>4. <<h, i>> \in CombineKey /\ combineQueue \in [CombineKey -> QueueSlot \cup {None}]
    BY DEF IInv, CombineKey, TypeOK, SwitchTypeOK
  <2>. QED
    BY <2>1, <2>2, <2>3, <2>4, NoSlotAssumption
<1>2. CASE ~Accepts(m)
  BY <1>2 DEF HandleExpertResult
<1>. QED
  BY <1>1, <1>2

LEMMA HandleExpertResultToken ==
  ASSUME NEW excused, NEW lost, IInv(excused, lost),
         TypeOK', Addressed, NEW r \in Hosts, HandleExpertResult(r), UNCHANGED hostVars,
         NEW h \in Hosts, NEW i \in Tokens, TokenLedger(h, i)
  PROVE  TokenLedger(h, i)'
<1> USE DEF hostVars, readerVars, queueVars, tokenVars, windowVars, controlVars
<1>1. TypeOK
  BY DEF IInv
<1>2. SendPathKept(h, i)
  BY <1>1, RequestRead, TokenCounts DEF HandleExpertResult, SendPathKept, One
<1>3. AnswerPathKept(h, i) /\ TaskPathKept(h, i)
  BY AnswerPathFrame, TaskPathFrame2 DEF HandleExpertResult, ReadFromHost
<1>4. combineQueue'[<<h, i>>] = None <=> combineQueue[<<h, i>>] = None
  BY ResultKeepsSlot
<1>5. MarksKept(h, i)
  BY <1>4 DEF MarksKept
<1>. QED
  BY <1>2, <1>3, <1>5, TokenFrame

\* A pull request that is answered names a token of the host that sent it.
LEMMA PullRequestSound ==
  ASSUME TypeOK, Addressed, NEW r \in Hosts, HandlePullReady(r) \/ HandlePullNotReady(r)
  PROVE  /\ toSwitch[r] \in Message /\ toSwitch[r].origin = r /\ toSwitch[r].idx \in Tokens
         /\ ReadFromHost(r, "COMBINE_PULL_REQ") /\ MakeKey(toSwitch[r]) = <<r, toSwitch[r].idx>>
<1>1. ReadFromHost(r, "COMBINE_PULL_REQ")
  BY DEF HandlePullReady, HandlePullNotReady
<1>2. toSwitch[r] # None /\ toSwitch[r].type = "COMBINE_PULL_REQ"
  BY <1>1 DEF ReadFromHost
<1>3. toSwitch[r] \in Message
  BY <1>2 DEF TypeOK, LinksTypeOK
<1>4. toSwitch[r].origin = r /\ toSwitch[r].idx \in Tokens
  BY <1>2, <1>3 DEF Addressed, SendPathAddressed, SentBy
<1>. QED
  BY <1>1, <1>3, <1>4 DEF MakeKey

\* handle_combine_pull_req hands out the slot, or refuses.
LEMMA HandlePullToken ==
  ASSUME NEW excused, NEW lost, IInv(excused, lost),
         TypeOK', Addressed, NEW r \in Hosts, HandlePullReady(r) \/ HandlePullNotReady(r),
         UNCHANGED hostVars,
         NEW h \in Hosts, NEW i \in Tokens, TokenLedger(h, i)
  PROVE  TokenLedger(h, i)'
<1> DEFINE m == toSwitch[r]
           slot == combineQueue[MakeKey(m)]
           answer == IF HandlePullReady(r) THEN CombineResult(m, slot) ELSE NotReady(m)
<1> USE DEF hostVars, queueVars, tokenVars, windowVars, controlVars
<1>1. TypeOK
  BY DEF IInv
<1>2. /\ m \in Message /\ m.origin = r /\ m.idx \in Tokens
      /\ ReadFromHost(r, "COMBINE_PULL_REQ") /\ MakeKey(m) = <<r, m.idx>>
  BY <1>1, PullRequestSound
<1>3. /\ Dispatches(h, i)' = Dispatches(h, i)
      /\ PullRequests(h, i) = PullRequests(h, i)' + One(h = r /\ i = m.idx)
  BY <1>1, <1>2, RequestRead, TokenCounts DEF One
<1>4. TaskPathKept(h, i)
  BY TaskPathFrame2 DEF HandlePullReady, HandlePullNotReady, ReadFromHost
<1>5. CASE HandlePullReady(r)
  <2>1. slot \in QueueSlot /\ slot # None
    BY <1>5, SlotOfMessage DEF HandlePullReady, ReadyToCombine, ReadFromHost
  <2>2. /\ CombineResult(m, slot) \in Message
        /\ CombineResult(m, slot).type = "COMBINE_RESULT" /\ CombineResult(m, slot).origin = r
        /\ CombineResult(m, slot).idx = m.idx
    BY <1>2, <2>1, SwitchMessageTypes DEF CombineResult, Message, Header
  <2>3. Decides(r, CombineResult(m, slot))
    BY <1>5 DEF HandlePullReady, ReaderIdle, ReadFromHost, Decides
  <2>4. /\ Acks(h, i)' = Acks(h, i) /\ Refusals(h, i)' = Refusals(h, i)
        /\ Results(h, i)' = Results(h, i) + One(h = r /\ i = m.idx)
    BY <1>1, <2>2, <2>3, AnswerDecided, TokenCounts DEF One
  <2>5. /\ combineQueue' = [combineQueue EXCEPT ![<<r, m.idx>>] = None]
        /\ combineQueue \in [CombineKey -> QueueSlot \cup {None}]
        /\ <<r, m.idx>> \in CombineKey
    BY <1>1, <1>2, <1>5 DEF HandlePullReady, CombineKey, TypeOK, SwitchTypeOK
  <2>6. CASE h = r /\ i = m.idx
    <3>1. PullRequests(h, i) = PullRequests(h, i)' + 1 /\ Results(h, i)' = Results(h, i) + 1
      BY <1>3, <2>4, <2>6 DEF One
    <3>2. combineQueue[<<h, i>>] # None /\ combineQueue'[<<h, i>>] = None
      BY <1>2, <2>1, <2>5, <2>6
    <3>. QED
      BY <1>1, <1>3, <1>4, <2>4, <3>1, <3>2, TokenCounts DEF TaskPathKept, TokenLedger, SlotsOf, One
  <2>7. CASE ~(h = r /\ i = m.idx)
    <3>1. SendPathKept(h, i) /\ AnswerPathKept(h, i)
      BY <1>1, <1>3, <2>4, <2>7, TokenCounts DEF SendPathKept, AnswerPathKept, One
    <3>2. MarksKept(h, i)
      BY <2>5, <2>7 DEF MarksKept
    <3>. QED
      BY <1>4, <3>1, <3>2, TokenFrame
  <2>. QED
    BY <2>6, <2>7
<1>6. CASE HandlePullNotReady(r)
  <2>2. /\ NotReady(m) \in Message
        /\ NotReady(m).type = "NOT_READY" /\ NotReady(m).origin = r /\ NotReady(m).idx = m.idx
    BY <1>2, SwitchMessageTypes DEF NotReady, Message, Header
  <2>3. Decides(r, NotReady(m))
    BY <1>6 DEF HandlePullNotReady, ReaderIdle, ReadFromHost, Decides
  <2>4. /\ Acks(h, i)' = Acks(h, i) /\ Results(h, i)' = Results(h, i)
        /\ Refusals(h, i)' = Refusals(h, i) + One(h = r /\ i = m.idx)
    BY <1>1, <2>2, <2>3, AnswerDecided, TokenCounts DEF One
  <2>5. MarksKept(h, i)
    BY <1>6 DEF HandlePullNotReady, MarksKept
  <2>6. CASE h = r /\ i = m.idx
    <3>1. PullRequests(h, i) = PullRequests(h, i)' + 1 /\ Refusals(h, i)' = Refusals(h, i) + 1
      BY <1>3, <2>4, <2>6 DEF One
    <3>. QED
      BY <1>1, <1>3, <1>4, <2>4, <2>5, <3>1, TokenCounts
      DEF TaskPathKept, MarksKept, TokenLedger, SlotsOf, One
  <2>7. CASE ~(h = r /\ i = m.idx)
    <3>1. SendPathKept(h, i) /\ AnswerPathKept(h, i)
      BY <1>1, <1>3, <2>4, <2>7, TokenCounts DEF SendPathKept, AnswerPathKept, One
    <3>. QED
      BY <1>4, <2>5, <3>1, TokenFrame
  <2>. QED
    BY <2>6, <2>7
<1>. QED
  BY <1>5, <1>6

LEMMA HandleFinishToken ==
  ASSUME TypeOK, TypeOK', NEW r \in Hosts,
         HandleFinish(r) \/ CloseAll(r) \/ ReaderExit(r), UNCHANGED hostVars,
         NEW h \in Hosts, NEW i \in Tokens, TokenLedger(h, i)
  PROVE  TokenLedger(h, i)'
<1> USE DEF linkVars, hostVars, queueVars, tokenVars, windowVars, controlVars
<1>1. SendPathKept(h, i)
  <2>1. CASE HandleFinish(r)
    BY <2>1, RequestRead, TokenCounts DEF HandleFinish, SendPathKept, One
  <2>2. CASE ~HandleFinish(r)
    BY <2>2, SendPathFrame2 DEF CloseAll, ReaderExit
  <2>. QED
    BY <2>1, <2>2
<1>2. AnswerPathKept(h, i)
  BY AnswerPathFrame DEF HandleFinish, ReadFromHost, CloseAll, ReaderExit
<1>3. TaskPathKept(h, i)
  BY TaskPathFrame2 DEF HandleFinish, ReadFromHost, CloseAll, ReaderExit
<1>4. MarksKept(h, i)
  BY DEF HandleFinish, CloseAll, ReaderExit, MarksKept
<1>. QED
  BY <1>1, <1>2, <1>3, <1>4, TokenFrame

\* A reader sends what it owes.
\* What a reader sends on has already been counted.
LEMMA SendKeepsAnswers ==
  ASSUME TypeOK, TypeOK', Addressed, NEW r \in Hosts, ReaderSend(r), UNCHANGED hostVars,
         NEW h \in Hosts, NEW i \in Tokens
  PROVE  AnswerPathKept(h, i) /\ TaskPathKept(h, i)
<1> USE DEF hostVars, queueVars, tokenVars, windowVars, controlVars
<1>1. CASE SendReply(r)
  <2>1. AnswerPathKept(h, i)
    BY <1>1, InboxMoved DEF AnswerPathKept, Acks, Refusals, Results
  <2>2. /\ reply[r] \in Message /\ reply[r].type # "LOCAL_ATTENTION" /\ WriteToHost(r, reply[r])
    BY <1>1 DEF SendReply, Addressed, ReceivePathAddressed, AnswerFor, TypeOK, SwitchTypeOK
  <2>3. Attentions(h, i)'
          = Attentions(h, i) + One(h = r /\ Matches(reply[r], {"LOCAL_ATTENTION"}, h, i))
    BY <2>2, BenchGiven DEF Attentions
  <2>. QED
    BY <2>1, <2>2, <2>3, TokenCounts DEF TaskPathKept, One, Matches
<1>2. CASE SendFan(r)
  <2> DEFINE m(t) == [fan[r] EXCEPT !.dst = t]
  <2>1. PICK t \in targets[r] : WriteToHost(t, m(t))
    BY <1>2 DEF SendFan
  <2>2. /\ t \in Hosts /\ fan[r] \in Message
        /\ fan[r].type \in {"EXPERT_INPUT", "FINISH"}
    BY <2>1 DEF Addressed, FanAddressed, TypeOK, SwitchTypeOK
  <2>3. m(t) \in Message /\ m(t).type \in {"EXPERT_INPUT", "FINISH"}
    BY <2>2, SwitchMessageTypes DEF Message, Header
  <2>4. \A types : Count(Bench(h)', types, h, i)
                     = Count(Bench(h), types, h, i) + One(h = t /\ Matches(m(t), types, h, i))
    BY <2>1, <2>2, <2>3, BenchGiven
  <2>5. \A types : Count(Inbox(h)', types, h, i)
                     = Count(Inbox(h), types, h, i) + One(h = t /\ Matches(m(t), types, h, i))
    BY <1>2, <2>1, <2>2, <2>3, InboxGiven DEF SendFan
  <2> HIDE DEF m
  <2>6. TaskPathKept(h, i)
    BY <2>3, <2>4, TokenCounts DEF TaskPathKept, Attentions, One, Matches
  <2>7. AnswerPathKept(h, i)
    BY <2>3, <2>5, TokenCounts DEF AnswerPathKept, Acks, Refusals, Results, One, Matches
  <2>. QED
    BY <2>6, <2>7
<1>. QED
  BY <1>1, <1>2 DEF ReaderSend

LEMMA ReaderSendToken ==
  ASSUME TypeOK, TypeOK', Addressed, NEW r \in Hosts, ReaderSend(r), UNCHANGED hostVars,
         NEW h \in Hosts, NEW i \in Tokens, TokenLedger(h, i)
  PROVE  TokenLedger(h, i)'
<1> USE DEF hostVars, queueVars, tokenVars, windowVars, controlVars
<1>1. SendPathKept(h, i)
  BY SendPathFrame2 DEF ReaderSend, SendFan, SendReply, WriteToHost
<1>2. MarksKept(h, i)
  BY DEF ReaderSend, SendFan, SendReply, MarksKept
<1>3. AnswerPathKept(h, i) /\ TaskPathKept(h, i)
  BY SendKeepsAnswers
<1>. QED
  BY <1>1, <1>2, <1>3, TokenFrame

-----------------------------------------------------------------------------
(* The ledger of an expert's work on a token *)

LEMMA WorkCountsNow ==
  ASSUME TypeOK, NEW e \in Hosts, NEW h, NEW i
  PROVE  ExpertInputs(e, h, i) \in Nat /\ ExpertResults(e, h, i) \in Nat
  BY PathCountsNow DEF ExpertInputs, ExpertResults

LEMMA WorkCounts ==
  ASSUME TypeOK, TypeOK', NEW e \in Hosts, NEW h, NEW i
  PROVE  /\ ExpertInputs(e, h, i) \in Nat /\ ExpertInputs(e, h, i)' \in Nat
         /\ ExpertResults(e, h, i) \in Nat /\ ExpertResults(e, h, i)' \in Nat
  BY PathCounts DEF ExpertInputs, ExpertResults

WorkPathKept(e, h, i) ==
  ExpertInputs(e, h, i)' = ExpertInputs(e, h, i) /\ ExpertResults(e, h, i)' = ExpertResults(e, h, i)

WorkMarksKept(e, h, i) ==
  /\ AwaitsDispatch(e, h, i)' <=> AwaitsDispatch(e, h, i)
  /\ PendingFrom(e, h, i)' <=> PendingFrom(e, h, i)

LEMMA WorkFrame ==
  ASSUME NEW e \in Hosts, NEW h \in Hosts, NEW i \in Tokens, WorkLedger(e, h, i),
         WorkPathKept(e, h, i), WorkMarksKept(e, h, i)
  PROVE  WorkLedger(e, h, i)'
  BY DEF WorkLedger, WorkPathKept, WorkMarksKept, One

LEMMA WorkMarksFrame ==
  ASSUME UNCHANGED <<combineQueue, fan, targets>>, NEW e, NEW h, NEW i
  PROVE  WorkMarksKept(e, h, i)
  BY DEF WorkMarksKept, AwaitsDispatch, PendingFrom

LEMMA InputsFrame ==
  ASSUME UNCHANGED <<toHost, computeQueue, computing>>, NEW e \in Hosts, NEW h, NEW i
  PROVE  ExpertInputs(e, h, i)' = ExpertInputs(e, h, i)
  BY BenchFrame DEF ExpertInputs

LEMMA ResultsFrame ==
  ASSUME UNCHANGED <<sendQueue, sending, toSwitch>>, NEW e \in Hosts, NEW h, NEW i
  PROVE  ExpertResults(e, h, i)' = ExpertResults(e, h, i)
  BY OutboxFrame DEF ExpertResults

\* What a host pushes that is no result.
LEMMA ResultsPushed ==
  ASSUME TypeOK, TypeOK', NEW g \in Hosts, NEW m \in Message, running[g],
         sendQueue' = Push(sendQueue, g, m), UNCHANGED <<sending, toSwitch>>,
         NEW e \in Hosts, NEW h, NEW i
  PROVE  ExpertResults(e, h, i)'
           = ExpertResults(e, h, i)
               + One(m.type = "EXPERT_RESULT" /\ e = g /\ h = m.origin /\ i = m.idx)
<1>1. ExpertResults(e, h, i)'
        = ExpertResults(e, h, i) + One(e = g /\ Matches(m, {"EXPERT_RESULT"}, h, i))
  BY OutboxPush DEF ExpertResults
<1>. QED
  BY <1>1 DEF One, Matches

\* What the switch reads.
LEMMA ResultsRead ==
  ASSUME TypeOK, TypeOK', NEW g \in Hosts, NEW type, ReadFromHost(g, type),
         UNCHANGED <<sendQueue, sending>>, NEW e \in Hosts, NEW h, NEW i
  PROVE  ExpertResults(e, h, i)
           = ExpertResults(e, h, i)'
               + One(type = "EXPERT_RESULT" /\ e = g /\ h = toSwitch[g].origin /\ i = toSwitch[g].idx)
<1>1. ExpertResults(e, h, i)
        = ExpertResults(e, h, i)' + One(e = g /\ Matches(toSwitch[g], {"EXPERT_RESULT"}, h, i))
  BY OutboxTaken DEF ExpertResults
<1>2. toSwitch[g].type = type
  BY DEF ReadFromHost
<1>. QED
  BY <1>1, <1>2 DEF One, Matches

\* What the compute thread has finished.
LEMMA InputsDone ==
  ASSUME TypeOK, TypeOK', NEW g \in Hosts, Completes(g), NEW e \in Hosts, NEW h, NEW i
  PROVE  ExpertInputs(e, h, i)
           = ExpertInputs(e, h, i)'
               + One(computing[g].type = "EXPERT_INPUT" /\ e = g
                       /\ h = computing[g].origin /\ i = computing[g].idx)
<1>1. ExpertInputs(e, h, i)
        = ExpertInputs(e, h, i)' + One(e = g /\ Matches(computing[g], {"EXPERT_INPUT"}, h, i))
  BY BenchDone DEF ExpertInputs
<1>. QED
  BY <1>1 DEF One, Matches

\* What a reader writes to a host.
LEMMA InputsGiven ==
  ASSUME TypeOK, TypeOK', NEW t \in Hosts, NEW m \in Message, WriteToHost(t, m),
         UNCHANGED <<computeQueue, computing>>, NEW e \in Hosts, NEW h, NEW i
  PROVE  ExpertInputs(e, h, i)'
           = ExpertInputs(e, h, i)
               + One(m.type = "EXPERT_INPUT" /\ e = t /\ h = m.origin /\ i = m.idx)
<1>1. ExpertInputs(e, h, i)'
        = ExpertInputs(e, h, i) + One(e = t /\ Matches(m, {"EXPERT_INPUT"}, h, i))
  BY BenchGiven DEF ExpertInputs
<1>. QED
  BY <1>1 DEF One, Matches

LEMMA ControlThreadWork ==
  ASSUME NEW excused, NEW lost, IInv(excused, lost),
         TypeOK', NEW g \in Hosts,
         \/ ControlThread(g) /\ running[g]
         \/ ControlTick(g) \/ BackOffExpires(g) \/ HostExit(g),
         UNCHANGED switchVars,
         NEW e \in Hosts, NEW h \in Hosts, NEW i \in Tokens, WorkLedger(e, h, i)
  PROVE  WorkLedger(e, h, i)'
<1> USE DEF switchVars, readerVars, linkVars, hostVars, queueVars, tokenVars, windowVars, controlVars
<1>1. TypeOK
  BY DEF IInv
<1>2. WorkMarksKept(e, h, i)
  BY WorkMarksFrame
<1>3. CASE AdmitToken(g) /\ running[g]
  <2> DEFINE m == LocalAttention(g, nextToAdmit[g])
  <2>1. m \in Task
    <3>1. nextToAdmit[g] < NumTokens
      BY <1>3 DEF AdmitToken, IInv, TruthfulBut, HostsTruthful, CanAdmit
    <3>2. nextToAdmit[g] \in Nat
      BY <1>1 DEF TypeOK, HostTypeOK
    <3>3. nextToAdmit[g] \in Tokens
      BY <3>1, <3>2, ConstantsAssumption DEF Tokens
    <3>. QED
      BY <1>1, <3>3, HostMessageTypes
  <2>2. ExpertInputs(e, h, i)' = ExpertInputs(e, h, i)
    <3>1. ExpertInputs(e, h, i)'
            = ExpertInputs(e, h, i) + One(e = g /\ Matches(m, {"EXPERT_INPUT"}, h, i))
      BY <1>1, <1>3, <2>1, BenchPush DEF AdmitToken, ExpertInputs
    <3>. QED
      BY <1>1, <3>1, WorkCounts DEF One, Matches, LocalAttention
  <2>3. ExpertResults(e, h, i)' = ExpertResults(e, h, i)
    BY <1>3, ResultsFrame DEF AdmitToken
  <2>. QED
    BY <1>2, <2>2, <2>3, WorkFrame DEF WorkPathKept
<1>4. CASE ControlTick(g) \/ BackOffExpires(g) \/ HostExit(g)
  <2>1. WorkPathKept(e, h, i)
    BY <1>4, InputsFrame, ResultsFrame DEF WorkPathKept, ControlTick, BackOffExpires, HostExit
  <2>. QED
    BY <1>2, <2>1, WorkFrame
<1>5. CASE (EnqueuePull(g) \/ EnqueueFinish(g)) /\ running[g]
  <2>1. ExpertInputs(e, h, i)' = ExpertInputs(e, h, i)
    BY <1>5, InputsFrame DEF EnqueuePull, EnqueueFinish
  <2>2. PICK m \in Message : m.type # "EXPERT_RESULT" /\ sendQueue' = Push(sendQueue, g, m)
    <3>1. \A k \in Tokens : CombinePullReq(g, k) \in Message
      BY <1>1, HostMessageTypes
    <3>2. HostFinish(g) \in Message
      BY <1>1, HostMessageTypes
    <3>3. CASE EnqueuePull(g)
      <4>1. PICK k \in needPull[g] : sendQueue' = Push(sendQueue, g, CombinePullReq(g, k))
        BY <3>3 DEF EnqueuePull
      <4>2. CombinePullReq(g, k) \in Message
        BY <1>1, <3>1 DEF TypeOK, HostTypeOK
      <4>3. CombinePullReq(g, k).type # "EXPERT_RESULT"
        BY DEF CombinePullReq
      <4>. QED
        BY <4>1, <4>2, <4>3
    <3>4. CASE EnqueueFinish(g)
      <4>1. HostFinish(g).type # "EXPERT_RESULT" /\ sendQueue' = Push(sendQueue, g, HostFinish(g))
        BY <3>4 DEF EnqueueFinish, HostFinish
      <4>. QED
        BY <3>2, <4>1
    <3>. QED
      BY <1>5, <3>3, <3>4
  <2>3. UNCHANGED <<sending, toSwitch>>
    BY <1>5 DEF EnqueuePull, EnqueueFinish
  <2>4. ExpertResults(e, h, i)' = ExpertResults(e, h, i)
    BY <1>1, <1>5, <2>2, <2>3, ResultsPushed, WorkCounts DEF One
  <2>. QED
    BY <1>2, <2>1, <2>4, WorkFrame DEF WorkPathKept
<1>. QED
  BY <1>3, <1>4, <1>5 DEF ControlThread

\* The compute thread turns an input into a result.
LEMMA ComputeThreadWork ==
  ASSUME TypeOK, TypeOK', Addressed, NEW g \in Hosts, ComputeThread(g), running[g],
         UNCHANGED switchVars,
         NEW e \in Hosts, NEW h \in Hosts, NEW i \in Tokens, WorkLedger(e, h, i)
  PROVE  WorkLedger(e, h, i)'
<1> USE DEF switchVars, readerVars, linkVars, queueVars, tokenVars, windowVars, controlVars
<1>1. WorkMarksKept(e, h, i)
  BY WorkMarksFrame
<1>2. CASE ComputePop(g)
  <2>1. ExpertInputs(e, h, i)' = ExpertInputs(e, h, i)
    BY <1>2, BenchPopped DEF ExpertInputs
  <2>2. ExpertResults(e, h, i)' = ExpertResults(e, h, i)
    BY <1>2, ResultsFrame DEF ComputePop
  <2>. QED
    BY <1>1, <2>1, <2>2, WorkFrame DEF WorkPathKept
<1>3. CASE ProcessLocalAttention(g)
  <2> DEFINE m == DispatchToken(g, computing[g].idx)
  <2>1. m \in Message /\ m.type # "EXPERT_RESULT"
    <3>1. computing[g].idx \in Tokens
      BY <1>3 DEF ProcessLocalAttention, Addressed, TaskPathAddressed, TaskOf
    <3>. QED
      BY <3>1, HostMessageTypes DEF DispatchToken
  <2>2. ExpertResults(e, h, i)' = ExpertResults(e, h, i)
    BY <1>3, <2>1, ResultsPushed, WorkCounts DEF ProcessLocalAttention, One
  <2>3. ExpertInputs(e, h, i)' = ExpertInputs(e, h, i)
    <3>1. Completes(g) /\ computing[g].type # "EXPERT_INPUT"
      BY <1>3 DEF ProcessLocalAttention, Completes
    <3>. QED
      BY <3>1, InputsDone, WorkCounts DEF One
  <2>. QED
    BY <1>1, <2>2, <2>3, WorkFrame DEF WorkPathKept
<1>4. CASE ProcessExpertMlp(g)
  <2> DEFINE m == ExpertResult(g, computing[g])
             mine == e = g /\ h = computing[g].origin /\ i = computing[g].idx
  <2>1. /\ m \in Message /\ m.type = "EXPERT_RESULT"
        /\ m.origin = computing[g].origin /\ m.idx = computing[g].idx
    <3>1. computing[g] \in Task
      BY <1>4 DEF ProcessExpertMlp, TypeOK, HostTypeOK
    <3>. QED
      BY <3>1, HostMessageTypes DEF ExpertResult, Task, Header
  <2>2. ExpertResults(e, h, i)' = ExpertResults(e, h, i) + One(mine)
    <3>1. ExpertResults(e, h, i)'
            = ExpertResults(e, h, i)
                + One(m.type = "EXPERT_RESULT" /\ e = g /\ h = m.origin /\ i = m.idx)
      BY <1>4, <2>1, ResultsPushed DEF ProcessExpertMlp
    <3>. QED
      BY <2>1, <3>1 DEF One
  <2>3. ExpertInputs(e, h, i) = ExpertInputs(e, h, i)' + One(mine)
    <3>1. Completes(g) /\ computing[g].type = "EXPERT_INPUT"
      BY <1>4 DEF ProcessExpertMlp, Completes
    <3>. QED
      BY <3>1, InputsDone DEF One
  <2>. QED
    BY <1>1, <2>2, <2>3, WorkCounts DEF WorkLedger, WorkMarksKept, One
<1>. QED
  BY <1>2, <1>3, <1>4 DEF ComputeThread

LEMMA SendReadThreadWork ==
  ASSUME TypeOK, TypeOK', NEW g \in Hosts, SendThread(g) \/ ReadThread(g), UNCHANGED switchVars,
         NEW e \in Hosts, NEW h \in Hosts, NEW i \in Tokens, WorkLedger(e, h, i)
  PROVE  WorkLedger(e, h, i)'
<1> USE DEF switchVars, readerVars, linkVars, queueVars, tokenVars, windowVars, controlVars
<1>1. WorkMarksKept(e, h, i)
  BY WorkMarksFrame
<1>2. CASE SendThread(g)
  <2>1. ExpertInputs(e, h, i)' = ExpertInputs(e, h, i)
    BY <1>2, InputsFrame DEF SendThread, SendPop, SendWrite, WriteToSwitch
  <2>2. ExpertResults(e, h, i)' = ExpertResults(e, h, i)
    BY <1>2, OutboxMoved DEF ExpertResults
  <2>. QED
    BY <1>1, <2>1, <2>2, WorkFrame DEF WorkPathKept
<1>3. CASE ReadThread(g)
  <2>1. ExpertResults(e, h, i)' = ExpertResults(e, h, i)
    BY <1>3, ResultsFrame
    DEF ReadThread, ReadMessage, RecvAck, RecvNotReady, RecvCombineResult, RecvExpertInput, RecvFinish, ReadFromSwitch
  <2>2. ExpertInputs(e, h, i)' = ExpertInputs(e, h, i)
    <3>1. CASE RecvExpertInput(g)
      BY <1>3, <3>1, BenchQueued DEF ReadThread, ExpertInputs
    <3>2. CASE ~RecvExpertInput(g)
      <4>1. PICK type \in {"ACK", "NOT_READY", "COMBINE_RESULT", "FINISH"} :
              ReadFromSwitch(g, type) /\ UNCHANGED <<computeQueue, computing>>
        BY <1>3, <3>2 DEF ReadThread, ReadMessage, RecvAck, RecvNotReady, RecvCombineResult, RecvFinish
      <4>. QED
        BY <4>1, BenchTaken DEF ExpertInputs
    <3>. QED
      BY <3>1, <3>2
  <2>. QED
    BY <1>1, <2>1, <2>2, WorkFrame DEF WorkPathKept
<1>. QED
  BY <1>2, <1>3

\* handle_dispatch_token: the experts of the new slot are those to be sent to.
LEMMA HandleDispatchTokenWork ==
  ASSUME TypeOK, TypeOK', Addressed, NEW r \in Hosts, HandleDispatchToken(r), UNCHANGED hostVars,
         NEW e \in Hosts, NEW h \in Hosts, NEW i \in Tokens, WorkLedger(e, h, i),
         Dispatches(h, i) # 0 => combineQueue[<<h, i>>] = None
  PROVE  WorkLedger(e, h, i)'
<1> DEFINE m == toSwitch[r]
           experts == DecodeExpertIds(m.bitmap) \cap ConnectedHosts
<1> USE DEF hostVars, queueVars, tokenVars, windowVars, controlVars
<1>1. /\ m \in Message /\ m.type = "DISPATCH_TOKEN" /\ m.origin = r /\ m.idx \in Tokens
      /\ ReadFromHost(r, "DISPATCH_TOKEN")
  BY DEF HandleDispatchToken, ReadFromHost, Addressed, SendPathAddressed, SentBy, TypeOK, LinksTypeOK
<1>2. ExpertInputs(e, h, i)' = ExpertInputs(e, h, i)
  BY InputsFrame DEF HandleDispatchToken, ReadFromHost
<1>3. ExpertResults(e, h, i)' = ExpertResults(e, h, i)
  BY <1>1, ResultsRead, WorkCounts DEF One
<1>4. /\ combineQueue' = [combineQueue EXCEPT ![<<r, m.idx>>] = NewSlot(experts)]
      /\ combineQueue \in [CombineKey -> QueueSlot \cup {None}]
      /\ <<r, m.idx>> \in CombineKey
      /\ NewSlot(experts) # None /\ NewSlot(experts).pending = experts
  <2>1. NewSlot(experts) \in QueueSlot
    BY DEF NewSlot, QueueSlot, Bitmap, ConnectedHosts, Byte
  <2>. QED
    BY <1>1, <2>1, NoSlotAssumption
    DEF HandleDispatchToken, MakeKey, CombineKey, TypeOK, SwitchTypeOK, NewSlot
<1>5. /\ fan[r] = None /\ fan' = [fan EXCEPT ![r] = ExpertInput(m)]
      /\ targets' = [targets EXCEPT ![r] = experts]
      /\ fan \in [Hosts -> Message \cup {None}] /\ targets \in [Hosts -> SUBSET Hosts]
      /\ ExpertInput(m) # None
      /\ ExpertInput(m).type = "EXPERT_INPUT" /\ ExpertInput(m).idx = m.idx
  BY <1>1, SwitchMessageTypes, NoneIsNoMessage
  DEF HandleDispatchToken, ReaderIdle, ExpertInput, Message, Header, TypeOK, SwitchTypeOK
<1>6. CASE h = r /\ i = m.idx
  <2>1. Dispatches(h, i) # 0
    <3>1. Dispatches(h, i) = Dispatches(h, i)' + 1
      BY <1>1, <1>6, RequestRead DEF One
    <3>. QED
      BY <3>1, TokenCounts
  <2>2. combineQueue[<<h, i>>] = None
    BY <2>1
  <2>3. ~AwaitsDispatch(e, h, i) /\ ~PendingFrom(e, h, i)
    BY <1>5, <1>6, <2>2 DEF AwaitsDispatch, PendingFrom
  <2>4. AwaitsDispatch(e, h, i)' <=> e \in experts
    BY <1>5, <1>6 DEF AwaitsDispatch
  <2>5. PendingFrom(e, h, i)' <=> e \in experts
    BY <1>4, <1>6 DEF PendingFrom
  <2>. QED
    BY <1>2, <1>3, <2>3, <2>4, <2>5, WorkCounts DEF WorkLedger, One
<1>7. CASE ~(h = r /\ i = m.idx)
  <2>1. AwaitsDispatch(e, h, i)' <=> AwaitsDispatch(e, h, i)
    BY <1>5, <1>7 DEF AwaitsDispatch
  <2>2. PendingFrom(e, h, i)' <=> PendingFrom(e, h, i)
    BY <1>4, <1>7 DEF PendingFrom
  <2>. QED
    BY <1>2, <1>3, <2>1, <2>2, WorkFrame DEF WorkPathKept, WorkMarksKept
<1>. QED
  BY <1>6, <1>7

\* handle_expert_result: the result is expected, and is not again.
LEMMA HandleExpertResultWork ==
  ASSUME NEW excused, NEW lost, IInv(excused, lost),
         TypeOK', Addressed, NEW r \in Hosts, HandleExpertResult(r), UNCHANGED hostVars,
         NEW e \in Hosts, NEW h \in Hosts, NEW i \in Tokens, WorkLedger(e, h, i)
  PROVE  WorkLedger(e, h, i)'
<1> DEFINE m == toSwitch[r]
           slot == combineQueue[MakeKey(m)]
           mine == e = r /\ h = m.origin /\ i = m.idx
<1> USE DEF hostVars, readerVars, queueVars, tokenVars, windowVars, controlVars
<1>1. TypeOK
  BY DEF IInv
<1>2. /\ m \in Message /\ m.src = r /\ m.origin \in Hosts /\ m.idx \in Tokens /\ m.data \in Byte
      /\ ReadFromHost(r, "EXPERT_RESULT") /\ MakeKey(m) = <<m.origin, m.idx>>
      /\ MakeKey(m) \in CombineKey
  BY <1>1 DEF HandleExpertResult, ReadFromHost, Addressed, SendPathAddressed, SentBy, TypeOK, LinksTypeOK, Message,
              Header, MakeKey, CombineKey
<1>3. ExpertInputs(e, h, i)' = ExpertInputs(e, h, i)
  BY InputsFrame DEF HandleExpertResult, ReadFromHost
<1>4. ExpertResults(e, h, i) = ExpertResults(e, h, i)' + One(mine)
  BY <1>1, <1>2, ResultsRead DEF One
<1>5. Accepts(m) =>
        /\ combineQueue' = [combineQueue EXCEPT ![MakeKey(m)] = AddResult(slot, m)]
        /\ slot # None /\ slot \in QueueSlot
        /\ AddResult(slot, m) # None /\ AddResult(slot, m).pending = slot.pending \ {r}
  <2>. SUFFICES ASSUME Accepts(m) PROVE <1>5!2
    OBVIOUS
  <2>1. slot # None /\ slot \in QueueSlot
    BY <1>1, <1>2 DEF Accepts, TypeOK, SwitchTypeOK
  <2>2. AddResult(slot, m) \in QueueSlot
    BY <1>2, <2>1, ByteTypes DEF AddResult, QueueSlot, Bitmap
  <2>. QED
    BY <1>2, <2>1, <2>2, NoSlotAssumption DEF HandleExpertResult, AddResult, QueueSlot
<1>6. ~Accepts(m) => UNCHANGED combineQueue
  BY DEF HandleExpertResult
<1>7. combineQueue \in [CombineKey -> QueueSlot \cup {None}]
  BY <1>1 DEF TypeOK, SwitchTypeOK
<1>8. AwaitsDispatch(e, h, i)' <=> AwaitsDispatch(e, h, i)
  BY DEF HandleExpertResult, AwaitsDispatch
<1>9. CASE mine
  <2>1. ExpertResults(e, h, i) = ExpertResults(e, h, i)' + 1
    BY <1>4, <1>9 DEF One
  <2>2. PendingFrom(e, h, i)
    BY <1>1, <2>1, WorkCounts DEF WorkLedger, One
  <2>3. Accepts(m)
    BY <1>2, <1>9, <2>2 DEF PendingFrom, Accepts
  <2>4. ~PendingFrom(e, h, i)'
    BY <1>2, <1>5, <1>7, <1>9, <2>3 DEF PendingFrom
  <2>. QED
    BY <1>1, <1>3, <1>8, <2>1, <2>2, <2>4, WorkCounts DEF WorkLedger, One
<1>10. CASE ~mine
  <2>1. PendingFrom(e, h, i)' <=> PendingFrom(e, h, i)
    <3>1. CASE Accepts(m)
      <4>1. /\ combineQueue' = [combineQueue EXCEPT ![<<m.origin, m.idx>>] = AddResult(slot, m)]
            /\ slot = combineQueue[<<m.origin, m.idx>>] /\ slot # None
            /\ AddResult(slot, m) # None /\ AddResult(slot, m).pending = slot.pending \ {r}
        BY <1>2, <1>5, <3>1
      <4>2. CASE h = m.origin /\ i = m.idx
        <5>1. combineQueue'[<<h, i>>] = AddResult(slot, m) /\ combineQueue[<<h, i>>] = slot
          BY <1>2, <1>7, <4>1, <4>2
        <5>. QED
          BY <1>10, <4>1, <4>2, <5>1 DEF PendingFrom
      <4>3. CASE ~(h = m.origin /\ i = m.idx)
        BY <1>7, <4>1, <4>3 DEF PendingFrom
      <4>. QED
        BY <4>2, <4>3
    <3>2. CASE ~Accepts(m)
      BY <1>6, <3>2 DEF PendingFrom
    <3>. QED
      BY <3>1, <3>2
  <2>2. ExpertResults(e, h, i)' = ExpertResults(e, h, i)
    BY <1>1, <1>4, <1>10, WorkCounts DEF One
  <2>. QED
    BY <1>3, <1>8, <2>1, <2>2, WorkFrame DEF WorkPathKept, WorkMarksKept
<1>. QED
  BY <1>9, <1>10

\* handle_combine_pull_req takes only a slot that waits for nobody.
LEMMA HandlePullWork ==
  ASSUME NEW excused, NEW lost, IInv(excused, lost),
         TypeOK', Addressed, NEW r \in Hosts, HandlePullReady(r) \/ HandlePullNotReady(r),
         UNCHANGED hostVars,
         NEW e \in Hosts, NEW h \in Hosts, NEW i \in Tokens, WorkLedger(e, h, i)
  PROVE  WorkLedger(e, h, i)'
<1> DEFINE m == toSwitch[r]
           slot == combineQueue[MakeKey(m)]
<1> USE DEF hostVars, queueVars, tokenVars, windowVars, controlVars
<1>1. TypeOK
  BY DEF IInv
<1>2. ReadFromHost(r, "COMBINE_PULL_REQ") /\ UNCHANGED <<fan, targets>>
  BY DEF HandlePullReady, HandlePullNotReady
<1>3. ExpertInputs(e, h, i)' = ExpertInputs(e, h, i)
  BY <1>2, InputsFrame DEF ReadFromHost
<1>4. ExpertResults(e, h, i)' = ExpertResults(e, h, i)
  BY <1>1, <1>2, ResultsRead, WorkCounts DEF One
<1>5. AwaitsDispatch(e, h, i)' <=> AwaitsDispatch(e, h, i)
  BY <1>2 DEF AwaitsDispatch
<1>6. PendingFrom(e, h, i)' <=> PendingFrom(e, h, i)
  <2>1. CASE HandlePullReady(r)
    <3>1. MakeKey(m) \in CombineKey /\ slot.pending = {}
      BY <2>1, SlotOfMessage DEF HandlePullReady, ReadyToCombine, ReadFromHost, TruthfulSlot
    <3>2. /\ combineQueue' = [combineQueue EXCEPT ![MakeKey(m)] = None]
          /\ combineQueue \in [CombineKey -> QueueSlot \cup {None}]
      BY <1>1, <2>1 DEF HandlePullReady, TypeOK, SwitchTypeOK
    <3>. QED
      BY <3>1, <3>2 DEF PendingFrom
  <2>2. CASE HandlePullNotReady(r)
    BY <2>2 DEF HandlePullNotReady, PendingFrom
  <2>. QED
    BY <2>1, <2>2
<1>. QED
  BY <1>3, <1>4, <1>5, <1>6, WorkFrame DEF WorkPathKept, WorkMarksKept

LEMMA HandleFinishWork ==
  ASSUME TypeOK, TypeOK', NEW r \in Hosts,
         HandleFinish(r) \/ CloseAll(r) \/ ReaderExit(r), UNCHANGED hostVars,
         NEW e \in Hosts, NEW h \in Hosts, NEW i \in Tokens, WorkLedger(e, h, i)
  PROVE  WorkLedger(e, h, i)'
<1> USE DEF linkVars, hostVars, queueVars, tokenVars, windowVars, controlVars
<1>1. ExpertInputs(e, h, i)' = ExpertInputs(e, h, i)
  BY InputsFrame DEF HandleFinish, ReadFromHost, CloseAll, ReaderExit
<1>2. ExpertResults(e, h, i)' = ExpertResults(e, h, i)
  <2>1. CASE HandleFinish(r)
    BY <2>1, ResultsRead, WorkCounts DEF HandleFinish, One
  <2>2. CASE ~HandleFinish(r)
    BY <2>2, ResultsFrame DEF CloseAll, ReaderExit
  <2>. QED
    BY <2>1, <2>2
<1>3. fan \in [Hosts -> Message \cup {None}] /\ targets \in [Hosts -> SUBSET Hosts]
  BY DEF TypeOK, SwitchTypeOK
<1>4. AwaitsDispatch(e, h, i)' <=> AwaitsDispatch(e, h, i)
  <2>1. CASE HandleFinish(r)
    <3>1. SwitchFinish.type # "EXPERT_INPUT" /\ fan[r] = None
      BY <2>1 DEF SwitchFinish, HandleFinish, ReaderIdle
    <3>2. CASE h = r
      BY <1>3, <2>1, <3>1, <3>2 DEF HandleFinish, AwaitsDispatch
    <3>3. CASE h # r
      BY <1>3, <2>1, <3>3 DEF HandleFinish, AwaitsDispatch
    <3>. QED
      BY <3>2, <3>3
  <2>2. CASE CloseAll(r)
    <3>1. CASE h = r
      BY <1>3, <2>2, <3>1 DEF CloseAll, AwaitsDispatch
    <3>2. CASE h # r
      BY <1>3, <2>2, <3>2 DEF CloseAll, AwaitsDispatch
    <3>. QED
      BY <3>1, <3>2
  <2>3. CASE ReaderExit(r)
    BY <2>3 DEF ReaderExit, AwaitsDispatch
  <2>. QED
    BY <2>1, <2>2, <2>3
<1>5. PendingFrom(e, h, i)' <=> PendingFrom(e, h, i)
  BY DEF HandleFinish, CloseAll, ReaderExit, PendingFrom
<1>. QED
  BY <1>1, <1>2, <1>4, <1>5, WorkFrame DEF WorkPathKept, WorkMarksKept

\* handle_dispatch_token sends the input to one more expert.
LEMMA ReaderSendWork ==
  ASSUME TypeOK, TypeOK', Addressed, NEW r \in Hosts, ReaderSend(r), UNCHANGED hostVars,
         NEW e \in Hosts, NEW h \in Hosts, NEW i \in Tokens, WorkLedger(e, h, i)
  PROVE  WorkLedger(e, h, i)'
<1> USE DEF hostVars, queueVars, tokenVars, windowVars, controlVars
<1>1. ExpertResults(e, h, i)' = ExpertResults(e, h, i)
  BY ResultsFrame DEF ReaderSend, SendFan, SendReply, WriteToHost
<1>2. PendingFrom(e, h, i)' <=> PendingFrom(e, h, i)
  BY DEF ReaderSend, SendFan, SendReply, PendingFrom
<1>3. fan \in [Hosts -> Message \cup {None}] /\ targets \in [Hosts -> SUBSET Hosts]
  BY DEF TypeOK, SwitchTypeOK
<1>4. CASE SendReply(r)
  <2>1. /\ reply[r] \in Message /\ reply[r].type # "EXPERT_INPUT" /\ WriteToHost(r, reply[r])
    BY <1>4 DEF SendReply, Addressed, ReceivePathAddressed, AnswerFor, TypeOK, SwitchTypeOK
  <2>2. ExpertInputs(e, h, i)' = ExpertInputs(e, h, i)
    BY <2>1, InputsGiven, WorkCounts DEF One
  <2>3. AwaitsDispatch(e, h, i)' <=> AwaitsDispatch(e, h, i)
    <3>1. CASE h = r
      BY <1>3, <1>4, <3>1 DEF SendReply, AwaitsDispatch
    <3>2. CASE h # r
      BY <1>3, <1>4, <3>2 DEF SendReply, AwaitsDispatch
    <3>. QED
      BY <3>1, <3>2
  <2>. QED
    BY <1>1, <1>2, <2>2, <2>3, WorkFrame DEF WorkPathKept, WorkMarksKept
<1>5. CASE SendFan(r)
  <2> DEFINE m(t) == [fan[r] EXCEPT !.dst = t]
  <2>1. PICK t \in targets[r] : /\ WriteToHost(t, m(t))
                               /\ targets' = [targets EXCEPT ![r] = @ \ {t}]
                               /\ UNCHANGED fan
    BY <1>5 DEF SendFan
  <2>2. /\ t \in Hosts /\ fan[r] \in Message /\ fan[r] # None
        /\ fan[r].type = "EXPERT_INPUT" => fan[r].origin = r
    BY <2>1 DEF Addressed, FanAddressed, TypeOK, SwitchTypeOK
  <2>3. /\ m(t) \in Message /\ m(t).type = fan[r].type
        /\ m(t).origin = fan[r].origin /\ m(t).idx = fan[r].idx
    BY <2>2, SwitchMessageTypes DEF Message, Header
  <2> HIDE DEF m
  <2>4. ExpertInputs(e, h, i)'
          = ExpertInputs(e, h, i)
              + One(fan[r].type = "EXPERT_INPUT" /\ e = t /\ h = fan[r].origin /\ i = fan[r].idx)
    <3>1. ExpertInputs(e, h, i)'
            = ExpertInputs(e, h, i)
                + One(m(t).type = "EXPERT_INPUT" /\ e = t /\ h = m(t).origin /\ i = m(t).idx)
      BY <2>1, <2>2, <2>3, InputsGiven
    <3>. QED
      BY <2>3, <3>1 DEF One
  <2>5. CASE fan[r].type = "EXPERT_INPUT" /\ e = t /\ h = r /\ i = fan[r].idx
    <3>1. AwaitsDispatch(e, h, i) /\ ~AwaitsDispatch(e, h, i)'
      BY <1>3, <2>1, <2>2, <2>5 DEF AwaitsDispatch
    <3>2. ExpertInputs(e, h, i)' = ExpertInputs(e, h, i) + 1
      BY <2>2, <2>4, <2>5 DEF One
    <3>. QED
      BY <1>1, <1>2, <3>1, <3>2, WorkCounts DEF WorkLedger, One
  <2>6. CASE ~(fan[r].type = "EXPERT_INPUT" /\ e = t /\ h = r /\ i = fan[r].idx)
    <3>1. AwaitsDispatch(e, h, i)' <=> AwaitsDispatch(e, h, i)
      BY <1>3, <2>1, <2>6 DEF AwaitsDispatch
    <3>2. ExpertInputs(e, h, i)' = ExpertInputs(e, h, i)
      BY <2>2, <2>4, <2>6, WorkCounts DEF One
    <3>. QED
      BY <1>1, <1>2, <3>1, <3>2, WorkFrame DEF WorkPathKept, WorkMarksKept
  <2>. QED
    BY <2>5, <2>6
<1>. QED
  BY <1>4, <1>5 DEF ReaderSend

-----------------------------------------------------------------------------
(* Nothing is left of a token that is combined, and of a host that is done *)

LEMMA TokenQuiet ==
  ASSUME TypeOK, NEW h \in Hosts, NEW i \in Tokens, TokenLedger(h, i), i \in combineDone[h]
  PROVE  /\ Attentions(h, i) = 0 /\ Dispatches(h, i) = 0 /\ Acks(h, i) = 0
         /\ PullRequests(h, i) = 0 /\ Refusals(h, i) = 0 /\ Results(h, i) = 0
         /\ i < nextToAdmit[h] /\ i \notin needPull[h] /\ i \notin SlotsOf(h)
<1>1. /\ Attentions(h, i) \in Nat /\ Dispatches(h, i) \in Nat /\ Acks(h, i) \in Nat
      /\ PullRequests(h, i) \in Nat /\ Refusals(h, i) \in Nat /\ Results(h, i) \in Nat
  BY TokenCountsNow
<1>2. i \in dispatchAcked[h] /\ i \notin pullInflight[h]
  BY DEF TokenLedger
<1>3. Dispatches(h, i) = 0 /\ Acks(h, i) = 0 /\ i \in attentionDone[h]
  BY <1>1, <1>2 DEF TokenLedger, One
<1>4. Attentions(h, i) = 0 /\ i < nextToAdmit[h]
  <2>1. One(i < nextToAdmit[h]) = Attentions(h, i) + One(i \in attentionDone[h])
    BY DEF TokenLedger
  <2>. QED
    BY <1>1, <1>3, <2>1 DEF One
<1>5. Results(h, i) = 0 /\ i \notin SlotsOf(h)
  BY <1>1, <1>2, <1>3 DEF TokenLedger, One
<1>6. PullRequests(h, i) = 0 /\ Refusals(h, i) = 0 /\ i \notin needPull[h]
  <2>1. One(i \in pullInflight[h])
          = One(i \in needPull[h]) + PullRequests(h, i) + Refusals(h, i) + Results(h, i)
    BY DEF TokenLedger
  <2>. QED
    BY <1>1, <1>2, <2>1 DEF One
<1>. QED
  BY <1>3, <1>4, <1>5, <1>6

LEMMA WorkQuiet ==
  ASSUME TypeOK, NEW h \in Hosts, NEW i \in Tokens, i \notin SlotsOf(h),
         NEW e \in Hosts, WorkLedger(e, h, i)
  PROVE  ExpertInputs(e, h, i) = 0 /\ ExpertResults(e, h, i) = 0
<1>1. ~PendingFrom(e, h, i)
  BY DEF SlotsOf, PendingFrom
<1>. QED
  BY <1>1, WorkCountsNow DEF WorkLedger, One

\* A place that holds no counted message holds none.
LEMMA PlaceEmpty ==
  ASSUME NEW x, NEW types, x.type \in types, In(x, types, x.origin, x.idx) = 0
  PROVE  x = None
  BY DEF In, One, Matches

LEMMA QueueEmpty ==
  ASSUME NEW S, NEW s \in Seq(S),
         s # << >> => Count(s, {s[1].type}, s[1].origin, s[1].idx) = 0
  PROVE  s = << >>
<1>. SUFFICES ASSUME s # << >> PROVE FALSE
  OBVIOUS
<1>1. 1 \in 1 .. Len(s)
  OBVIOUS
<1>2. Count(s, {s[1].type}, s[1].origin, s[1].idx) > 0
  BY <1>1, CountThere
<1>. QED
  BY <1>2

\* Host h has all of its tokens, its FINISH has been counted, its books are in
\* order, and the switch has no slot for which it could work.
Settled(h) ==
  /\ combineDone[h] = Tokens /\ h \in finishedHosts
  /\ FinishLedger(h)
  /\ \A i \in Tokens : TokenLedger(h, i)
  /\ \A g \in Hosts, i \in Tokens : WorkLedger(h, g, i) /\ i \notin SlotsOf(g)

LEMMA OutboxQuiet ==
  ASSUME TypeOK, Addressed, NEW h \in Hosts, Settled(h)
  PROVE  sendQueue[h] = << >> /\ sending[h] = None /\ toSwitch[h] = None
<1>1. ASSUME NEW m \in Message, SentBy(h, m)
      PROVE  Count(Outbox(h), {m.type}, m.origin, m.idx) = 0
  <2>1. m.origin \in Hosts
    BY DEF Message, Header
  <2>2. CASE m.type \in {"DISPATCH_TOKEN", "COMBINE_PULL_REQ"}
    <3>1. m.origin = h /\ m.idx \in Tokens
      BY <1>1, <2>2 DEF SentBy
    <3>2. Dispatches(h, m.idx) = 0 /\ PullRequests(h, m.idx) = 0
      BY <3>1, TokenQuiet DEF Settled
    <3>. QED
      BY <2>2, <3>1, <3>2 DEF Dispatches, PullRequests
  <2>3. CASE m.type = "EXPERT_RESULT"
    <3>1. m.idx \in Tokens
      BY <1>1, <2>3 DEF SentBy
    <3>2. ExpertResults(h, m.origin, m.idx) = 0
      BY <2>1, <3>1, WorkQuiet DEF Settled
    <3>. QED
      BY <2>3, <3>2 DEF ExpertResults
  <2>4. CASE m.type = "FINISH"
    <3>1. m.origin = h /\ m.idx = 0
      BY <1>1, <2>4 DEF SentBy
    <3>2. FinishLedger(h) /\ One(h \in finishedHosts) = 1
      BY DEF Settled, One
    <3>3. Finishes(h) \in Nat
      BY PathCountsNow DEF Finishes
    <3>4. Finishes(h) = 0
      BY <3>2, <3>3 DEF FinishLedger, One
    <3>. QED
      BY <2>4, <3>1, <3>4 DEF Finishes
  <2>. QED
    BY <1>1, <2>2, <2>3, <2>4 DEF SentBy
<1>2. /\ sendQueue[h] \in Seq(Message) /\ sending[h] \in Message \cup {None}
      /\ toSwitch[h] \in Message \cup {None} /\ SendPathAddressed(h)
  BY DEF TypeOK, LinksTypeOK, HostTypeOK, Addressed
<1>3. ASSUME NEW m \in Message, SentBy(h, m)
      PROVE  /\ Count(sendQueue[h], {m.type}, m.origin, m.idx) = 0
             /\ In(sending[h], {m.type}, m.origin, m.idx) = 0
             /\ In(toSwitch[h], {m.type}, m.origin, m.idx) = 0
  <2>1. Count(Outbox(h), {m.type}, m.origin, m.idx) = 0
    BY <1>1, <1>3
  <2>2. \A x : In(x, {m.type}, m.origin, m.idx) \in Nat
    BY DEF In, One
  <2>3. /\ Count(Outbox(h), {m.type}, m.origin, m.idx)
             = Count(sendQueue[h], {m.type}, m.origin, m.idx)
                 + In(sending[h], {m.type}, m.origin, m.idx)
                 + In(toSwitch[h], {m.type}, m.origin, m.idx)
        /\ Count(sendQueue[h], {m.type}, m.origin, m.idx) \in Nat
    BY OutboxSumNow
  <2>4. ASSUME NEW a \in Nat, NEW b \in Nat, NEW c \in Nat, 0 = a + b + c
        PROVE  a = 0 /\ b = 0 /\ c = 0
    BY <2>4
  <2>. QED
    BY <2>1, <2>2, <2>3, <2>4
<1>4. sendQueue[h] = << >>
  <2>1. ASSUME sendQueue[h] # << >>
        PROVE  sendQueue[h][1] \in Message /\ SentBy(h, sendQueue[h][1])
    BY <1>2, <2>1 DEF SendPathAddressed
  <2>. QED
    BY <1>2, <1>3, <2>1, QueueEmpty
<1>5. sending[h] = None
  BY <1>2, <1>3, PlaceEmpty DEF SendPathAddressed
<1>6. toSwitch[h] = None
  BY <1>2, <1>3, PlaceEmpty DEF SendPathAddressed
<1>. QED
  BY <1>4, <1>5, <1>6

LEMMA InboxQuiet ==
  ASSUME TypeOK, Addressed, NEW h \in Hosts, Settled(h)
  PROVE  reply[h] = None /\ (toHost[h] # None => ~AnswerFor(h, toHost[h]))
<1>1. ASSUME NEW m, AnswerFor(h, m)
      PROVE  /\ In(reply[h], {m.type}, m.origin, m.idx) = 0
             /\ In(toHost[h], {m.type}, m.origin, m.idx) = 0
  <2>1. m.origin = h /\ m.idx \in Tokens /\ m.type \in {"ACK", "NOT_READY", "COMBINE_RESULT"}
    BY <1>1 DEF AnswerFor
  <2>2. Acks(h, m.idx) = 0 /\ Refusals(h, m.idx) = 0 /\ Results(h, m.idx) = 0
    BY <2>1, TokenQuiet DEF Settled
  <2>3. Count(Inbox(h), {m.type}, m.origin, m.idx) = 0
    BY <2>1, <2>2 DEF Acks, Refusals, Results
  <2>4. \A x : In(x, {m.type}, m.origin, m.idx) \in Nat
    BY DEF In, One
  <2>. QED
    BY <2>3, <2>4, InboxSumNow
<1>2. ReceivePathAddressed(h)
  BY DEF Addressed
<1>. QED
  BY <1>1, <1>2, PlaceEmpty DEF ReceivePathAddressed

LEMMA BenchQuiet ==
  ASSUME TypeOK, Addressed, NEW h \in Hosts, Settled(h)
  PROVE  /\ computeQueue[h] = << >> /\ computing[h] = None
         /\ toHost[h] # None => toHost[h].type = "FINISH"
<1>1. ASSUME NEW m, m.origin \in Hosts, m.idx \in Tokens,
             m.type = "EXPERT_INPUT" \/ (m.type = "LOCAL_ATTENTION" /\ m.origin = h)
      PROVE  /\ In(toHost[h], {m.type}, m.origin, m.idx) = 0
             /\ Count(computeQueue[h], {m.type}, m.origin, m.idx) = 0
             /\ In(computing[h], {m.type}, m.origin, m.idx) = 0
  <2>1. Count(Bench(h), {m.type}, m.origin, m.idx) = 0
    <3>1. CASE m.type = "EXPERT_INPUT"
      <4>1. ExpertInputs(h, m.origin, m.idx) = 0
        BY <1>1, WorkQuiet DEF Settled
      <4>. QED
        BY <3>1, <4>1 DEF ExpertInputs
    <3>2. CASE m.type = "LOCAL_ATTENTION" /\ m.origin = h
      <4>1. Attentions(h, m.idx) = 0
        BY <1>1, TokenQuiet DEF Settled
      <4>. QED
        BY <3>2, <4>1 DEF Attentions
    <3>. QED
      BY <1>1, <3>1, <3>2
  <2>2. \A x : In(x, {m.type}, m.origin, m.idx) \in Nat
    BY DEF In, One
  <2>3. /\ Count(Bench(h), {m.type}, m.origin, m.idx)
             = In(toHost[h], {m.type}, m.origin, m.idx)
                 + Count(computeQueue[h], {m.type}, m.origin, m.idx)
                 + In(computing[h], {m.type}, m.origin, m.idx)
        /\ Count(computeQueue[h], {m.type}, m.origin, m.idx) \in Nat
    BY BenchSumNow
  <2>. QED
    BY <2>1, <2>2, <2>3
<1>2. /\ toHost[h] \in Message \cup {None} /\ computeQueue[h] \in Seq(Task)
      /\ computing[h] \in Task \cup {None} /\ TaskPathAddressed(h) /\ ReceivePathAddressed(h)
  BY DEF TypeOK, LinksTypeOK, HostTypeOK, Addressed
<1>3. ASSUME NEW m \in Task, TaskOf(h, m)
      PROVE  /\ m.origin \in Hosts /\ m.idx \in Tokens
             /\ m.type = "EXPERT_INPUT" \/ (m.type = "LOCAL_ATTENTION" /\ m.origin = h)
  BY <1>3 DEF TaskOf, Task, Header, TaskType
<1>4. computeQueue[h] = << >>
  <2>1. ASSUME computeQueue[h] # << >>
        PROVE  computeQueue[h][1] \in Task /\ TaskOf(h, computeQueue[h][1])
    BY <1>2, <2>1 DEF TaskPathAddressed
  <2>. QED
    BY <1>1, <1>2, <1>3, <2>1, QueueEmpty
<1>5. computing[h] = None
  BY <1>1, <1>2, <1>3, PlaceEmpty DEF TaskPathAddressed
<1>6. toHost[h] # None => toHost[h].type = "FINISH"
  <2>1. CASE toHost[h] # None /\ toHost[h].type = "EXPERT_INPUT" /\ toHost[h].idx \in Tokens
    <3>1. toHost[h].origin \in Hosts
      BY <1>2, <2>1 DEF Message, Header
    <3>. QED
      BY <1>1, <2>1, <3>1, PlaceEmpty
  <2>. QED
    BY <1>2, <2>1, InboxQuiet DEF ReceivePathAddressed, SentTo
<1>. QED
  BY <1>4, <1>5, <1>6

LEMMA SettledQuiet ==
  ASSUME NEW excused, NEW lost, IInv(excused, lost), Addressed, NEW h \in Hosts, Settled(h)
  PROVE  /\ Outbox(h) = << >> /\ computeQueue[h] = << >> /\ computing[h] = None
         /\ needPull[h] = {} /\ ~admitting[h] /\ ~sendFinish[h] /\ reply[h] = None
         /\ toHost[h] # None => toHost[h].type = "FINISH"
         /\ sending[h] = None /\ toSwitch[h] = None
<1>1. TypeOK /\ HostsTruthful(lost)
  BY DEF IInv, TruthfulBut
<1>2. /\ sendQueue[h] = << >> /\ sending[h] = None /\ toSwitch[h] = None
      /\ computeQueue[h] = << >> /\ computing[h] = None /\ reply[h] = None
      /\ toHost[h] # None => toHost[h].type = "FINISH"
  BY <1>1, OutboxQuiet, InboxQuiet, BenchQuiet
<1>3. Outbox(h) = << >>
  BY <1>2 DEF Outbox, Held
<1>4. \A i \in Tokens : i < nextToAdmit[h] /\ i \notin needPull[h]
  BY <1>1, TokenQuiet DEF Settled
<1>5. needPull[h] = {}
  BY <1>1, <1>4 DEF TypeOK, HostTypeOK
<1>6. ~admitting[h]
  <2>. SUFFICES ASSUME admitting[h] PROVE FALSE
    OBVIOUS
  <2>1. nextToAdmit[h] < NumTokens /\ nextToAdmit[h] \in Nat
    BY <1>1 DEF HostsTruthful, CanAdmit, TypeOK, HostTypeOK
  <2>2. nextToAdmit[h] \in Tokens
    BY <2>1, ConstantsAssumption DEF Tokens
  <2>. QED
    BY <1>4, <2>1, <2>2
<1>7. ~sendFinish[h]
  <2>1. FinishLedger(h) /\ One(h \in finishedHosts) = 1
    BY DEF Settled, One
  <2>2. Finishes(h) \in Nat
    BY <1>1, PathCountsNow DEF Finishes
  <2>. QED
    BY <2>1, <2>2 DEF FinishLedger, One
<1>. QED
  BY <1>2, <1>3, <1>5, <1>6, <1>7

\* When every host has finished, no host has anything left to do.
LEMMA AllFinishedQuiet ==
  ASSUME NEW excused, NEW lost, IInv(excused, lost),
         Accounted, finishedHosts = Hosts, NEW h \in Hosts
  PROVE  /\ Outbox(h) = << >> /\ computeQueue[h] = << >> /\ computing[h] = None
         /\ needPull[h] = {} /\ ~admitting[h] /\ ~sendFinish[h] /\ reply[h] = None
         /\ toHost[h] # None => toHost[h].type = "FINISH"
         /\ sending[h] = None /\ toSwitch[h] = None
         /\ \A i \in Tokens : combineQueue[<<h, i>>] = None
<1>1. TypeOK /\ \A g \in Hosts : combineDone[g] = Tokens
  BY DEF IInv, TruthfulBut, HostsTruthful
<1>2. \A g \in Hosts, i \in Tokens : i \notin SlotsOf(g)
  BY <1>1, TokenQuiet DEF Accounted
<1>3. Settled(h)
  BY <1>1, <1>2 DEF Accounted, PendingExact, Settled
<1>. QED
  BY <1>2, <1>3, SettledQuiet DEF Accounted, SlotsOf

\* The threads of host g hold nothing that they would push on.
Idle(g) == computing[g] = None /\ needPull[g] = {} /\ ~admitting[g] /\ ~sendFinish[g]

\* So a host that has stopped pushes nothing that its closed queues drop.
LEMMA WorkingHostRuns ==
  ASSUME NEW excused, NEW lost, IInv(excused, lost), Accounted, NEW h \in Hosts, ~Idle(h)
  PROVE  running[h]
<1>. SUFFICES ASSUME ~running[h] PROVE FALSE
  OBVIOUS
<1>1. finishedHosts = Hosts
  BY DEF Accounted, StopInOrder
<1>. QED
  BY <1>1, AllFinishedQuiet DEF Idle

-----------------------------------------------------------------------------
(* The FINISH of a host, and its window *)

LEMMA FinishFrame ==
  ASSUME NEW h \in Hosts, FinishLedger(h), Finishes(h)' = Finishes(h),
         finishEnqueued'[h] = finishEnqueued[h], sendFinish'[h] = sendFinish[h],
         h \in finishedHosts' <=> h \in finishedHosts
  PROVE  FinishLedger(h)'
  BY DEF FinishLedger, One

LEMMA FinishPushed ==
  ASSUME TypeOK, TypeOK', NEW g \in Hosts, NEW m \in Message, running[g],
         sendQueue' = Push(sendQueue, g, m), UNCHANGED <<sending, toSwitch>>, NEW h \in Hosts
  PROVE  Finishes(h)' = Finishes(h) + One(m.type = "FINISH" /\ h = g /\ h = m.origin /\ 0 = m.idx)
<1>1. Finishes(h)' = Finishes(h) + One(h = g /\ Matches(m, {"FINISH"}, h, 0))
  BY OutboxPush DEF Finishes
<1>. QED
  BY <1>1 DEF One, Matches

LEMMA FinishRead ==
  ASSUME TypeOK, TypeOK', NEW g \in Hosts, NEW type, ReadFromHost(g, type),
         UNCHANGED <<sendQueue, sending>>, NEW h \in Hosts
  PROVE  Finishes(h)
           = Finishes(h)'
               + One(type = "FINISH" /\ h = g /\ h = toSwitch[g].origin /\ 0 = toSwitch[g].idx)
<1>1. Finishes(h) = Finishes(h)' + One(h = g /\ Matches(toSwitch[g], {"FINISH"}, h, 0))
  BY OutboxTaken DEF Finishes
<1>2. toSwitch[g].type = type
  BY DEF ReadFromHost
<1>. QED
  BY <1>1, <1>2 DEF One, Matches

LEMMA FinishCounts ==
  ASSUME TypeOK, TypeOK', NEW h \in Hosts
  PROVE  Finishes(h) \in Nat /\ Finishes(h)' \in Nat
  BY PathCounts DEF Finishes

LEMMA HostStepFinish ==
  ASSUME NEW excused, NEW lost, IInv(excused, lost),
         TypeOK', Addressed, NEW g \in Hosts, HostStep(g) \/ ControlTick(g), UNCHANGED switchVars,
         running[g] \/ Idle(g), NEW h \in Hosts, FinishLedger(h)
  PROVE  FinishLedger(h)'
<1> USE DEF switchVars, readerVars, linkVars, hostVars, queueVars, tokenVars, windowVars, controlVars
<1>1. TypeOK
  BY DEF IInv
<1>2. sendFinish \in [Hosts -> BOOLEAN] /\ finishEnqueued \in [Hosts -> BOOLEAN]
  BY <1>1 DEF TypeOK, HostTypeOK
<1>3. CASE EnqueueFinish(g)
  <2>1. HostFinish(g) \in Message
    BY <1>1, HostMessageTypes
  <2>2. /\ HostFinish(g).type = "FINISH" /\ HostFinish(g).origin = g /\ HostFinish(g).idx = 0
        /\ sendQueue' = Push(sendQueue, g, HostFinish(g)) /\ running[g]
        /\ sendFinish[g] /\ sendFinish' = [sendFinish EXCEPT ![g] = FALSE]
        /\ UNCHANGED <<sending, toSwitch, finishEnqueued, finishedHosts>>
    BY <1>3 DEF Idle, EnqueueFinish, HostFinish
  <2>3. Finishes(h)' = Finishes(h) + One(h = g)
    BY <1>1, <2>1, <2>2, FinishPushed DEF One
  <2>4. CASE h = g
    <3>1. Finishes(h)' = Finishes(h) + 1 /\ ~sendFinish'[h]
      BY <1>2, <2>2, <2>3, <2>4 DEF One
    <3>. QED
      BY <1>1, <2>2, <2>4, <3>1, FinishCounts DEF FinishLedger, One
  <2>5. CASE h # g
    <3>1. Finishes(h)' = Finishes(h)
      BY <1>1, <2>3, <2>5, FinishCounts DEF One
    <3>2. sendFinish'[h] = sendFinish[h] /\ finishEnqueued'[h] = finishEnqueued[h]
      BY <1>2, <2>2, <2>5
    <3>. QED
      BY <2>2, <3>1, <3>2, FinishFrame
  <2>. QED
    BY <2>4, <2>5
<1>4. CASE ControlTick(g)
  <2>1. Finishes(h)' = Finishes(h)
    BY <1>4, OutboxFrame DEF ControlTick, Finishes
  <2>2. PICK base \in windowBase[g] .. NumTokens :
          /\ sendFinish' = [sendFinish EXCEPT ![g] = ~finishEnqueued[g] /\ base >= NumTokens]
          /\ finishEnqueued' = [finishEnqueued EXCEPT ![g] = @ \/ base >= NumTokens]
    BY <1>4 DEF ControlTick
  <2>3. ~sendFinish[g] /\ UNCHANGED finishedHosts
    BY <1>4 DEF ControlTick
  <2>4. CASE h = g
    <3>1. /\ sendFinish'[h] <=> (~finishEnqueued[h] /\ base >= NumTokens)
          /\ finishEnqueued'[h] <=> (finishEnqueued[h] \/ base >= NumTokens)
      BY <1>2, <2>2, <2>4
    <3>2. One(finishEnqueued'[h]) - One(sendFinish'[h]) = One(finishEnqueued[h])
      BY <3>1 DEF One
    <3>3. One(finishEnqueued[h]) = Finishes(h) + One(h \in finishedHosts)
      BY <1>1, <2>3, <2>4, FinishCounts DEF FinishLedger, One
    <3>4. /\ One(finishEnqueued'[h]) \in Int /\ One(sendFinish'[h]) \in Int
          /\ One(h \in finishedHosts) \in Int
      BY DEF One
    <3>. QED
      BY <1>1, <2>1, <2>3, <3>2, <3>3, <3>4, FinishCounts DEF FinishLedger
  <2>5. CASE h # g
    BY <1>2, <2>1, <2>2, <2>3, <2>5, FinishFrame
  <2>. QED
    BY <2>4, <2>5
<1>5. CASE ~EnqueueFinish(g) /\ ~ControlTick(g)
  <2>1. Finishes(h)' = Finishes(h)
    <3>1. CASE EnqueuePull(g)
      <4>1. PICK k \in needPull[g] : sendQueue' = Push(sendQueue, g, CombinePullReq(g, k))
        BY <3>1 DEF EnqueuePull
      <4>2. CombinePullReq(g, k) \in Message /\ CombinePullReq(g, k).type # "FINISH" /\ running[g]
        BY <1>1, HostMessageTypes DEF Idle, TypeOK, HostTypeOK, CombinePullReq
      <4>. QED
        BY <1>1, <3>1, <4>1, <4>2, FinishPushed, FinishCounts DEF EnqueuePull, One
    <3>2. CASE ProcessLocalAttention(g)
      <4>1. computing[g].idx \in Tokens /\ running[g]
        BY <3>2 DEF Idle, ProcessLocalAttention, Addressed, TaskPathAddressed, TaskOf
      <4>2. /\ DispatchToken(g, computing[g].idx) \in Message
            /\ DispatchToken(g, computing[g].idx).type # "FINISH"
        BY <1>1, <4>1, HostMessageTypes DEF DispatchToken
      <4>. QED
        BY <1>1, <3>2, <4>1, <4>2, FinishPushed, FinishCounts DEF ProcessLocalAttention, One
    <3>3. CASE ProcessExpertMlp(g)
      <4>1. computing[g] \in Task /\ running[g]
        BY <1>1, <3>3 DEF Idle, ProcessExpertMlp, TypeOK, HostTypeOK
      <4>2. ExpertResult(g, computing[g]) \in Message /\ ExpertResult(g, computing[g]).type # "FINISH"
        BY <1>1, <4>1, HostMessageTypes DEF ExpertResult, Task, Header
      <4>. QED
        BY <1>1, <3>3, <4>1, <4>2, FinishPushed, FinishCounts DEF ProcessExpertMlp, One
    <3>4. CASE SendThread(g)
      BY <1>1, <3>4, OutboxMoved DEF Finishes
    <3>5. CASE ReadThread(g)
      BY <3>5, OutboxFrame
      DEF ReadThread, ReadMessage, RecvAck, RecvExpertInput, RecvNotReady, RecvCombineResult, RecvFinish,
          ReadFromSwitch, Finishes
    <3>6. CASE AdmitToken(g) \/ ComputePop(g) \/ BackOffExpires(g) \/ HostExit(g)
      BY <3>6, OutboxFrame DEF AdmitToken, ComputePop, BackOffExpires, HostExit, Finishes
    <3>. QED
      BY <1>5, <3>1, <3>2, <3>3, <3>4, <3>5, <3>6 DEF HostStep, HostThreads, ControlThread, ComputeThread
  <2>2. UNCHANGED <<sendFinish, finishEnqueued, finishedHosts>>
    BY <1>5
    DEF HostStep, HostThreads, ControlThread, ComputeThread, SendThread, ReadThread, ReadMessage, AdmitToken, EnqueuePull,
        ComputePop, ProcessLocalAttention, ProcessExpertMlp, SendPop, SendWrite, RecvAck,
        RecvExpertInput, RecvNotReady, RecvCombineResult, RecvFinish, BackOffExpires, HostExit
  <2>. QED
    BY <2>1, <2>2, FinishFrame
<1>. QED
  BY <1>3, <1>4, <1>5

LEMMA SwitchStepFinish ==
  ASSUME TypeOK, TypeOK', Addressed, NEW r \in Hosts, SwitchStep(r), UNCHANGED hostVars,
         NEW h \in Hosts, FinishLedger(h)
  PROVE  FinishLedger(h)'
<1> USE DEF linkVars, hostVars, queueVars, tokenVars, windowVars, controlVars, readerVars
<1>1. CASE HandleFinish(r)
  <2>1. toSwitch[r].origin = r /\ toSwitch[r].idx = 0
    BY <1>1 DEF HandleFinish, ReadFromHost, Addressed, SendPathAddressed, SentBy
  <2>2. Finishes(h) = Finishes(h)' + One(h = r)
    BY <1>1, <2>1, FinishRead DEF HandleFinish, One
  <2>3. finishedHosts' = finishedHosts \cup {r}
    BY <1>1 DEF HandleFinish
  <2>4. CASE h = r
    <3>1. Finishes(h) = Finishes(h)' + 1 /\ h \in finishedHosts'
      BY <2>2, <2>3, <2>4 DEF One
    <3>. QED
      BY <3>1, FinishCounts DEF FinishLedger, One
  <2>5. CASE h # r
    BY <2>2, <2>3, <2>5, FinishCounts, FinishFrame DEF One
  <2>. QED
    BY <2>4, <2>5
<1>2. CASE ~HandleFinish(r)
  <2>1. UNCHANGED <<finishEnqueued, sendFinish, finishedHosts>>
    BY <1>2 DEF SwitchStep, ReaderHandle, ReaderSend, HandleDispatchToken, HandleExpertResult,
                HandlePullReady, HandlePullNotReady, CloseAll, SendFan, SendReply, ReaderExit
  <2>2. Finishes(h)' = Finishes(h)
    <3>1. CASE HandleDispatchToken(r) \/ HandleExpertResult(r) \/ HandlePullReady(r) \/ HandlePullNotReady(r)
      <4>1. PICK type \in {"DISPATCH_TOKEN", "EXPERT_RESULT", "COMBINE_PULL_REQ"} : ReadFromHost(r, type)
        BY <3>1 DEF HandleDispatchToken, HandleExpertResult, HandlePullReady, HandlePullNotReady
      <4>. QED
        BY <4>1, FinishRead, FinishCounts DEF One
    <3>2. CASE CloseAll(r) \/ SendFan(r) \/ SendReply(r) \/ ReaderExit(r)
      BY <3>2, OutboxFrame DEF CloseAll, SendFan, SendReply, WriteToHost, ReaderExit, Finishes
    <3>. QED
      BY <1>2, <3>1, <3>2 DEF SwitchStep, ReaderHandle, ReaderSend
  <2>. QED
    BY <2>1, <2>2, FinishFrame
<1>. QED
  BY <1>1, <1>2

\* Only an admission and a slide of the window change it.
LEMMA HostStepWindow ==
  ASSUME NEW excused, NEW lost, IInv(excused, lost),
         NEW g \in Hosts, HostStep(g), NEW h \in Hosts, WithinWindow(h)
  PROVE  WithinWindow(h)'
<1> USE DEF linkVars, hostVars, queueVars, tokenVars, windowVars, controlVars
<1>1. /\ nextToAdmit \in [Hosts -> 0 .. NumTokens] /\ windowBase \in [Hosts -> 0 .. NumTokens]
      /\ admitting[g] => nextToAdmit[g] < windowBase[g] + WindowSize
  BY DEF IInv, TypeOK, HostTypeOK, TruthfulBut, HostsTruthful, CanAdmit
<1>2. WindowSize \in Int /\ NumTokens \in Nat
  BY ConstantsAssumption
<1>3. CASE AdmitToken(g)
  <2>1. nextToAdmit' = [nextToAdmit EXCEPT ![g] = @ + 1] /\ UNCHANGED windowBase /\ admitting[g]
    BY <1>3 DEF AdmitToken
  <2>2. CASE h = g
    BY <1>1, <1>2, <2>1, <2>2 DEF WithinWindow
  <2>3. CASE h # g
    BY <1>1, <2>1, <2>3 DEF WithinWindow
  <2>. QED
    BY <2>2, <2>3
<1>4. CASE ControlTick(g)
  <2>1. PICK base \in windowBase[g] .. NumTokens : windowBase' = [windowBase EXCEPT ![g] = base]
    BY <1>4 DEF ControlTick
  <2>2. windowBase[h] <= windowBase'[h] /\ windowBase[h] \in Int /\ windowBase'[h] \in Int
    BY <1>1, <1>2, <2>1
  <2>3. nextToAdmit'[h] = nextToAdmit[h] /\ nextToAdmit[h] \in Int
    BY <1>1, <1>4 DEF ControlTick
  <2>. QED
    BY <1>2, <2>2, <2>3 DEF WithinWindow
<1>5. CASE UNCHANGED <<nextToAdmit, windowBase>>
  BY <1>5 DEF WithinWindow
<1>. QED
  BY <1>3, <1>4, <1>5
  DEF HostStep, HostThreads, ControlThread, ComputeThread, SendThread, ReadThread, ReadMessage, EnqueuePull, EnqueueFinish,
      ComputePop, ProcessLocalAttention, ProcessExpertMlp, SendPop, SendWrite, RecvAck,
      RecvExpertInput, RecvNotReady, RecvCombineResult, RecvFinish, BackOffExpires, HostExit

-----------------------------------------------------------------------------
(* Every message is with the host it is about *)

LEMMA PushSendAddressed ==
  ASSUME TypeOK, NEW g \in Hosts, NEW m, SentBy(g, m), sendQueue' = Push(sendQueue, g, m),
         UNCHANGED <<sending, toSwitch>>, NEW h \in Hosts, SendPathAddressed(h)
  PROVE  SendPathAddressed(h)'
<1>1. ASSUME NEW n \in 1 .. Len(sendQueue'[h])
      PROVE  SentBy(h, sendQueue'[h][n])
  BY <1>1 DEF SendPathAddressed, TypeOK, HostTypeOK, Push
<1>. QED
  BY <1>1 DEF SendPathAddressed

LEMMA PushTaskAddressed ==
  ASSUME TypeOK, NEW g \in Hosts, NEW m, TaskOf(g, m), computeQueue' = Push(computeQueue, g, m),
         UNCHANGED computing, NEW h \in Hosts, TaskPathAddressed(h)
  PROVE  TaskPathAddressed(h)'
<1>1. ASSUME NEW n \in 1 .. Len(computeQueue'[h])
      PROVE  TaskOf(h, computeQueue'[h][n])
  BY <1>1 DEF TaskPathAddressed, TypeOK, HostTypeOK, Push
<1>. QED
  BY <1>1 DEF TaskPathAddressed

LEMMA HostStepSendAddressed ==
  ASSUME TypeOK, Addressed, NEW g \in Hosts, HostTurn(g), NEW h \in Hosts
  PROVE  SendPathAddressed(h)'
<1> USE DEF linkVars, hostVars, queueVars, tokenVars, windowVars, controlVars
<1>1. SendPathAddressed(h)
  BY DEF Addressed
<1>2. CASE EnqueuePull(g)
  <2>1. PICK k \in needPull[g] : sendQueue' = Push(sendQueue, g, CombinePullReq(g, k))
    BY <1>2 DEF EnqueuePull
  <2>2. SentBy(g, CombinePullReq(g, k))
    BY DEF SentBy, CombinePullReq, TypeOK, HostTypeOK
  <2>. QED
    BY <1>1, <1>2, <2>1, <2>2, PushSendAddressed DEF EnqueuePull
<1>3. CASE EnqueueFinish(g)
  <2>1. SentBy(g, HostFinish(g))
    BY DEF SentBy, HostFinish
  <2>. QED
    BY <1>1, <1>3, <2>1, PushSendAddressed DEF EnqueueFinish
<1>4. CASE ProcessLocalAttention(g)
  <2>1. computing[g].idx \in Tokens
    BY <1>4 DEF ProcessLocalAttention, Addressed, TaskPathAddressed, TaskOf
  <2>2. SentBy(g, DispatchToken(g, computing[g].idx))
    BY <2>1 DEF SentBy, DispatchToken
  <2>. QED
    BY <1>1, <1>4, <2>2, PushSendAddressed DEF ProcessLocalAttention
<1>5. CASE ProcessExpertMlp(g)
  <2>1. computing[g] \in Task /\ computing[g].idx \in Tokens
    BY <1>5 DEF ProcessExpertMlp, Addressed, TaskPathAddressed, TaskOf, TypeOK, HostTypeOK
  <2>2. SentBy(g, ExpertResult(g, computing[g]))
    BY <2>1 DEF SentBy, ExpertResult, Task, Header
  <2>. QED
    BY <1>1, <1>5, <2>2, PushSendAddressed DEF ProcessExpertMlp
<1>6. CASE SendPop(g)
  <2>1. sendQueue[g] \in Seq(Message) /\ sendQueue[g] # << >>
        /\ sendQueue \in [Hosts -> Seq(Message)] /\ sending \in [Hosts -> Message \cup {None}]
    BY <1>6 DEF SendPop, TypeOK, HostTypeOK
  <2>2. /\ sending' = [sending EXCEPT ![g] = Head(sendQueue[g])]
        /\ sendQueue' = [sendQueue EXCEPT ![g] = Tail(@)]
        /\ UNCHANGED toSwitch
    BY <1>6 DEF SendPop
  <2>3. CASE h = g
    <3>1. sending'[h] = sendQueue[h][1] /\ 1 \in 1 .. Len(sendQueue[h])
      BY <2>1, <2>2, <2>3
    <3>2. \A n \in 1 .. Len(sendQueue'[h]) : /\ n + 1 \in 1 .. Len(sendQueue[h])
                                             /\ sendQueue'[h][n] = sendQueue[h][n + 1]
      BY <2>1, <2>2, <2>3
    <3>. QED
      BY <1>1, <2>2, <3>1, <3>2 DEF SendPathAddressed
  <2>4. CASE h # g
    BY <1>1, <2>1, <2>2, <2>4 DEF SendPathAddressed
  <2>. QED
    BY <2>3, <2>4
<1>7. CASE SendWrite(g)
  BY <1>1, <1>7 DEF SendWrite, WriteToSwitch, SendPathAddressed, TypeOK, LinksTypeOK, HostTypeOK
<1>8. CASE UNCHANGED <<sendQueue, sending, toSwitch>>
  BY <1>1, <1>8 DEF SendPathAddressed
<1>. QED
  BY <1>2, <1>3, <1>4, <1>5, <1>6, <1>7, <1>8
  DEF HostTurn, HostStep, HostThreads, ControlThread, ComputeThread, SendThread, ReadThread, ReadMessage, AdmitToken, ControlTick,
      ComputePop, RecvAck, RecvExpertInput, RecvNotReady, RecvCombineResult, RecvFinish,
      ReadFromSwitch, BackOffExpires, HostExit

LEMMA HostStepTaskAddressed ==
  ASSUME NEW excused, NEW lost, IInv(excused, lost),
         Addressed, NEW g \in Hosts, HostTurn(g), NEW h \in Hosts
  PROVE  TaskPathAddressed(h)'
<1> USE DEF linkVars, hostVars, queueVars, tokenVars, windowVars, controlVars
<1>1. TaskPathAddressed(h) /\ TypeOK
  BY DEF Addressed, IInv
<1>2. CASE AdmitToken(g)
  <2>1. nextToAdmit[g] < NumTokens /\ nextToAdmit[g] \in Nat
    BY <1>1, <1>2 DEF AdmitToken, IInv, TruthfulBut, HostsTruthful, CanAdmit, TypeOK, HostTypeOK
  <2>2. nextToAdmit[g] \in Tokens
    BY <2>1, ConstantsAssumption DEF Tokens
  <2>3. TaskOf(g, LocalAttention(g, nextToAdmit[g]))
    BY <2>2 DEF TaskOf, LocalAttention
  <2>. QED
    BY <1>1, <1>2, <2>3, PushTaskAddressed DEF AdmitToken
<1>3. CASE RecvExpertInput(g)
  <2>1. TaskOf(g, toHost[g])
    BY <1>3 DEF RecvExpertInput, ReadFromSwitch, Addressed, ReceivePathAddressed, SentTo, AnswerFor,
                TaskOf
  <2>. QED
    BY <1>1, <1>3, <2>1, PushTaskAddressed DEF RecvExpertInput
<1>4. CASE ComputePop(g)
  <2>1. computeQueue[g] \in Seq(Task) /\ computeQueue[g] # << >>
        /\ computeQueue \in [Hosts -> Seq(Task)] /\ computing \in [Hosts -> Task \cup {None}]
    BY <1>1, <1>4 DEF ComputePop, TypeOK, HostTypeOK
  <2>2. /\ computing' = [computing EXCEPT ![g] = Head(computeQueue[g])]
        /\ computeQueue' = [computeQueue EXCEPT ![g] = Tail(@)]
    BY <1>4 DEF ComputePop
  <2>3. CASE h = g
    <3>1. computing'[h] = computeQueue[h][1] /\ 1 \in 1 .. Len(computeQueue[h])
      BY <2>1, <2>2, <2>3
    <3>2. \A n \in 1 .. Len(computeQueue'[h]) : /\ n + 1 \in 1 .. Len(computeQueue[h])
                                                /\ computeQueue'[h][n] = computeQueue[h][n + 1]
      BY <2>1, <2>2, <2>3
    <3>. QED
      BY <1>1, <3>1, <3>2 DEF TaskPathAddressed
  <2>4. CASE h # g
    BY <1>1, <2>1, <2>2, <2>4 DEF TaskPathAddressed
  <2>. QED
    BY <2>3, <2>4
<1>5. CASE ProcessLocalAttention(g) \/ ProcessExpertMlp(g)
  BY <1>1, <1>5 DEF ProcessLocalAttention, ProcessExpertMlp, TaskPathAddressed, TypeOK, HostTypeOK
<1>6. CASE UNCHANGED <<computeQueue, computing>>
  BY <1>1, <1>6 DEF TaskPathAddressed
<1>. QED
  BY <1>2, <1>3, <1>4, <1>5, <1>6
  DEF HostTurn, HostStep, HostThreads, ControlThread, ComputeThread, SendThread, ReadThread, ReadMessage, ControlTick, EnqueuePull,
      EnqueueFinish, SendPop, SendWrite, RecvAck, RecvNotReady, RecvCombineResult, RecvFinish,
      BackOffExpires, HostExit

LEMMA HostStepAddressed ==
  ASSUME NEW excused, NEW lost, IInv(excused, lost),
         Addressed, NEW g \in Hosts, HostTurn(g), UNCHANGED switchVars
  PROVE  Addressed'
<1>1. TypeOK
  BY DEF IInv
<1>. SUFFICES ASSUME NEW h \in Hosts
              PROVE  ReceivePathAddressed(h)' /\ FanAddressed(h)'
  BY <1>1, HostStepSendAddressed, HostStepTaskAddressed DEF Addressed
<1>2. ReceivePathAddressed(h) /\ FanAddressed(h)
  BY DEF Addressed
<1>3. FanAddressed(h)'
  BY <1>2 DEF FanAddressed, switchVars, readerVars
<1>4. toHost'[h] = toHost[h] \/ toHost'[h] = None
  <2>1. CASE ReadMessage(g)
    <3>1. toHost' = [toHost EXCEPT ![g] = None]
      BY <2>1 DEF ReadMessage, RecvAck, RecvExpertInput, RecvNotReady, RecvCombineResult, RecvFinish,
                  ReadFromSwitch
    <3>. QED
      BY <1>1, <3>1 DEF TypeOK, LinksTypeOK
  <2>2. CASE ~ReadMessage(g)
    BY <2>2
    DEF HostTurn, HostStep, HostThreads, ControlThread, ComputeThread, SendThread, ReadThread, AdmitToken, ControlTick, EnqueuePull,
        EnqueueFinish, ComputePop, ProcessLocalAttention, ProcessExpertMlp, SendPop, SendWrite,
        WriteToSwitch, BackOffExpires, HostExit, linkVars
  <2>. QED
    BY <2>1, <2>2
<1>5. ReceivePathAddressed(h)'
  BY <1>2, <1>4 DEF ReceivePathAddressed, switchVars, readerVars
<1>. QED
  BY <1>3, <1>5

\* A reader has read a message and leaves the rest of what hosts send alone.
LEMMA SwitchStepSendAddressed ==
  ASSUME TypeOK, Addressed, NEW r \in Hosts, SwitchStep(r), UNCHANGED hostVars, NEW h \in Hosts
  PROVE  SendPathAddressed(h)' /\ TaskPathAddressed(h)'
<1>1. toSwitch'[h] = toSwitch[h] \/ toSwitch'[h] = None
  BY DEF TypeOK, LinksTypeOK, SwitchStep, ReaderHandle, ReaderSend, HandleDispatchToken,
         HandleExpertResult, HandlePullReady, HandlePullNotReady, HandleFinish, CloseAll, SendFan,
         SendReply, ReaderExit, ReadFromHost, WriteToHost, linkVars
<1>. QED
  BY <1>1 DEF Addressed, SendPathAddressed, TaskPathAddressed, hostVars, queueVars

LEMMA ReaderHandleAddressed ==
  ASSUME NEW excused, NEW lost, IInv(excused, lost),
         Addressed, NEW r \in Hosts, ReaderHandle(r), UNCHANGED hostVars
  PROVE  Addressed'
<1> DEFINE m == toSwitch[r]
           slot == combineQueue[MakeKey(m)]
<1>1. TypeOK
  BY DEF IInv
<1>. SUFFICES ASSUME NEW h \in Hosts
              PROVE  ReceivePathAddressed(h)' /\ FanAddressed(h)'
  BY <1>1, SwitchStepSendAddressed DEF Addressed, SwitchStep
<1>2. ReceivePathAddressed(h) /\ FanAddressed(h)
  BY DEF Addressed
<1>3. /\ fan \in [Hosts -> Message \cup {None}] /\ targets \in [Hosts -> SUBSET Hosts]
      /\ reply \in [Hosts -> Message \cup {None}]
  BY <1>1 DEF TypeOK, SwitchTypeOK
<1>4. CASE HandleDispatchToken(r)
  <2>1. /\ m \in Message /\ m.origin = r /\ m.idx \in Tokens
    BY <1>1, <1>4 DEF HandleDispatchToken, ReadFromHost, Addressed, SendPathAddressed, SentBy,
                      TypeOK, LinksTypeOK
  <2>2. /\ AnswerFor(r, SwitchAck(m)) /\ SwitchAck(m) # None /\ ExpertInput(m) # None
        /\ ExpertInput(m).type = "EXPERT_INPUT" /\ ExpertInput(m).idx \in Tokens
        /\ ExpertInput(m).origin = r
    BY <2>1, SwitchMessageTypes, NoneIsNoMessage DEF AnswerFor, SwitchAck, ExpertInput, Message, Header
  <2>3. /\ fan' = [fan EXCEPT ![r] = ExpertInput(m)]
        /\ reply' = [reply EXCEPT ![r] = SwitchAck(m)]
        /\ \A q \in Hosts : q # r => targets'[q] = targets[q]
        /\ UNCHANGED toHost
    BY <1>3, <1>4 DEF HandleDispatchToken, ReadFromHost
  <2>4. CASE h = r
    BY <1>2, <1>3, <2>2, <2>3, <2>4 DEF ReceivePathAddressed, FanAddressed
  <2>5. CASE h # r
    BY <1>2, <1>3, <2>3, <2>5 DEF ReceivePathAddressed, FanAddressed
  <2>. QED
    BY <2>4, <2>5
<1>5. CASE HandleExpertResult(r)
  BY <1>2, <1>5 DEF HandleExpertResult, ReadFromHost, ReceivePathAddressed, FanAddressed, readerVars
<1>6. CASE HandlePullReady(r) \/ HandlePullNotReady(r)
  <2>1. PICK a : /\ AnswerFor(r, a) /\ reply' = [reply EXCEPT ![r] = a]
                 /\ fan[r] = None /\ UNCHANGED <<fan, targets, toHost>>
    <3>1. m \in Message /\ m.origin = r /\ m.idx \in Tokens
      BY <1>1, <1>6 DEF HandlePullReady, HandlePullNotReady, ReadFromHost, Addressed,
                        SendPathAddressed, SentBy, TypeOK, LinksTypeOK
    <3>2. AnswerFor(r, NotReady(m)) /\ AnswerFor(r, CombineResult(m, slot))
      BY <3>1 DEF AnswerFor, NotReady, CombineResult, Message, Header
    <3>. QED
      BY <1>6, <3>2 DEF HandlePullReady, HandlePullNotReady, ReaderIdle, ReadFromHost
  <2>. QED
    BY <1>2, <1>3, <2>1 DEF ReceivePathAddressed, FanAddressed
<1>7. CASE HandleFinish(r)
  <2>1. /\ SwitchFinish.type = "FINISH" /\ SwitchFinish # None
    <3>1. m \in Message
      BY <1>1, <1>7 DEF HandleFinish, ReadFromHost, TypeOK, LinksTypeOK
    <3>. QED
      BY <3>1, SwitchMessageTypes, NoneIsNoMessage DEF SwitchFinish
  <2>2. /\ fan' = [fan EXCEPT ![r] = SwitchFinish] \/ UNCHANGED <<fan, targets>>
        /\ \A q \in Hosts : q # r => targets'[q] = targets[q]
        /\ reply[r] = None /\ UNCHANGED <<toHost, reply>>
    BY <1>3, <1>7 DEF HandleFinish, ReaderIdle, ReadFromHost
  <2>3. CASE h = r
    BY <1>2, <1>3, <2>1, <2>2, <2>3 DEF ReceivePathAddressed, FanAddressed
  <2>4. CASE h # r
    BY <1>2, <1>3, <2>2, <2>4 DEF ReceivePathAddressed, FanAddressed
  <2>. QED
    BY <2>3, <2>4
<1>8. CASE CloseAll(r)
  BY <1>2, <1>3, <1>8 DEF CloseAll, ReceivePathAddressed, FanAddressed
<1>. QED
  BY <1>4, <1>5, <1>6, <1>7, <1>8 DEF ReaderHandle

LEMMA ReaderSendAddressed ==
  ASSUME TypeOK, Addressed, NEW r \in Hosts, ReaderSend(r) \/ ReaderExit(r), UNCHANGED hostVars
  PROVE  Addressed'
<1>. SUFFICES ASSUME NEW h \in Hosts
              PROVE  ReceivePathAddressed(h)' /\ FanAddressed(h)'
  BY SwitchStepSendAddressed DEF Addressed, SwitchStep
<1>1. ReceivePathAddressed(h) /\ FanAddressed(h) /\ ReceivePathAddressed(r) /\ FanAddressed(r)
  BY DEF Addressed
<1>2. /\ fan \in [Hosts -> Message \cup {None}] /\ targets \in [Hosts -> SUBSET Hosts]
      /\ reply \in [Hosts -> Message \cup {None}] /\ toHost \in [Hosts -> Message \cup {None}]
  BY DEF TypeOK, LinksTypeOK, SwitchTypeOK
<1>3. CASE SendFan(r)
  <2>1. PICK t \in targets[r] : /\ toHost' = [toHost EXCEPT ![t] = [fan[r] EXCEPT !.dst = t]]
                               /\ targets' = [targets EXCEPT ![r] = @ \ {t}]
                               /\ UNCHANGED <<fan, reply>>
    BY <1>3 DEF SendFan, WriteToHost
  <2>2. fan[r] \in Message /\ fan[r] # None
    BY <1>1, <1>2, <2>1 DEF FanAddressed
  <2>3. SentTo(t, [fan[r] EXCEPT !.dst = t])
    BY <1>1, <2>2 DEF FanAddressed, SentTo, Message, Header
  <2>4. FanAddressed(h)'
    BY <1>1, <1>2, <2>1 DEF FanAddressed
  <2>5. ReceivePathAddressed(h)'
    BY <1>1, <1>2, <2>1, <2>3 DEF ReceivePathAddressed
  <2>. QED
    BY <2>4, <2>5
<1>4. CASE SendReply(r)
  <2>1. /\ targets[r] = {} /\ reply[r] # None /\ toHost' = [toHost EXCEPT ![r] = reply[r]]
        /\ fan' = [fan EXCEPT ![r] = None] /\ reply' = [reply EXCEPT ![r] = None]
        /\ UNCHANGED targets
    BY <1>4 DEF SendReply, WriteToHost
  <2>2. SentTo(r, reply[r])
    BY <1>1, <2>1 DEF ReceivePathAddressed, SentTo
  <2>3. CASE h = r
    BY <1>1, <1>2, <2>1, <2>2, <2>3 DEF ReceivePathAddressed, FanAddressed
  <2>4. CASE h # r
    BY <1>1, <1>2, <2>1, <2>4 DEF ReceivePathAddressed, FanAddressed
  <2>. QED
    BY <2>3, <2>4
<1>5. CASE ReaderExit(r)
  BY <1>1, <1>5 DEF ReaderExit, ReceivePathAddressed, FanAddressed, linkVars
<1>. QED
  BY <1>3, <1>4, <1>5 DEF ReaderSend

-----------------------------------------------------------------------------
(* The end of the run *)

\* A step that starts no broadcast, stops nobody and sends no FINISH but
\* after all have finished.
LEMMA StopFrame ==
  ASSUME StopInOrder, UNCHANGED <<switchRunning, finishedHosts>>,
         \A q \in Hosts : Broadcasting(q)' => Broadcasting(q),
         \A h \in Hosts : ~running'[h] => ~running[h] \/ finishedHosts = Hosts,
         \A h \in Hosts :
           toHost'[h] # None /\ toHost'[h].type = "FINISH" =>
             \/ toHost[h] # None /\ toHost[h].type = "FINISH"
             \/ finishedHosts = Hosts
  PROVE  StopInOrder'
  BY DEF StopInOrder, FinishBroadcast, Broadcasting

LEMMA HostStepStops ==
  ASSUME TypeOK, StopInOrder, NEW g \in Hosts, HostStep(g), UNCHANGED switchVars
  PROVE  StopInOrder'
<1> USE DEF linkVars, hostVars, queueVars, tokenVars, windowVars, controlVars, switchVars, readerVars
<1>1. UNCHANGED <<switchRunning, finishedHosts, fan>>
  OBVIOUS
<1>2. \A q \in Hosts : Broadcasting(q)' => Broadcasting(q)
  BY <1>1 DEF Broadcasting
<1>3. CASE ReadThread(g)
  <2>1. toHost' = [toHost EXCEPT ![g] = None]
    BY <1>3 DEF ReadThread, ReadMessage, RecvAck, RecvExpertInput, RecvNotReady, RecvCombineResult, RecvFinish,
                ReadFromSwitch
  <2>2. \A h \in Hosts : toHost'[h] = toHost[h] \/ toHost'[h] = None
    BY <2>1 DEF TypeOK, LinksTypeOK
  <2>3. \A h \in Hosts : ~running'[h] => ~running[h] \/ finishedHosts = Hosts
    <3>1. CASE RecvFinish(g)
      BY <3>1 DEF RecvFinish, ReadFromSwitch, StopInOrder
    <3>2. CASE ~RecvFinish(g)
      BY <1>3, <3>2 DEF ReadThread, ReadMessage, RecvAck, RecvExpertInput, RecvNotReady, RecvCombineResult
    <3>. QED
      BY <3>1, <3>2
  <2>. QED
    BY <1>1, <1>2, <2>2, <2>3, StopFrame
<1>4. CASE ~ReadThread(g)
  <2>1. UNCHANGED <<toHost, running>>
    BY <1>4
    DEF HostStep, HostThreads, ControlThread, ComputeThread, SendThread, AdmitToken, ControlTick, EnqueuePull,
        EnqueueFinish, ComputePop, ProcessLocalAttention, ProcessExpertMlp, SendPop, SendWrite,
        WriteToSwitch, BackOffExpires, HostExit
  <2>. QED
    BY <1>1, <1>2, <2>1, StopFrame
<1>. QED
  BY <1>3, <1>4

\* A FINISH is counted once, and the last one finds nobody stopping.
LEMMA HandleFinishStops ==
  ASSUME TypeOK, TypeOK', Addressed, StopInOrder, NEW r \in Hosts, FinishLedger(r),
         HandleFinish(r), UNCHANGED hostVars
  PROVE  StopInOrder'
<1>1. toSwitch[r].origin = r /\ toSwitch[r].idx = 0
  BY DEF HandleFinish, ReadFromHost, Addressed, SendPathAddressed, SentBy
<1>2. Finishes(r) = Finishes(r)' + 1
  BY <1>1, FinishRead DEF HandleFinish, hostVars, queueVars, One
<1>3. r \notin finishedHosts
  BY <1>2, FinishCounts DEF FinishLedger, One
<1>4. /\ switchRunning /\ \A q \in Hosts : ~Broadcasting(q)
      /\ \A h \in Hosts : running[h] /\ ~(toHost[h] # None /\ toHost[h].type = "FINISH")
  BY <1>3 DEF StopInOrder, FinishBroadcast, Broadcasting
<1>5. UNCHANGED <<switchRunning, toHost, running>>
  BY DEF HandleFinish, ReadFromHost, hostVars
<1>6. finishedHosts' = Hosts \/ UNCHANGED fan
  <2>1. finishedHosts' \in SUBSET Hosts
    BY DEF TypeOK, SwitchTypeOK
  <2>. QED
    BY <2>1, AllFinishedIsEveryHost DEF HandleFinish
<1>7. \A q \in Hosts : Broadcasting(q)' => q = r /\ finishedHosts' = Hosts
  <2>1. \A q \in Hosts : q # r => fan'[q] = fan[q]
    BY DEF HandleFinish, TypeOK, SwitchTypeOK
  <2>. QED
    BY <1>4, <1>6, <2>1 DEF Broadcasting
<1>8. FinishBroadcast' => finishedHosts' = Hosts
  BY <1>4, <1>5, <1>7 DEF FinishBroadcast, Broadcasting
<1>. QED
  BY <1>4, <1>5, <1>7, <1>8 DEF StopInOrder

LEMMA SwitchStepStops ==
  ASSUME NEW excused, NEW lost, IInv(excused, lost),
         TypeOK', Addressed, StopInOrder, NEW r \in Hosts, FinishLedger(r),
         SwitchStep(r), UNCHANGED hostVars
  PROVE  StopInOrder'
<1> USE DEF linkVars, readerVars
<1>1. TypeOK
  BY DEF IInv
<1>2. fan \in [Hosts -> Message \cup {None}] /\ toHost \in [Hosts -> Message \cup {None}]
  BY <1>1 DEF TypeOK, SwitchTypeOK, LinksTypeOK
<1>3. UNCHANGED running
  BY DEF hostVars
<1>4. CASE HandleFinish(r)
  BY <1>1, <1>4, HandleFinishStops
<1>5. CASE CloseAll(r)
  <2>1. Broadcasting(r) /\ finishedHosts = Hosts
    BY <1>5 DEF CloseAll, Broadcasting, StopInOrder, FinishBroadcast
  <2>2. \A q \in Hosts : ~Broadcasting(q)'
    <3>1. fan' = [fan EXCEPT ![r] = None]
      BY <1>5 DEF CloseAll
    <3>2. \A q \in Hosts : q # r => ~Broadcasting(q)
      BY <2>1 DEF StopInOrder
    <3>. QED
      BY <1>2, <3>1, <3>2 DEF Broadcasting
  <2>3. UNCHANGED <<finishedHosts, toHost>>
    BY <1>5 DEF CloseAll
  <2>. QED
    BY <1>3, <2>1, <2>2, <2>3 DEF StopInOrder, FinishBroadcast
<1>6. CASE HandleDispatchToken(r)
  <2>1. /\ fan' = [fan EXCEPT ![r] = ExpertInput(toSwitch[r])]
        /\ UNCHANGED <<switchRunning, finishedHosts, toHost>>
    BY <1>6 DEF HandleDispatchToken, ReadFromHost
  <2>2. ExpertInput(toSwitch[r]).type = "EXPERT_INPUT"
    BY <1>1, <1>6 DEF HandleDispatchToken, ReadFromHost, TypeOK, LinksTypeOK, ExpertInput, Message,
                      Header
  <2>3. \A q \in Hosts : Broadcasting(q)' => Broadcasting(q)
    BY <1>2, <2>1, <2>2 DEF Broadcasting
  <2>. QED
    BY <1>3, <2>1, <2>3, StopFrame
<1>7. CASE HandleExpertResult(r) \/ HandlePullReady(r) \/ HandlePullNotReady(r) \/ ReaderExit(r)
  <2>1. UNCHANGED <<switchRunning, finishedHosts, toHost, fan>>
    BY <1>7 DEF HandleExpertResult, HandlePullReady, HandlePullNotReady, ReaderExit, ReadFromHost
  <2>2. \A q \in Hosts : Broadcasting(q)' => Broadcasting(q)
    BY <2>1 DEF Broadcasting
  <2>. QED
    BY <1>3, <2>1, <2>2, StopFrame
<1>8. CASE SendFan(r)
  <2>1. PICK t \in targets[r] : toHost' = [toHost EXCEPT ![t] = [fan[r] EXCEPT !.dst = t]]
    BY <1>8 DEF SendFan, WriteToHost
  <2>2. UNCHANGED <<switchRunning, finishedHosts, fan>>
    BY <1>8 DEF SendFan
  <2>3. fan[r] \in Message /\ fan[r] # None
    BY <1>2, <2>1 DEF Addressed, FanAddressed
  <2>4. [fan[r] EXCEPT !.dst = t].type = "FINISH" => finishedHosts = Hosts
    BY <2>3 DEF Message, Header, StopInOrder, FinishBroadcast
  <2>5. \A h \in Hosts : toHost'[h] # None /\ toHost'[h].type = "FINISH" =>
          (toHost[h] # None /\ toHost[h].type = "FINISH") \/ finishedHosts = Hosts
    BY <1>2, <2>1, <2>4
  <2>6. \A q \in Hosts : Broadcasting(q)' => Broadcasting(q)
    BY <2>2 DEF Broadcasting
  <2>. QED
    BY <1>3, <2>2, <2>5, <2>6, StopFrame
<1>9. CASE SendReply(r)
  <2>1. /\ reply[r] # None /\ toHost' = [toHost EXCEPT ![r] = reply[r]]
        /\ fan' = [fan EXCEPT ![r] = None] /\ UNCHANGED <<switchRunning, finishedHosts>>
    BY <1>9 DEF SendReply, WriteToHost
  <2>2. reply[r].type # "FINISH"
    BY <2>1 DEF Addressed, ReceivePathAddressed, AnswerFor
  <2>3. \A q \in Hosts : Broadcasting(q)' => Broadcasting(q)
    BY <1>2, <2>1 DEF Broadcasting
  <2>. QED
    BY <1>2, <1>3, <2>1, <2>2, <2>3, StopFrame
<1>. QED
  BY <1>4, <1>5, <1>6, <1>7, <1>8, <1>9 DEF SwitchStep, ReaderHandle, ReaderSend

-----------------------------------------------------------------------------
(* The accounting invariant *)

LEMMA InitAccounted ==
  ASSUME Init
  PROVE  Accounted
<1> USE DEF Init, LinksInit, HostInit, SwitchInit
<1>1. Addressed
  <2>. SUFFICES ASSUME NEW h \in Hosts
                PROVE  /\ SendPathAddressed(h) /\ TaskPathAddressed(h)
                       /\ ReceivePathAddressed(h) /\ FanAddressed(h)
    BY DEF Addressed
  <2>. QED
    BY DEF SendPathAddressed, TaskPathAddressed, ReceivePathAddressed, FanAddressed
<1>2. \A h \in Hosts : Outbox(h) = << >> /\ Inbox(h) = << >> /\ Bench(h) = << >>
  BY DEF Outbox, Inbox, Bench, Held
<1>3. ASSUME NEW h \in Hosts, NEW i \in Tokens
      PROVE  TokenLedger(h, i)
  <2>1. /\ Attentions(h, i) = 0 /\ Dispatches(h, i) = 0 /\ Acks(h, i) = 0
        /\ PullRequests(h, i) = 0 /\ Refusals(h, i) = 0 /\ Results(h, i) = 0
    BY <1>2, CountEmpty DEF Attentions, Dispatches, Acks, PullRequests, Refusals, Results
  <2>2. ~(i < nextToAdmit[h]) /\ i \notin SlotsOf(h)
    BY DEF Tokens, SlotsOf, CombineKey
  <2>3. /\ i \notin attentionDone[h] /\ i \notin dispatchAcked[h] /\ i \notin combineDone[h]
        /\ i \notin pullInflight[h] /\ i \notin needPull[h]
    OBVIOUS
  <2>. QED
    BY <2>1, <2>2, <2>3 DEF TokenLedger, One
<1>4. ASSUME NEW e \in Hosts, NEW h \in Hosts, NEW i \in Tokens
      PROVE  WorkLedger(e, h, i)
  <2>1. ExpertInputs(e, h, i) = 0 /\ ExpertResults(e, h, i) = 0
    BY <1>2, CountEmpty DEF ExpertInputs, ExpertResults
  <2>2. ~AwaitsDispatch(e, h, i) /\ ~PendingFrom(e, h, i)
    BY DEF AwaitsDispatch, PendingFrom, CombineKey
  <2>. QED
    BY <2>1, <2>2 DEF WorkLedger, One
<1>5. ASSUME NEW h \in Hosts
      PROVE  FinishLedger(h) /\ WithinWindow(h)
  <2>1. Finishes(h) = 0
    BY <1>2, CountEmpty DEF Finishes
  <2>. QED
    BY <2>1 DEF FinishLedger, WithinWindow, One
<1>6. StopInOrder
  BY DEF StopInOrder, FinishBroadcast, Broadcasting
<1>. QED
  BY <1>1, <1>3, <1>4, <1>5, <1>6 DEF Accounted, PendingExact

LEMMA StutterAccounted ==
  ASSUME Accounted, UNCHANGED vars
  PROVE  Accounted'
<1> USE DEF vars, linkVars, hostVars, switchVars, readerVars, queueVars, tokenVars, windowVars, controlVars
<1>1. Addressed'
  BY DEF Accounted, Addressed, SendPathAddressed, TaskPathAddressed, ReceivePathAddressed, FanAddressed
<1>2. ASSUME NEW h \in Hosts
      PROVE  /\ Outbox(h)' = Outbox(h) /\ Inbox(h)' = Inbox(h) /\ Bench(h)' = Bench(h)
             /\ FinishLedger(h)' /\ WithinWindow(h)'
  <2>1. Outbox(h)' = Outbox(h) /\ Inbox(h)' = Inbox(h) /\ Bench(h)' = Bench(h)
    BY OutboxFrame, InboxFrame, BenchFrame
  <2>2. FinishLedger(h) /\ WithinWindow(h)
    BY DEF Accounted
  <2>. QED
    BY <2>1, <2>2 DEF FinishLedger, WithinWindow, Finishes
<1>3. ASSUME NEW h \in Hosts, NEW i \in Tokens
      PROVE  TokenLedger(h, i)'
  <2>1. MarksKept(h, i)
    BY DEF MarksKept
  <2>. QED
    BY <2>1, SendPathFrame2, AnswerPathFrame, TaskPathFrame2, TokenFrame DEF Accounted
<1>4. ASSUME NEW e \in Hosts, NEW h \in Hosts, NEW i \in Tokens
      PROVE  WorkLedger(e, h, i)'
  BY InputsFrame, ResultsFrame, WorkMarksFrame, WorkFrame DEF WorkPathKept, Accounted, PendingExact
<1>5. StopInOrder'
  BY StopFrame DEF Accounted, Broadcasting
<1>. QED
  BY <1>1, <1>2, <1>3, <1>4, <1>5 DEF Accounted, PendingExact

\* A host with anything in its threads still runs, so its queues take it.
LEMMA RunningThreads ==
  ASSUME NEW g, running[g] \/ Idle(g)
  PROVE  /\ ControlThread(g) => running[g]
         /\ ProcessLocalAttention(g) \/ ProcessExpertMlp(g) => running[g]
         /\ ComputeThread(g) => running[g]
  BY DEF Idle, ControlThread, AdmitToken, ControlTick, EnqueuePull, EnqueueFinish, ComputeThread,
         ComputePop, ProcessLocalAttention, ProcessExpertMlp

LEMMA HostStepToken ==
  ASSUME NEW excused, NEW lost, IInv(excused, lost),
         TypeOK', Addressed, NEW g \in Hosts, HostStep(g) \/ ControlTick(g), UNCHANGED switchVars,
         running[g] \/ Idle(g), NEW h \in Hosts, NEW i \in Tokens, TokenLedger(h, i)
  PROVE  TokenLedger(h, i)'
<1>1. TypeOK
  BY DEF IInv
<1>2. CASE ControlThread(g) \/ ControlTick(g)
  BY <1>1, <1>2, RunningThreads, AdmitTokenToken, ControlTickToken, EnqueuePullToken,
     EnqueueFinishToken
  DEF ControlThread
<1>3. CASE ComputeThread(g)
  BY <1>1, <1>3, RunningThreads, MovedToken, ProcessLocalAttentionToken, ProcessExpertMlpToken
  DEF ComputeThread
<1>4. CASE ReadThread(g)
  BY <1>1, <1>4, RecvAckToken, RecvPullAnswerToken, RecvOtherToken DEF ReadThread, ReadMessage
<1>5. CASE BackOffExpires(g) \/ SendThread(g) \/ HostExit(g)
  BY <1>1, <1>5, MovedToken
<1>. QED
  BY <1>2, <1>3, <1>4, <1>5 DEF HostStep, HostThreads

LEMMA HostStepWork ==
  ASSUME NEW excused, NEW lost, IInv(excused, lost),
         TypeOK', Addressed, NEW g \in Hosts, HostStep(g) \/ ControlTick(g), UNCHANGED switchVars,
         running[g] \/ Idle(g),
         NEW e \in Hosts, NEW h \in Hosts, NEW i \in Tokens, WorkLedger(e, h, i)
  PROVE  WorkLedger(e, h, i)'
<1>1. TypeOK
  BY DEF IInv
<1>2. CASE ControlThread(g) \/ ControlTick(g) \/ BackOffExpires(g) \/ HostExit(g)
  BY <1>1, <1>2, RunningThreads, ControlThreadWork
<1>3. CASE ComputeThread(g)
  BY <1>1, <1>3, RunningThreads, ComputeThreadWork
<1>4. CASE SendThread(g) \/ ReadThread(g)
  BY <1>1, <1>4, SendReadThreadWork
<1>. QED
  BY <1>2, <1>3, <1>4 DEF HostStep, HostThreads

LEMMA SwitchStepToken ==
  ASSUME NEW excused, NEW lost, IInv(excused, lost),
         TypeOK', Addressed, NEW r \in Hosts, SwitchStep(r), UNCHANGED hostVars,
         NEW h \in Hosts, NEW i \in Tokens, TokenLedger(h, i)
  PROVE  TokenLedger(h, i)'
<1>1. TypeOK
  BY DEF IInv
<1>. QED
  BY <1>1, HandleDispatchTokenToken, HandleExpertResultToken, HandlePullToken, HandleFinishToken,
     ReaderSendToken
  DEF SwitchStep, ReaderHandle

LEMMA SwitchStepWork ==
  ASSUME NEW excused, NEW lost, IInv(excused, lost),
         TypeOK', Addressed, NEW r \in Hosts, SwitchStep(r), UNCHANGED hostVars,
         NEW e \in Hosts, NEW h \in Hosts, NEW i \in Tokens, WorkLedger(e, h, i),
         Dispatches(h, i) # 0 => combineQueue[<<h, i>>] = None
  PROVE  WorkLedger(e, h, i)'
<1>1. TypeOK
  BY DEF IInv
<1>2. CASE HandleDispatchToken(r) \/ HandleExpertResult(r)
  BY <1>1, <1>2, HandleDispatchTokenWork, HandleExpertResultWork
<1>3. CASE HandlePullReady(r) \/ HandlePullNotReady(r)
  BY <1>1, <1>3, HandlePullWork
<1>4. CASE HandleFinish(r) \/ CloseAll(r) \/ ReaderExit(r)
  BY <1>1, <1>4, HandleFinishWork
<1>5. CASE ReaderSend(r)
  BY <1>1, <1>5, ReaderSendWork
<1>. QED
  BY <1>2, <1>3, <1>4, <1>5 DEF SwitchStep, ReaderHandle

LEMMA HostStepAccounted ==
  ASSUME NEW excused, NEW lost, IInv(excused, lost),
         IInv(excused, lost)', Accounted, NEW g \in Hosts, HostStep(g), UNCHANGED switchVars
  PROVE  Accounted'
<1>1. TypeOK /\ TypeOK' /\ Addressed /\ StopInOrder
  BY DEF IInv, Accounted
<1>2. running[g] \/ Idle(g)
  BY WorkingHostRuns DEF Idle
<1>3. Addressed'
  BY <1>1, HostStepAddressed DEF HostTurn
<1>4. ASSUME NEW h \in Hosts, NEW i \in Tokens
      PROVE  TokenLedger(h, i)'
  BY <1>1, <1>2, HostStepToken DEF Accounted
<1>5. ASSUME NEW e \in Hosts, NEW h \in Hosts, NEW i \in Tokens
      PROVE  WorkLedger(e, h, i)'
  BY <1>1, <1>2, HostStepWork DEF Accounted, PendingExact
<1>6. ASSUME NEW h \in Hosts
      PROVE  FinishLedger(h)' /\ WithinWindow(h)'
  BY <1>1, <1>2, HostStepFinish, HostStepWindow DEF Accounted
<1>7. StopInOrder'
  BY <1>1, HostStepStops
<1>. QED
  BY <1>3, <1>4, <1>5, <1>6, <1>7 DEF Accounted, PendingExact

\* What the token's books say about a dispatch.
LEMMA DispatchFindsNoSlot ==
  ASSUME TypeOK, NEW h \in Hosts, NEW i \in Tokens, TokenLedger(h, i), Dispatches(h, i) # 0
  PROVE  combineQueue[<<h, i>>] = None
<1>1. Dispatches(h, i) \in Nat /\ Acks(h, i) \in Nat /\ Results(h, i) \in Nat
  BY TokenCountsNow
<1>2. Acks(h, i) + One(i \in dispatchAcked[h]) = 0
  BY <1>1 DEF TokenLedger, One
<1>3. i \notin SlotsOf(h)
  BY <1>1, <1>2 DEF TokenLedger, One
<1>. QED
  BY <1>3 DEF SlotsOf

LEMMA SwitchStepAccounted ==
  ASSUME NEW excused, NEW lost, IInv(excused, lost),
         IInv(excused, lost)', Accounted, NEW r \in Hosts, SwitchStep(r), UNCHANGED hostVars
  PROVE  Accounted'
<1>1. TypeOK /\ TypeOK' /\ Addressed /\ StopInOrder
  BY DEF IInv, Accounted
<1>2. Addressed'
  BY <1>1, ReaderHandleAddressed, ReaderSendAddressed DEF SwitchStep
<1>3. ASSUME NEW h \in Hosts, NEW i \in Tokens
      PROVE  TokenLedger(h, i)'
  BY <1>1, SwitchStepToken DEF Accounted
<1>4. ASSUME NEW e \in Hosts, NEW h \in Hosts, NEW i \in Tokens
      PROVE  WorkLedger(e, h, i)'
  BY <1>1, DispatchFindsNoSlot, SwitchStepWork DEF Accounted, PendingExact
<1>5. ASSUME NEW h \in Hosts
      PROVE  FinishLedger(h)' /\ WithinWindow(h)'
  <2>1. FinishLedger(h) /\ WithinWindow(h)
    BY DEF Accounted
  <2>2. UNCHANGED <<nextToAdmit, windowBase>>
    BY DEF hostVars, windowVars
  <2>. QED
    BY <1>1, <2>1, <2>2, SwitchStepFinish DEF WithinWindow
<1>6. StopInOrder'
  BY <1>1, SwitchStepStops DEF Accounted
<1>. QED
  BY <1>2, <1>3, <1>4, <1>5, <1>6 DEF Accounted, PendingExact

LEMMA NextAccounted ==
  ASSUME NEW excused, NEW lost, IInv(excused, lost), Accounted, [Next]_vars
  PROVE  IInv(excused, lost)' /\ Accounted'
<1>1. IInv(excused, lost)'
  BY NextIInv
<1>. QED
  BY <1>1, StutterAccounted, HostStepAccounted, SwitchStepAccounted DEF Next

-----------------------------------------------------------------------------
(* What follows from the accounting *)

\* Every message is with the host it is about, every token of every host is
\* at exactly one stage of its life, the work of every expert on it is in one
\* place, every FINISH is counted once, and nobody stops before the last.
THEOREM AccountedAlways == Spec => []Accounted
<1> DEFINE Inv == IInv({}, FALSE) /\ Accounted
<1>1. Init => Inv
  BY InitIInv, InitAccounted
<1>2. Inv /\ [Next]_vars => Inv'
  BY NextAccounted
<1>3. Inv => Accounted
  OBVIOUS
<1>. QED
  BY <1>1, <1>2, <1>3, PTL DEF Spec

\* The work that the switch waits for is in exactly one place on its way to
\* the expert, in the expert, or on its way back.
THEOREM PendingExactAlways == Spec => []PendingExact
<1>1. Accounted => PendingExact
  BY DEF Accounted
<1>. QED
  BY <1>1, AccountedAlways, PTL

\* pull_inflight of a token is set exactly while one request for it, or the
\* one answer to that request, is somewhere on its way.
THEOREM PullInflightExactAlways == Spec => []PullInflightExact
<1>1. IInv({}, FALSE) /\ Accounted => PullInflightExact
  <2>. SUFFICES ASSUME IInv({}, FALSE), Accounted, NEW h \in Hosts, NEW i \in Tokens
                PROVE  One(i \in needPull[h]) + PullRequests(h, i) + Refusals(h, i) + Results(h, i)
                         = One(i \in pullInflight[h])
    BY DEF PullInflightExact
  <2>. QED
    BY DEF Accounted, TokenLedger
<1>. QED
  BY <1>1, AccountedAlways, Invariance, PTL

\* A token whose DISPATCH_TOKEN is still on its way has no slot: the switch
\* never overwrites one.
THEOREM NoSlotOverwrittenAlways == Spec => []NoSlotOverwritten
<1>1. IInv({}, FALSE) /\ Accounted => NoSlotOverwritten
  BY DispatchFindsNoSlot DEF IInv, Accounted, NoSlotOverwritten
<1>. QED
  BY <1>1, AccountedAlways, Invariance, PTL

\* A token that a host asks for, or is about to ask for, has its slot: the
\* switch never answers for a token it does not know.
THEOREM PullFindsSlotAlways == Spec => []PullFindsSlot
<1>1. IInv({}, FALSE) /\ Accounted => PullFindsSlot
  <2>. SUFFICES ASSUME IInv({}, FALSE), Accounted, NEW h \in Hosts, NEW i \in Tokens,
                       i \in needPull[h] \/ PullRequests(h, i) # 0
                PROVE  i \in SlotsOf(h)
    BY DEF PullFindsSlot, SlotsOf
  <2>1. TypeOK /\ TokenLedger(h, i)
    BY DEF IInv, Accounted
  <2>2. i \in pullInflight[h] /\ Results(h, i) = 0
    BY <2>1, TokenCountsNow DEF TokenLedger, One
  <2>3. i \in dispatchAcked[h] /\ i \notin combineDone[h]
    BY <2>1, <2>2 DEF TokenLedger
  <2>. QED
    BY <2>1, <2>2, <2>3, TokenCountsNow DEF TokenLedger, One
<1>. QED
  BY <1>1, AccountedAlways, Invariance, PTL

LEMMA IntervalSize ==
  ASSUME NEW base \in Nat, NEW next \in Nat, base < next
  PROVE  IsFiniteSet(base .. next - 1) /\ Cardinality(base .. next - 1) = next - base
<1> DEFINE last == next - 1
<1>1. last \in Int /\ ~(base > last) /\ last - base + 1 = next - base
  OBVIOUS
<1> HIDE DEF last
<1>2. IsFiniteSet(base .. last) /\ Cardinality(base .. last) = last - base + 1
  BY <1>1, FS_Interval
<1>. QED
  BY <1>1, <1>2 DEF last

\* A token that has a slot has been admitted and has no result yet.
LEMMA SlotInWindow ==
  ASSUME NEW excused, NEW lost, IInv(excused, lost),
         Accounted, NEW h \in Hosts, NEW i \in SlotsOf(h)
  PROVE  windowBase[h] <= i /\ i < nextToAdmit[h]
<1>1. /\ i \in Tokens /\ TypeOK /\ TokenLedger(h, i)
      /\ windowBase[h] \in Int /\ nextToAdmit[h] \in Int /\ i \in Int
  BY DEF SlotsOf, IInv, Accounted, TypeOK, HostTypeOK, Tokens
<1>2. Acks(h, i) + One(i \in dispatchAcked[h]) > 0
  BY <1>1, TokenCountsNow DEF TokenLedger, One
<1>3. i \in attentionDone[h]
  BY <1>1, <1>2, TokenCountsNow DEF TokenLedger, One
<1>4. i < nextToAdmit[h]
  BY <1>1, <1>3, TokenCountsNow DEF TokenLedger, One
<1>5. i \notin combineDone[h]
  BY <1>1, TokenQuiet
<1>. QED
  BY <1>1, <1>4, <1>5 DEF IInv, TruthfulBut, HostsTruthful

\* combine_queue holds at most window_size slots of a host.
THEOREM SlotsWithinWindowAlways == Spec => []SlotsWithinWindow
<1>1. IInv({}, FALSE) /\ Accounted => SlotsWithinWindow
  <2>. SUFFICES ASSUME IInv({}, FALSE), Accounted, NEW h \in Hosts, SlotsOf(h) # {}
                PROVE  Cardinality(SlotsOf(h)) <= WindowSize
    BY DEF SlotsWithinWindow
  <2> DEFINE window == windowBase[h] .. nextToAdmit[h] - 1
  <2>1. windowBase[h] \in Nat /\ nextToAdmit[h] \in Nat /\ WindowSize \in Int
    BY ConstantsAssumption DEF IInv, TypeOK, HostTypeOK
  <2>2. SlotsOf(h) \subseteq window
    <3>1. ASSUME NEW i \in SlotsOf(h) PROVE windowBase[h] <= i /\ i < nextToAdmit[h]
      BY <3>1, SlotInWindow
    <3>2. SlotsOf(h) \subseteq Int
      BY DEF SlotsOf, Tokens
    <3>. QED
      BY <2>1, <3>1, <3>2
  <2>3. windowBase[h] < nextToAdmit[h]
    BY <2>1, <2>2
  <2>4. nextToAdmit[h] <= windowBase[h] + WindowSize
    BY <2>1, <2>3 DEF Accounted, WithinWindow
  <2>5. IsFiniteSet(window) /\ Cardinality(window) = nextToAdmit[h] - windowBase[h]
    BY <2>1, <2>3, IntervalSize
  <2>6. Cardinality(SlotsOf(h)) <= Cardinality(window) /\ Cardinality(SlotsOf(h)) \in Nat
    BY <2>2, <2>5, FS_Subset, FS_CardinalityType
  <2>. QED
    BY <2>1, <2>4, <2>5, <2>6
<1>. QED
  BY <1>1, AccountedAlways, Invariance, PTL

\* When the switch begins to broadcast its FINISH, nothing else is left
\* anywhere: no slot, no task, no message, no answer, no other handler.
THEOREM FinishQuiescentAlways == Spec => []FinishQuiescent
<1>1. IInv({}, FALSE) /\ Accounted => FinishQuiescent
  <2>. SUFFICES ASSUME IInv({}, FALSE), Accounted, FinishBroadcast
                PROVE  FinishQuiescent
    BY DEF FinishQuiescent
  <2>1. finishedHosts = Hosts /\ StopInOrder
    BY DEF Accounted, StopInOrder
  <2>2. \A h \in Hosts :
          /\ Outbox(h) = << >> /\ computeQueue[h] = << >> /\ computing[h] = None
          /\ needPull[h] = {} /\ ~admitting[h] /\ ~sendFinish[h]
          /\ reply[h] = None
          /\ toHost[h] # None => toHost[h].type = "FINISH"
          /\ \A i \in Tokens : combineQueue[<<h, i>>] = None
    BY <2>1, AllFinishedQuiet
  <2>3. \A h \in Hosts : fan[h] # None => Broadcasting(h) /\ switchRunning
    BY <2>1, <2>2 DEF Accounted, Addressed, FanAddressed, Broadcasting, StopInOrder
  <2>4. \A h, r \in Hosts : fan[h] # None /\ fan[r] # None => h = r
    BY <2>1, <2>3 DEF StopInOrder
  <2>5. \A k \in CombineKey : combineQueue[k] = None
    BY <2>2 DEF CombineKey
  <2>. QED
    BY <2>2, <2>3, <2>4, <2>5 DEF FinishQuiescent, Broadcasting
<1>. QED
  BY <1>1, AccountedAlways, Invariance, PTL

-----------------------------------------------------------------------------
(* Deadlock.  What the accounting leaves open: the control thread has       *)
(* admitted all that its window allows, connections and readers stand until *)
(* every host has finished, and then the broadcast reaches every host.      *)

\* Host h has stopped, or its FINISH is in its receive buffer.
Told(h) == ~running[h] \/ (toHost[h] # None /\ toHost[h].type = "FINISH")

AdmittingExact ==
  \A h \in Hosts : admitting[h] <=> CanAdmit(nextToAdmit[h], windowBase[h])

\* Inductive together with the type invariant, Truthful and Accounted.
EndInOrder ==
  /\ \A h \in Hosts : ~hostEnd[h] => ~running[h]
  /\ finishedHosts # Hosts => \A h \in Hosts : switchEnd[h] /\ readerUp[h]
  /\ finishedHosts = Hosts => FinishBroadcast
  /\ \A r \in Hosts : Broadcasting(r) => \A t \in Hosts : Told(t) <=> t \notin targets[r]
  /\ ~switchRunning => \A t \in Hosts : Told(t)

\* Only an admission and a tick touch what AdmittingExact speaks of.
LEMMA HostStepAdmitting ==
  ASSUME TypeOK, AdmittingExact, NEW g \in Hosts, HostStep(g)
  PROVE  AdmittingExact'
<1> USE DEF linkVars, hostVars, queueVars, tokenVars, windowVars, controlVars
<1>1. /\ nextToAdmit \in [Hosts -> 0 .. NumTokens] /\ windowBase \in [Hosts -> 0 .. NumTokens]
      /\ admitting \in [Hosts -> BOOLEAN]
  BY DEF TypeOK, HostTypeOK
<1>2. CASE AdmitToken(g)
  <2>1. /\ nextToAdmit' = [nextToAdmit EXCEPT ![g] = @ + 1] /\ UNCHANGED windowBase
        /\ admitting' = [admitting EXCEPT ![g] = CanAdmit(nextToAdmit[g] + 1, windowBase[g])]
    BY <1>2 DEF AdmitToken
  <2>2. ASSUME NEW h \in Hosts PROVE admitting'[h] <=> CanAdmit(nextToAdmit'[h], windowBase'[h])
    BY <1>1, <2>1 DEF AdmittingExact
  <2>. QED
    BY <2>2 DEF AdmittingExact, CanAdmit
<1>3. CASE ControlTick(g)
  <2>1. PICK base \in windowBase[g] .. NumTokens :
          /\ windowBase' = [windowBase EXCEPT ![g] = base]
          /\ admitting' = [admitting EXCEPT ![g] =
                             base # windowBase[g] /\ CanAdmit(nextToAdmit[g], base)]
    BY <1>3 DEF ControlTick
  <2>2. UNCHANGED nextToAdmit /\ ~admitting[g]
    BY <1>3 DEF ControlTick
  <2>3. ASSUME NEW h \in Hosts PROVE admitting'[h] <=> CanAdmit(nextToAdmit'[h], windowBase'[h])
    <3>1. CASE h = g
      <4>1. admitting'[h] <=> base # windowBase[h] /\ CanAdmit(nextToAdmit[h], base)
        BY <1>1, <2>1, <3>1
      <4>2. windowBase'[h] = base /\ nextToAdmit'[h] = nextToAdmit[h]
        BY <1>1, <2>1, <2>2, <3>1
      <4>3. ~CanAdmit(nextToAdmit[h], windowBase[h])
        BY <2>2, <3>1 DEF AdmittingExact
      <4>. QED
        BY <4>1, <4>2, <4>3
    <3>2. CASE h # g
      BY <1>1, <2>1, <2>2, <3>2 DEF AdmittingExact
    <3>. QED
      BY <3>1, <3>2
  <2>. QED
    BY <2>3 DEF AdmittingExact, CanAdmit
<1>4. CASE UNCHANGED <<nextToAdmit, windowBase, admitting>>
  BY <1>4 DEF AdmittingExact, CanAdmit
<1>. QED
  BY <1>2, <1>3, <1>4
  DEF HostStep, HostThreads, ControlThread, ComputeThread, SendThread, ReadThread, ReadMessage, EnqueuePull, EnqueueFinish,
      ComputePop, ProcessLocalAttention, ProcessExpertMlp, SendPop, SendWrite, RecvAck,
      RecvExpertInput, RecvNotReady, RecvCombineResult, RecvFinish, BackOffExpires, HostExit

\* A host that is told stays told, and none is told by a host.
LEMMA HostStepEnd ==
  ASSUME NEW excused, NEW lost, IInv(excused, lost), Accounted, EndInOrder, StopInOrder',
         NEW g \in Hosts, HostStep(g), UNCHANGED switchVars
  PROVE  EndInOrder'
<1>1. /\ toHost \in [Hosts -> Message \cup {None}] /\ running \in [Hosts -> BOOLEAN]
      /\ hostEnd \in [Hosts -> BOOLEAN]
  BY DEF IInv, TypeOK, LinksTypeOK, HostTypeOK
<1>2. UNCHANGED <<finishedHosts, switchRunning, readerUp, fan, targets>>
  BY DEF switchVars, readerVars
<1>3. UNCHANGED switchEnd
  BY DEF HostStep, HostThreads, ControlThread, ComputeThread, SendThread, ReadThread, ReadMessage, AdmitToken, ControlTick,
         EnqueuePull, EnqueueFinish, ComputePop, ProcessLocalAttention, ProcessExpertMlp, SendPop,
         SendWrite, WriteToSwitch, RecvAck, RecvExpertInput, RecvNotReady, RecvCombineResult,
         RecvFinish, ReadFromSwitch, BackOffExpires, HostExit, linkVars
<1>4. \A h \in Hosts : ~hostEnd'[h] => ~running'[h]
  <2>1. CASE HostExit(g)
    BY <1>1, <2>1 DEF HostExit, hostVars, EndInOrder
  <2>2. CASE RecvFinish(g)
    BY <1>1, <2>2 DEF RecvFinish, ReadFromSwitch, EndInOrder
  <2>3. CASE ~HostExit(g) /\ ~RecvFinish(g)
    <3>1. UNCHANGED <<hostEnd, running>>
      BY <2>3
      DEF HostStep, HostThreads, ControlThread, ComputeThread, SendThread, ReadThread, ReadMessage, AdmitToken, ControlTick,
          EnqueuePull, EnqueueFinish, ComputePop, ProcessLocalAttention, ProcessExpertMlp, SendPop,
          SendWrite, WriteToSwitch, RecvAck, RecvExpertInput, RecvNotReady, RecvCombineResult,
          ReadFromSwitch, BackOffExpires, linkVars
    <3>. QED
      BY <3>1 DEF EndInOrder
  <2>. QED
    BY <2>1, <2>2, <2>3
<1>5. ASSUME finishedHosts = Hosts, NEW t \in Hosts
      PROVE  Told(t)' <=> Told(t)
  <2>1. toHost[t] # None => toHost[t].type = "FINISH"
    BY <1>5, AllFinishedQuiet
  <2>2. CASE ReadThread(g)
    <3>1. toHost[g] # None /\ toHost[g].type = "FINISH"
      <4>1. toHost[g] # None
        BY <2>2 DEF ReadThread, ReadMessage, RecvAck, RecvExpertInput, RecvNotReady, RecvCombineResult,
                    RecvFinish, ReadFromSwitch
      <4>. QED
        BY <1>5, <4>1, AllFinishedQuiet
    <3>2. RecvFinish(g)
      BY <2>2, <3>1 DEF ReadThread, ReadMessage, RecvAck, RecvExpertInput, RecvNotReady, RecvCombineResult,
                        ReadFromSwitch
    <3>3. /\ toHost' = [toHost EXCEPT ![g] = None] /\ running' = [running EXCEPT ![g] = FALSE]
      BY <3>2 DEF RecvFinish, ReadFromSwitch
    <3>4. CASE t = g
      BY <1>1, <3>1, <3>3, <3>4 DEF Told
    <3>5. CASE t # g
      BY <1>1, <3>3, <3>5 DEF Told
    <3>. QED
      BY <3>4, <3>5
  <2>3. CASE ~ReadThread(g)
    <3>1. UNCHANGED <<toHost, running>>
      BY <2>3
      DEF HostStep, HostThreads, ControlThread, ComputeThread, SendThread, AdmitToken, ControlTick, EnqueuePull,
          EnqueueFinish, ComputePop, ProcessLocalAttention, ProcessExpertMlp, SendPop, SendWrite,
          WriteToSwitch, BackOffExpires, HostExit, linkVars, hostVars
    <3>. QED
      BY <3>1 DEF Told
  <2>. QED
    BY <2>2, <2>3
<1>6. \A r \in Hosts : Broadcasting(r)' <=> Broadcasting(r)
  BY <1>2 DEF Broadcasting
<1>7. FinishBroadcast' <=> FinishBroadcast
  BY <1>2 DEF FinishBroadcast
<1>8. ~(finishedHosts = Hosts) => switchRunning /\ \A r \in Hosts : ~Broadcasting(r)
  BY DEF Accounted, StopInOrder, FinishBroadcast, Broadcasting
<1>9. \A r \in Hosts : Broadcasting(r)' => \A t \in Hosts : Told(t)' <=> t \notin targets'[r]
  BY <1>2, <1>5, <1>6, <1>8 DEF EndInOrder
<1>10. ~switchRunning' => \A t \in Hosts : Told(t)'
  BY <1>2, <1>5, <1>8 DEF EndInOrder
<1>11. finishedHosts' # Hosts => \A h \in Hosts : switchEnd'[h] /\ readerUp'[h]
  BY <1>2, <1>3 DEF EndInOrder
<1>12. finishedHosts' = Hosts => FinishBroadcast'
  BY <1>2, <1>7 DEF EndInOrder
<1>. QED
  BY <1>4, <1>9, <1>10, <1>11, <1>12 DEF EndInOrder

\* The reader that counts the last FINISH begins to tell the hosts.
LEMMA LastFinishBegins ==
  ASSUME NEW excused, NEW lost, IInv(excused, lost), TypeOK', Accounted, EndInOrder,
         finishedHosts # Hosts, finishedHosts' = Hosts,
         NEW r \in Hosts, SwitchStep(r), UNCHANGED hostVars
  PROVE  EndInOrder'
<1>1. HandleFinish(r)
  BY DEF SwitchStep, ReaderHandle, ReaderSend, HandleDispatchToken, HandleExpertResult,
         HandlePullReady, HandlePullNotReady, SendFan, SendReply, CloseAll, ReaderExit
<1>2. /\ fan \in [Hosts -> Message \cup {None}] /\ targets \in [Hosts -> SUBSET Hosts]
  BY DEF IInv, TypeOK, SwitchTypeOK
<1>3. /\ switchRunning /\ \A q \in Hosts : ~Broadcasting(q)
      /\ \A t \in Hosts : ~Told(t)
  BY DEF Accounted, StopInOrder, FinishBroadcast, Broadcasting, Told
<1>4. AllFinished(finishedHosts')
  <2>1. Cardinality(finishedHosts') = NumHosts /\ NumHosts \in Int
    BY HostsCardinality, ConstantsAssumption
  <2>. QED
    BY <2>1 DEF AllFinished
<1>5. /\ fan' = [fan EXCEPT ![r] = SwitchFinish] /\ targets' = [targets EXCEPT ![r] = Hosts]
      /\ UNCHANGED <<switchRunning, toHost, running, hostEnd>>
  BY <1>1, <1>4 DEF HandleFinish, ReadFromHost, ConnectedHosts, hostVars
<1>6. SwitchFinish # None /\ SwitchFinish.type = "FINISH"
  <2>1. toSwitch[r] \in Message
    BY <1>1 DEF HandleFinish, ReadFromHost, IInv, TypeOK, LinksTypeOK
  <2>2. SwitchFinish \in Message
    BY <2>1, SwitchMessageTypes
  <2>. QED
    BY <2>2, NoneIsNoMessage DEF SwitchFinish
<1>7. Broadcasting(r)' /\ \A q \in Hosts : Broadcasting(q)' => q = r
  BY <1>2, <1>3, <1>5, <1>6 DEF Broadcasting
<1>8. \A t \in Hosts : ~Told(t)'
  BY <1>3, <1>5 DEF Told
<1>9. targets'[r] = Hosts
  BY <1>2, <1>5
<1>10. FinishBroadcast'
  BY <1>7 DEF FinishBroadcast, Broadcasting
<1>. QED
  BY <1>3, <1>5, <1>7, <1>8, <1>9, <1>10 DEF EndInOrder

\* Once all have finished, the only reader that is in a handler tells one host
\* after the other, and then closes all connections.
LEMMA ClosingStepEnd ==
  ASSUME NEW excused, NEW lost, IInv(excused, lost), Accounted, EndInOrder,
         finishedHosts = Hosts, NEW r \in Hosts, SwitchStep(r), UNCHANGED hostVars
  PROVE  EndInOrder'
<1>1. /\ fan \in [Hosts -> Message \cup {None}] /\ targets \in [Hosts -> SUBSET Hosts]
      /\ toHost \in [Hosts -> Message \cup {None}]
  BY DEF IInv, TypeOK, SwitchTypeOK, LinksTypeOK
<1>2. toSwitch[r] = None /\ reply[r] = None
  BY AllFinishedQuiet
<1>3. ~HandleDispatchToken(r) /\ ~HandleExpertResult(r) /\ ~HandlePullReady(r)
      /\ ~HandlePullNotReady(r) /\ ~HandleFinish(r) /\ ~SendReply(r)
  BY <1>2 DEF HandleDispatchToken, HandleExpertResult, HandlePullReady, HandlePullNotReady,
              HandleFinish, SendReply, ReadFromHost
<1>4. UNCHANGED running
  BY DEF hostVars
<1>5. CASE SendFan(r)
  <2>1. PICK t \in targets[r] :
          /\ hostEnd[t] /\ toHost' = [toHost EXCEPT ![t] = [fan[r] EXCEPT !.dst = t]]
          /\ targets' = [targets EXCEPT ![r] = @ \ {t}]
    BY <1>5 DEF SendFan, WriteToHost
  <2>2. UNCHANGED <<hostEnd, switchEnd, finishedHosts, switchRunning, readerUp, fan>>
    BY <1>5 DEF SendFan, WriteToHost
  <2>3. Broadcasting(r) /\ switchRunning
    BY <1>2, <2>1 DEF Accounted, Addressed, FanAddressed, Broadcasting, StopInOrder
  <2>4. \A q \in Hosts : Broadcasting(q)' => q = r
    BY <2>2, <2>3 DEF Accounted, StopInOrder, Broadcasting
  <2>5. t \in Hosts /\ toHost'[t] # None /\ toHost'[t].type = "FINISH"
    <3>1. t \in Hosts /\ fan[r] \in Message /\ fan[r].type = "FINISH"
      BY <1>1, <2>1, <2>3 DEF Broadcasting
    <3>2. [fan[r] EXCEPT !.dst = t] \in Message /\ [fan[r] EXCEPT !.dst = t].type = "FINISH"
      BY <3>1 DEF Message, Header
    <3>3. toHost'[t] = [fan[r] EXCEPT !.dst = t]
      BY <1>1, <2>1, <3>1
    <3>. QED
      BY <3>1, <3>2, <3>3, NoneIsNoMessage
  <2>6. ASSUME NEW u \in Hosts PROVE Told(u)' <=> u \notin targets'[r]
    <3>1. CASE u = t
      BY <1>1, <2>1, <2>5, <3>1 DEF Told
    <3>2. CASE u # t
      <4>1. toHost'[u] = toHost[u] /\ (u \in targets'[r] <=> u \in targets[r])
        BY <1>1, <2>1, <3>2
      <4>2. Told(u) <=> u \notin targets[r]
        BY <2>3 DEF EndInOrder
      <4>. QED
        BY <1>4, <4>1, <4>2 DEF Told
    <3>. QED
      BY <3>1, <3>2
  <2>7. FinishBroadcast'
    BY <2>2, <2>3 DEF FinishBroadcast, Broadcasting
  <2>. QED
    BY <1>4, <2>2, <2>3, <2>4, <2>6, <2>7 DEF EndInOrder
<1>6. CASE CloseAll(r)
  <2>1. Broadcasting(r) /\ targets[r] = {}
    BY <1>6 DEF CloseAll, Broadcasting
  <2>2. \A t \in Hosts : Told(t)
    BY <2>1 DEF EndInOrder
  <2>3. /\ UNCHANGED <<toHost, hostEnd, finishedHosts>> /\ ~switchRunning'
        /\ fan' = [fan EXCEPT ![r] = None]
    BY <1>6 DEF CloseAll
  <2>4. \A q \in Hosts : ~Broadcasting(q)'
    BY <1>1, <2>1, <2>3 DEF Broadcasting, Accounted, StopInOrder
  <2>5. \A t \in Hosts : Told(t)'
    BY <1>4, <2>2, <2>3 DEF Told
  <2>. QED
    BY <1>4, <2>3, <2>4, <2>5 DEF EndInOrder, FinishBroadcast
<1>7. CASE ReaderExit(r)
  <2>1. UNCHANGED <<toHost, hostEnd, finishedHosts, switchRunning, fan, targets>>
    BY <1>7 DEF ReaderExit, linkVars
  <2>2. /\ \A q \in Hosts : Broadcasting(q)' <=> Broadcasting(q)
        /\ \A t \in Hosts : Told(t)' <=> Told(t)
        /\ FinishBroadcast' <=> FinishBroadcast
    BY <1>4, <2>1 DEF Broadcasting, Told, FinishBroadcast
  <2>. QED
    BY <1>4, <2>1, <2>2 DEF EndInOrder
<1>. QED
  BY <1>3, <1>5, <1>6, <1>7 DEF SwitchStep, ReaderHandle, ReaderSend

LEMMA SwitchStepEnd ==
  ASSUME NEW excused, NEW lost, IInv(excused, lost), TypeOK', Accounted, EndInOrder, StopInOrder',
         NEW r \in Hosts, SwitchStep(r), UNCHANGED hostVars
  PROVE  EndInOrder'
<1>1. CASE finishedHosts' # Hosts
  <2>1. finishedHosts # Hosts
    <3>1. finishedHosts' = finishedHosts \/ finishedHosts' = finishedHosts \cup {r}
      BY DEF SwitchStep, ReaderHandle, ReaderSend, HandleDispatchToken, HandleExpertResult,
             HandlePullReady, HandlePullNotReady, HandleFinish, SendFan, SendReply, CloseAll,
             ReaderExit
    <3>. QED
      BY <1>1, <3>1
  <2>2. ~CloseAll(r)
    BY <2>1 DEF CloseAll, Broadcasting, FinishBroadcast, Accounted, StopInOrder
  <2>3. switchEnd[r] /\ hostEnd[r]
    BY <2>1 DEF EndInOrder, Accounted, StopInOrder
  <2>4. UNCHANGED <<switchEnd, readerUp, hostEnd, running>>
    BY <2>2, <2>3
    DEF SwitchStep, ReaderHandle, ReaderSend, HandleDispatchToken, HandleExpertResult,
        HandlePullReady, HandlePullNotReady, HandleFinish, SendFan, SendReply, ReaderExit,
        ReadFromHost, WriteToHost, hostVars, readerVars
  <2>5. switchRunning' /\ \A q \in Hosts : ~Broadcasting(q)'
    BY <1>1 DEF StopInOrder, FinishBroadcast, Broadcasting
  <2>. QED
    BY <1>1, <2>1, <2>4, <2>5 DEF EndInOrder
<1>2. CASE finishedHosts' = Hosts /\ finishedHosts # Hosts
  BY <1>2, LastFinishBegins
<1>3. CASE finishedHosts = Hosts
  BY <1>3, ClosingStepEnd
<1>. QED
  BY <1>1, <1>2, <1>3

LEMMA InitStanding == Init => AdmittingExact /\ EndInOrder
<1>. SUFFICES ASSUME Init PROVE AdmittingExact /\ EndInOrder
  OBVIOUS
<1>1. AdmittingExact
  BY DEF Init, HostInit, AdmittingExact
<1>2. 0 \in Hosts
  BY ConstantsAssumption DEF Hosts
<1>3. finishedHosts # Hosts /\ switchRunning /\ \A r \in Hosts : ~Broadcasting(r)
  BY <1>2 DEF Init, SwitchInit, Broadcasting
<1>4. \A h \in Hosts : hostEnd[h] /\ switchEnd[h] /\ readerUp[h]
  BY DEF Init, SwitchInit, LinksInit
<1>. QED
  BY <1>1, <1>3, <1>4 DEF EndInOrder

LEMMA NextStanding ==
  ASSUME NEW excused, NEW lost, IInv(excused, lost), Accounted, AdmittingExact, EndInOrder,
         [Next]_vars
  PROVE  AdmittingExact' /\ EndInOrder'
<1>1. TypeOK /\ TypeOK' /\ StopInOrder'
  BY NextAccounted DEF IInv, Accounted
<1>2. CASE UNCHANGED vars
  <2>1. UNCHANGED <<hostEnd, switchEnd, toHost, running, admitting, nextToAdmit, windowBase,
                    finishedHosts, switchRunning, readerUp, fan, targets>>
    BY <1>2 DEF vars, linkVars, hostVars, windowVars, controlVars, switchVars, readerVars
  <2>2. /\ \A q \in Hosts : Broadcasting(q)' <=> Broadcasting(q)
        /\ \A t \in Hosts : Told(t)' <=> Told(t)
        /\ FinishBroadcast' <=> FinishBroadcast
    BY <2>1 DEF Broadcasting, Told, FinishBroadcast
  <2>. QED
    BY <2>1, <2>2 DEF AdmittingExact, EndInOrder, CanAdmit
<1>3. ASSUME NEW g \in Hosts, HostStep(g), UNCHANGED switchVars
      PROVE  AdmittingExact' /\ EndInOrder'
  BY <1>1, <1>3, HostStepAdmitting, HostStepEnd
<1>4. ASSUME NEW r \in Hosts, SwitchStep(r), UNCHANGED hostVars
      PROVE  AdmittingExact' /\ EndInOrder'
  <2>1. UNCHANGED <<admitting, nextToAdmit, windowBase>>
    BY <1>4 DEF hostVars, windowVars, controlVars
  <2>2. AdmittingExact'
    BY <2>1 DEF AdmittingExact, CanAdmit
  <2>. QED
    BY <1>1, <1>4, <2>2, SwitchStepEnd
<1>. QED
  BY <1>2, <1>3, <1>4 DEF Next

-----------------------------------------------------------------------------
(* Nobody is stuck *)

\* A reader sends to the smallest rank first, and there is one.
LEMMA SmallestRank ==
  ASSUME NEW T \in SUBSET Hosts, T # {}
  PROVE  \E t \in T : \A u \in T : t <= u
<1> DEFINE R == OpToRel(<, Nat)
<1>1. IsWellFoundedOn(R, Nat)
  BY NatLessThanWellFounded
<1>2. \A x, y \in Nat : x < y => <<x, y>> \in R
  BY DEF OpToRel
<1> HIDE DEF R
<1>3. T \subseteq Nat
  BY DEF Hosts
<1>4. PICK t \in T : \A u \in T : ~(<<u, t>> \in R)
  BY <1>1, <1>3, WFMin
<1>5. \A u \in T : ~(u < t)
  BY <1>2, <1>3, <1>4
<1>. QED
  BY <1>3, <1>5

\* When nobody has anything in hand, and nobody anything to read, to send or to
\* compute, all counts are zero.
Still(h) ==
  /\ Outbox(h) = << >> /\ Inbox(h) = << >> /\ Bench(h) = << >>
  /\ needPull[h] = {} /\ ~admitting[h] /\ ~sendFinish[h] /\ backingOff[h] = {}
  /\ targets[h] = {}

\* In a still system every token that a host has admitted is combined, unless
\* its slot is ready and the host would pull it.
LEMMA StillTokens ==
  ASSUME NEW excused, IInv(excused, FALSE), Accounted, \A g \in Hosts : Still(g),
         NEW h \in Hosts, NEW i \in Tokens, i < nextToAdmit[h]
  PROVE  i \in combineDone[h] \/ (i \in PullableTokens(h) /\ SlotReady(h, i))
<1>1. TypeOK /\ TokenLedger(h, i) /\ HostsTruthful(FALSE) /\ SlotsTruthful(excused)
  BY DEF IInv, TruthfulBut, Accounted
<1>2. \A g \in Hosts : Outbox(g) = << >> /\ Inbox(g) = << >> /\ Bench(g) = << >>
  BY DEF Still
<1>3. /\ Attentions(h, i) = 0 /\ Dispatches(h, i) = 0 /\ Acks(h, i) = 0
      /\ PullRequests(h, i) = 0 /\ Refusals(h, i) = 0 /\ Results(h, i) = 0
  BY <1>2, CountEmpty DEF Attentions, Dispatches, Acks, PullRequests, Refusals, Results
<1>4. i \in attentionDone[h] /\ i \in dispatchAcked[h] /\ i \notin pullInflight[h]
  BY <1>1, <1>3 DEF TokenLedger, One, Still
<1>. SUFFICES ASSUME i \notin combineDone[h]
              PROVE  i \in PullableTokens(h) /\ SlotReady(h, i)
  OBVIOUS
<1>5. i \in SlotsOf(h)
  BY <1>1, <1>3, <1>4 DEF TokenLedger, One
<1>6. i \in PullableTokens(h)
  <2>1. ~(i < windowBase[h])
    BY <1>1 DEF HostsTruthful
  <2>2. i \in Int /\ windowBase[h] \in Int /\ nextToAdmit[h] \in Int
    BY <1>1 DEF TypeOK, HostTypeOK, Tokens
  <2>3. i \in windowBase[h] .. nextToAdmit[h] - 1
    BY <2>1, <2>2
  <2>. QED
    BY <1>4, <2>3 DEF PullableTokens, Still
<1>7. \A e \in Hosts : ~PendingFrom(e, h, i)
  <2>. SUFFICES ASSUME NEW e \in Hosts PROVE ~PendingFrom(e, h, i)
    OBVIOUS
  <2>1. WorkLedger(e, h, i)
    BY DEF Accounted, PendingExact
  <2>2. ExpertInputs(e, h, i) = 0 /\ ExpertResults(e, h, i) = 0
    BY <1>2, CountEmpty DEF ExpertInputs, ExpertResults
  <2>3. ~AwaitsDispatch(e, h, i)
    BY DEF AwaitsDispatch, Still
  <2>. QED
    BY <2>1, <2>2, <2>3 DEF WorkLedger, One
<1>8. SlotReady(h, i)
  <2> DEFINE slot == combineQueue[<<h, i>>]
  <2>1. slot # None /\ slot \in QueueSlot
    BY <1>1, <1>5 DEF SlotsOf, TypeOK, SwitchTypeOK, CombineKey
  <2>2. slot.pending = {}
    BY <1>7, <2>1 DEF PendingFrom, QueueSlot, Bitmap
  <2>. QED
    BY <1>1, <2>1, <2>2 DEF SlotsTruthful, TruthfulSlot, SlotReady
<1>. QED
  BY <1>6, <1>8

\* So a host of a still system that can do nothing is one that is finished.
LEMMA StillFinished ==
  ASSUME NEW excused, IInv(excused, FALSE), Accounted, AdmittingExact, WindowSize > 0,
         \A g \in Hosts : Still(g), NEW h \in Hosts, running[h], ~ControlCanAct(h)
  PROVE  h \in finishedHosts
<1>1. /\ windowBase[h] \in 0 .. NumTokens /\ nextToAdmit[h] \in 0 .. NumTokens
      /\ NumTokens \in Nat /\ WindowSize \in Int
  BY ConstantsAssumption DEF IInv, TypeOK, HostTypeOK
<1>2. \A i \in Tokens : i < nextToAdmit[h] => i \in combineDone[h]
  BY StillTokens DEF ControlCanAct
<1>3. windowBase[h] \notin combineDone[h]
  BY DEF ControlCanAct
<1>4. ~CanAdmit(nextToAdmit[h], windowBase[h])
  BY DEF Still, AdmittingExact
<1>5. windowBase[h] = NumTokens
  <2>. SUFFICES ASSUME windowBase[h] # NumTokens PROVE FALSE
    OBVIOUS
  <2>1. windowBase[h] \in Tokens
    BY <1>1 DEF Tokens
  <2>2. nextToAdmit[h] <= windowBase[h]
    BY <1>1, <1>2, <1>3, <2>1
  <2>. QED
    BY <1>1, <1>4, <2>1, <2>2 DEF CanAdmit, Tokens
<1>6. finishEnqueued[h]
  BY <1>5 DEF ControlCanAct
<1>7. FinishLedger(h) /\ ~sendFinish[h]
  BY DEF Accounted, Still
<1>8. Finishes(h) = 0
  BY CountEmpty DEF Finishes, Still
<1>. QED
  BY <1>6, <1>7, <1>8 DEF FinishLedger, One

\* Before all have finished: if nobody can act, the system is still.
LEMMA NobodyActsStill ==
  ASSUME NEW excused, IInv(excused, FALSE), Accounted, EndInOrder, finishedHosts # Hosts,
         \A g \in Hosts : ~HostCanAct(g) /\ ~ReaderCanAct(g)
  PROVE  \A h \in Hosts : Still(h) /\ running[h]
<1>1. TypeOK /\ \A h \in Hosts : /\ SendPathAddressed(h) /\ ReceivePathAddressed(h)
                                 /\ FanAddressed(h)
  BY DEF IInv, Accounted, Addressed
<1>2. /\ switchRunning
      /\ \A h \in Hosts : running[h] /\ hostEnd[h] /\ switchEnd[h] /\ readerUp[h] /\ ~Broadcasting(h)
  BY DEF Accounted, StopInOrder, FinishBroadcast, Broadcasting, EndInOrder
<1>3. ASSUME NEW h \in Hosts PROVE toHost[h] = None
  BY <1>1, <1>2, <1>3 DEF HostCanAct, ReadCanAct, ReceivePathAddressed, SentTo, AnswerFor
<1>4. ASSUME NEW h \in Hosts PROVE targets[h] = {}
  <2>. SUFFICES ASSUME targets[h] # {} PROVE FALSE
    OBVIOUS
  <2>1. targets[h] \in SUBSET Hosts
    BY <1>1 DEF TypeOK, SwitchTypeOK
  <2>2. PICK t \in targets[h] : \A u \in targets[h] : t <= u
    BY <2>1, SmallestRank
  <2>. QED
    BY <1>2, <1>3, <2>1, <2>2 DEF ReaderCanAct, ReaderCanSend
<1>5. ASSUME NEW h \in Hosts PROVE reply[h] = None /\ fan[h] = None
  <2>1. reply[h] = None
    BY <1>2, <1>3, <1>4 DEF ReaderCanAct, ReaderCanSend
  <2>. QED
    BY <1>1, <1>2, <2>1 DEF FanAddressed, Broadcasting
<1>6. ASSUME NEW h \in Hosts PROVE toSwitch[h] = None
  <2>1. ReaderIdle(h) /\ ~ReaderCanHandle(h)
    BY <1>2, <1>5 DEF ReaderIdle, ReaderCanAct
  <2>. QED
    BY <1>1, <2>1 DEF ReaderCanHandle, SendPathAddressed, SentBy
<1>7. ASSUME NEW h \in Hosts PROVE sending[h] = None /\ sendQueue[h] = << >>
  BY <1>2, <1>6 DEF HostCanAct, SendCanAct
<1>8. ASSUME NEW h \in Hosts PROVE computing[h] = None /\ computeQueue[h] = << >>
  <2>1. computing[h] # None => computing[h].type \in TaskType
    BY <1>1 DEF TypeOK, HostTypeOK, Task, Header
  <2>. QED
    BY <1>2, <2>1 DEF HostCanAct, ComputeCanAct
<1>9. ASSUME NEW h \in Hosts
      PROVE  needPull[h] = {} /\ ~admitting[h] /\ ~sendFinish[h] /\ backingOff[h] = {}
  BY DEF HostCanAct, ControlCanAct
<1>10. ASSUME NEW h \in Hosts
       PROVE  Outbox(h) = << >> /\ Inbox(h) = << >> /\ Bench(h) = << >>
  BY <1>3, <1>5, <1>6, <1>7, <1>8 DEF Outbox, Inbox, Bench, Held
<1>. QED
  BY <1>2, <1>4, <1>9, <1>10 DEF Still

\* After that: the broadcast goes on, a host reads its FINISH, or exits.
LEMMA ClosingActs ==
  ASSUME NEW excused, NEW lost, IInv(excused, lost), Accounted, EndInOrder, finishedHosts = Hosts,
         NEW h \in Hosts, hostEnd[h]
  PROVE  \E g \in Hosts : HostCanAct(g) \/ ReaderCanAct(g)
<1>. SUFFICES ASSUME \A g \in Hosts : ~HostCanAct(g) /\ ~ReaderCanAct(g) PROVE FALSE
  OBVIOUS
<1>1. \A g \in Hosts :
        /\ computing[g] = None /\ sending[g] = None /\ needPull[g] = {}
        /\ ~admitting[g] /\ ~sendFinish[g]
        /\ toHost[g] # None => toHost[g].type = "FINISH"
  BY AllFinishedQuiet
<1>2. running[h]
  BY <1>1 DEF HostCanAct, CanExit
<1>3. \A g \in Hosts : running[g] => toHost[g] = None
  BY <1>1 DEF HostCanAct, ReadCanAct
<1>4. ~Told(h)
  BY <1>2, <1>3 DEF Told
<1>5. PICK r \in Hosts : Broadcasting(r)
  BY <1>4 DEF EndInOrder, FinishBroadcast, Broadcasting
<1>6. targets[r] \in SUBSET Hosts
  BY DEF IInv, TypeOK, SwitchTypeOK
<1>7. targets[r] # {}
  BY <1>5 DEF ReaderCanAct
<1>8. PICK t \in targets[r] : \A u \in targets[r] : t <= u
  BY <1>6, <1>7, SmallestRank
<1>9. t \in Hosts /\ ~Told(t)
  BY <1>5, <1>6, <1>8 DEF EndInOrder
<1>10. running[t] /\ hostEnd[t]
  BY <1>9 DEF Told, EndInOrder
<1>. QED
  BY <1>3, <1>8, <1>9, <1>10 DEF ReaderCanAct, ReaderCanSend

\* Until the last host has closed its connection somebody can do something
\* that leads on: nobody waits for ever, because all wait for each other or
\* because a host polls for a slot that is never completed.
THEOREM NeverStuckAlways == Spec => []NeverStuck
<1> DEFINE Inv == IInv({}, FALSE) /\ Accounted /\ AdmittingExact /\ EndInOrder
<1>1. Init => Inv
  BY InitIInv, InitAccounted, InitStanding
<1>2. Inv /\ [Next]_vars => Inv'
  <2>. SUFFICES ASSUME Inv, [Next]_vars PROVE Inv'
    OBVIOUS
  <2>. QED
    BY NextAccounted, NextStanding
<1>3. Inv => NeverStuck
  <2>. SUFFICES ASSUME Inv, WindowSize > 0, NEW h \in Hosts, hostEnd[h]
                PROVE  \E g \in Hosts : HostCanAct(g) \/ ReaderCanAct(g)
    BY DEF NeverStuck
  <2>1. CASE finishedHosts = Hosts
    BY <2>1, ClosingActs
  <2>2. CASE finishedHosts # Hosts
    <3>. SUFFICES ASSUME \A g \in Hosts : ~HostCanAct(g) /\ ~ReaderCanAct(g) PROVE FALSE
      OBVIOUS
    <3>1. \A g \in Hosts : Still(g) /\ running[g]
      BY <2>2, NobodyActsStill
    <3>2. \A g \in Hosts : g \in finishedHosts
      BY <3>1, StillFinished DEF HostCanAct
    <3>3. finishedHosts \subseteq Hosts
      BY DEF IInv, TypeOK, SwitchTypeOK
    <3>. QED
      BY <2>2, <3>2, <3>3
  <2>. QED
    BY <2>1, <2>2
<1>. QED
  BY <1>1, <1>2, <1>3, PTL DEF Spec
=============================================================================
