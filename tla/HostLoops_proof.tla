--------------------------- MODULE HostLoops_proof ---------------------------
(***************************************************************************)
(* The combined loops of modes "io" and "all" only restrict the order in   *)
(* which a host's handlers run: every behaviour of HostLoops is one of     *)
(* INASystem, so what is proved of INASystem holds in every loop mode.     *)
(* With few tokens in flight the loops do not get stuck on each other's    *)
(* writes either.                                                          *)
(***************************************************************************)
EXTENDS HostLoops, Accounting_proof

\* A step of a combined loop is a step of one of the four threads, or leaves
\* everything but its place in the loop alone.
LEMMA LoopHostStepMaps ==
  ASSUME NEW h \in Hosts, LoopHostStep(h)
  PROVE  HostStep(h) \/ UNCHANGED <<linkVars, hostVars>>
<1>1. CASE FourLoops(h)
  BY <1>1 DEF FourLoops, HostStep, HostThreads
<1>2. CASE IoOtherLoops(h)
  BY <1>2 DEF IoOtherLoops, HostStep, HostThreads
<1>3. ASSUME DrainAndRead(h)
      PROVE  HostStep(h) \/ UNCHANGED <<linkVars, hostVars>>
  <2>1. CASE DrainPop(h)
    BY <2>1 DEF DrainPop, HostStep, HostThreads, SendThread
  <2>2. CASE DrainWrite(h)
    BY <2>2 DEF DrainWrite, HostStep, HostThreads, SendThread
  <2>3. CASE DrainDone(h)
    BY <2>3 DEF DrainDone
  <2>4. CASE LoopRead(h)
    BY <2>4 DEF LoopRead, HostStep, HostThreads
  <2>5. CASE LoopTimeout(h)
    BY <2>5 DEF LoopTimeout
  <2>. QED
    BY <1>3, <2>1, <2>2, <2>3, <2>4, <2>5 DEF DrainAndRead
<1>4. CASE IoCombinedLoop(h)
  BY <1>3, <1>4 DEF IoCombinedLoop
<1>5. CASE AllCombinedLoop(h)
  <2>1. CASE DrainAndRead(h)
    BY <1>3, <2>1
  <2>2. CASE LoopPush(h)
    BY <2>2 DEF LoopPush, HostStep, HostThreads, ControlThread
  <2>3. CASE LoopControl(h)
    BY <2>3 DEF LoopControl, HostStep, HostThreads, ControlThread
  <2>4. CASE LoopComputePop(h)
    BY <2>4 DEF LoopComputePop, HostStep, HostThreads, ComputeThread
  <2>5. CASE LoopComputeTask(h)
    BY <2>5 DEF LoopComputeTask, HostStep, HostThreads, ComputeThread
  <2>6. CASE LoopNoTask(h)
    BY <2>6 DEF LoopNoTask
  <2>. QED
    BY <1>5, <2>1, <2>2, <2>3, <2>4, <2>5, <2>6 DEF AllCombinedLoop
<1>6. CASE (BackOffExpires(h) \/ HostExit(h)) /\ UNCHANGED loopVars
  BY <1>6 DEF HostStep, HostThreads
<1>. QED
  BY <1>1, <1>2, <1>4, <1>5, <1>6 DEF LoopHostStep

\* Every loop mode implements the four loops: a behaviour of the hosts in any
\* mix of modes is a behaviour of the system of host threads and readers.
THEOREM LoopsImplementFourLoops == LoopSpec => Spec
<1>1. LoopInit => Init
  BY DEF LoopInit
<1>2. [LoopNext]_allVars => [Next]_vars
  <2>1. ASSUME NEW h \in Hosts, LoopHostStep(h), UNCHANGED switchVars
        PROVE  [Next]_vars
    <3>1. CASE HostStep(h)
      BY <2>1, <3>1 DEF Next
    <3>2. CASE UNCHANGED <<linkVars, hostVars>>
      BY <2>1, <3>2 DEF vars
    <3>. QED
      BY <2>1, <3>1, <3>2, LoopHostStepMaps
  <2>2. ASSUME NEW r \in Hosts, SwitchStep(r), UNCHANGED hostVars
        PROVE  Next
    BY <2>2 DEF Next
  <2>3. CASE UNCHANGED allVars
    BY <2>3 DEF allVars
  <2>. QED
    BY <2>1, <2>2, <2>3 DEF LoopNext, allVars
<1>. QED
  BY <1>1, <1>2, PTL DEF LoopSpec, Spec

\* Whatever the loop mode, a combined result is the exact sum over the chosen
\* experts.
THEOREM LoopsCombineExact == LoopSpec => []CombineExact
BY LoopsImplementFourLoops, CombineExactAlways, PTL

\* Whatever the loop mode, the system keeps the safety part of the service.
THEOREM LoopsImplementService == LoopSpec => ImplementsService
BY LoopsImplementFourLoops, Implementation, PTL

\* Whatever the loop mode, the ledgers of requests and pulls balance: every
\* request is in one place between the host that owes it and the answer, no
\* pull overwrites a sum in use, every pull finds its sum, and a host that has
\* finished has left no work behind.
THEOREM LoopsKeepAccounts ==
  LoopSpec => [](/\ PendingExact /\ PullInflightExact
                 /\ NoSlotOverwritten /\ PullFindsSlot
                 /\ SlotsWithinWindow /\ FinishQuiescent)
BY LoopsImplementFourLoops, PendingExactAlways, PullInflightExactAlways,
   NoSlotOverwrittenAlways, PullFindsSlotAlways, SlotsWithinWindowAlways,
   FinishQuiescentAlways, PTL

-----------------------------------------------------------------------------
(* No cycle of waiting with at most two tokens in flight                   *)

\* Token i of host h is in flight: admitted and not yet combined.
InFlight(h, i) == i \in Tokens /\ i < nextToAdmit[h] /\ i \notin combineDone[h]

\* At most two hosts, with at most one token each in flight.
FewTokens == NumHosts <= 2 /\ (WindowSize <= 1 \/ NumTokens <= 1)

LEMMA OneInFlight ==
  ASSUME FewTokens, IInv({}, FALSE), Accounted, NEW h \in Hosts,
         NEW i, InFlight(h, i), NEW j, InFlight(h, j)
  PROVE  i = j
<1>1. CASE NumTokens <= 1
  BY <1>1, ConstantsAssumption DEF InFlight, Tokens
<1>2. CASE WindowSize <= 1
  <2>1. windowBase[h] \in Nat /\ nextToAdmit[h] \in Nat /\ WindowSize \in Int
    BY ConstantsAssumption DEF IInv, TypeOK, HostTypeOK
  <2>2. nextToAdmit[h] # 0 => nextToAdmit[h] <= windowBase[h] + 1
    BY <1>2, <2>1 DEF Accounted, WithinWindow
  <2>3. \A k \in Tokens : k < windowBase[h] => k \in combineDone[h]
    BY DEF IInv, TruthfulBut, HostsTruthful
  <2>. QED
    BY <2>1, <2>2, <2>3 DEF InFlight, Tokens
<1>. QED
  BY <1>1, <1>2 DEF FewTokens

\* Whatever exists of a token, at the host, in the switch or between them, it
\* is of a token in flight; and its answer excludes its requests and a second
\* answer.
LEMMA LedgerInFlight ==
  ASSUME IInv({}, FALSE), Accounted, NEW h \in Hosts, NEW i \in Tokens
  PROVE  /\ combineQueue[<<h, i>>] # None => InFlight(h, i)
         /\ Dispatches(h, i) + PullRequests(h, i) > 0 => InFlight(h, i)
         /\ Acks(h, i) + Refusals(h, i) + Results(h, i) > 0 =>
              /\ InFlight(h, i)
              /\ Dispatches(h, i) = 0 /\ PullRequests(h, i) = 0
              /\ Acks(h, i) + Refusals(h, i) + Results(h, i) = 1
<1>1. /\ Attentions(h, i) \in Nat /\ Dispatches(h, i) \in Nat /\ Acks(h, i) \in Nat
      /\ PullRequests(h, i) \in Nat /\ Refusals(h, i) \in Nat /\ Results(h, i) \in Nat
  BY TokenCountsNow DEF IInv
<1>2. TokenLedger(h, i)
  BY DEF Accounted
<1> DEFINE admitted == One(i < nextToAdmit[h])
           attended == One(i \in attentionDone[h])
           acked == One(i \in dispatchAcked[h])
           slot == One(i \in SlotsOf(h))
           pulling == One(i \in pullInflight[h])
           pulled == One(i \in needPull[h])
           combined == One(i \in combineDone[h])
<1>3. /\ admitted = Attentions(h, i) + attended
      /\ attended = Dispatches(h, i) + Acks(h, i) + acked
      /\ Acks(h, i) + acked = slot + Results(h, i) + combined
      /\ pulling = pulled + PullRequests(h, i) + Refusals(h, i) + Results(h, i)
  BY <1>2 DEF TokenLedger
<1>4. /\ admitted \in {0, 1} /\ attended \in {0, 1} /\ acked \in {0, 1} /\ slot \in {0, 1}
      /\ pulling \in {0, 1} /\ pulled \in {0, 1} /\ combined \in {0, 1}
  BY DEF One
<1>5. pulling = 1 => acked = 1 /\ combined = 0
  BY <1>2 DEF TokenLedger, One
<1>6. combined = 1 => acked = 1
  BY <1>2 DEF TokenLedger, One
<1>7. /\ combineQueue[<<h, i>>] # None => slot = 1
      /\ admitted = 1 /\ combined = 0 => InFlight(h, i)
  BY DEF One, SlotsOf, InFlight
<1> HIDE DEF admitted, attended, acked, slot, pulling, pulled, combined
<1>8. slot = 1 => admitted = 1 /\ combined = 0
  BY <1>1, <1>3, <1>4
<1>9. Dispatches(h, i) > 0 => admitted = 1 /\ combined = 0
  BY <1>1, <1>3, <1>4, <1>6
<1>10. Acks(h, i) > 0 =>
         /\ admitted = 1 /\ combined = 0 /\ Acks(h, i) = 1
         /\ Dispatches(h, i) = 0 /\ pulling = 0
  <2>1. attended = Dispatches(h, i) + Acks(h, i) + acked
    BY <1>3
  <2>2. Acks(h, i) > 0 =>
          /\ attended = 1 /\ acked = 0
          /\ Acks(h, i) = 1 /\ Dispatches(h, i) = 0
    BY <1>1, <1>4, <2>1
  <2>3. attended = 1 => admitted = 1
    BY <1>1, <1>3, <1>4
  <2>. QED
    BY <1>4, <1>5, <1>6, <2>2, <2>3
<1>11. PullRequests(h, i) + Refusals(h, i) + Results(h, i) > 0 =>
         /\ PullRequests(h, i) + Refusals(h, i) + Results(h, i) = 1
         /\ pulling = 1 /\ admitted = 1 /\ combined = 0
         /\ Dispatches(h, i) = 0 /\ Acks(h, i) = 0
  BY <1>1, <1>3, <1>4, <1>5
<1>. QED
  BY <1>1, <1>7, <1>8, <1>9, <1>10, <1>11

\* What is in a buffer or in the send thread is counted.
LEMMA SeenInOutbox ==
  ASSUME TypeOK, NEW h \in Hosts, sending[h] # None, toSwitch[h] # None,
         NEW types
  PROVE  /\ sending[h].type \in types => Count(Outbox(h), types, sending[h].origin, sending[h].idx) > 0
         /\ toSwitch[h].type \in types => Count(Outbox(h), types, toSwitch[h].origin, toSwitch[h].idx) > 0
         /\ /\ sending[h].type \in types /\ toSwitch[h].type \in types
            /\ sending[h].origin = toSwitch[h].origin /\ sending[h].idx = toSwitch[h].idx
            => Count(Outbox(h), types, sending[h].origin, sending[h].idx) > 1
<1>1. ASSUME NEW o, NEW i
      PROVE  /\ Count(Outbox(h), types, o, i)
                  = Count(sendQueue[h], types, o, i) + In(sending[h], types, o, i)
                      + In(toSwitch[h], types, o, i)
             /\ Count(sendQueue[h], types, o, i) \in Nat
             /\ In(sending[h], types, o, i) \in {0, 1} /\ In(toSwitch[h], types, o, i) \in {0, 1}
  BY OutboxSumNow DEF In, One
<1>2. /\ sending[h].type \in types => In(sending[h], types, sending[h].origin, sending[h].idx) = 1
      /\ toSwitch[h].type \in types => In(toSwitch[h], types, toSwitch[h].origin, toSwitch[h].idx) = 1
  BY DEF In, One, Matches
<1>. QED
  BY <1>1, <1>2

\* An answer that a reader holds, for its host, excludes any other answer and
\* any request of that host.
LEMMA AnswerAlone ==
  ASSUME FewTokens, IInv({}, FALSE), Accounted, NEW h \in Hosts, AnswerFor(h, reply[h]), reply[h] # None
  PROVE  /\ InFlight(h, reply[h].idx)
         /\ \A j \in Tokens : Dispatches(h, j) = 0 /\ PullRequests(h, j) = 0
         /\ toHost[h] # None => ~AnswerFor(h, toHost[h])
<1> DEFINE i == reply[h].idx
           Answers(j) == Acks(h, j) + Refusals(h, j) + Results(h, j)
           AnswersIn(m, j) == In(m, {"ACK"}, h, j) + In(m, {"NOT_READY"}, h, j)
                                + In(m, {"COMBINE_RESULT"}, h, j)
<1>1. i \in Tokens /\ TypeOK
  BY DEF AnswerFor, IInv
<1>2. \A j : /\ Acks(h, j) = In(reply[h], {"ACK"}, h, j) + In(toHost[h], {"ACK"}, h, j)
             /\ Refusals(h, j) = In(reply[h], {"NOT_READY"}, h, j) + In(toHost[h], {"NOT_READY"}, h, j)
             /\ Results(h, j) = In(reply[h], {"COMBINE_RESULT"}, h, j) + In(toHost[h], {"COMBINE_RESULT"}, h, j)
  BY <1>1, InboxSumNow DEF Acks, Refusals, Results
<1>3. \A m, types, j : In(m, types, h, j) \in {0, 1}
  BY DEF In, One
<1>4. AnswersIn(reply[h], i) = 1
  BY DEF In, One, Matches, AnswerFor
<1>5. \A j : Answers(j) = AnswersIn(reply[h], j) + AnswersIn(toHost[h], j)
             /\ AnswersIn(reply[h], j) \in Nat /\ AnswersIn(toHost[h], j) \in Nat
  BY <1>2, <1>3
<1> HIDE DEF AnswersIn
<1>6. Answers(i) > 0
  BY <1>4, <1>5
<1>7. InFlight(h, i) /\ Dispatches(h, i) = 0 /\ PullRequests(h, i) = 0 /\ Answers(i) = 1
  BY <1>1, <1>6, LedgerInFlight
<1>8. ASSUME NEW j \in Tokens
      PROVE  Dispatches(h, j) = 0 /\ PullRequests(h, j) = 0
  <2>1. CASE j = i
    BY <1>7, <2>1
  <2>2. CASE j # i
    <3>1. ~InFlight(h, j)
      BY <1>7, <2>2, OneInFlight
    <3>2. Dispatches(h, j) \in Nat /\ PullRequests(h, j) \in Nat
      BY <1>1, TokenCountsNow
    <3>3. ~(Dispatches(h, j) + PullRequests(h, j) > 0)
      BY <3>1, LedgerInFlight
    <3>. QED
      BY <3>2, <3>3
  <2>. QED
    BY <2>1, <2>2
<1>9. ASSUME toHost[h] # None, AnswerFor(h, toHost[h]) PROVE FALSE
  <2> DEFINE j == toHost[h].idx
  <2>1. j \in Tokens /\ AnswersIn(toHost[h], j) = 1
    BY <1>9 DEF AnswersIn, In, One, Matches, AnswerFor
  <2>2. InFlight(h, j)
    <3>1. Answers(j) > 0
      BY <1>5, <2>1
    <3>. QED
      BY <2>1, <3>1, LedgerInFlight
  <2>3. j = i
    BY <1>7, <2>2, OneInFlight
  <2>. QED
    BY <1>4, <1>5, <1>7, <2>1, <2>3
<1>. QED
  BY <1>7, <1>8, <1>9

LEMMA PartOfOne ==
  ASSUME NEW a \in {0, 1}, NEW x \in Nat, NEW y \in Nat, NEW p \in {0, 1}, a + x + y = p
  PROVE  x + y <= 1 /\ (x + y > 0 => p = 1)
  OBVIOUS

\* A piece of work that an expert holds is of a token in flight, and it is the
\* only one of that token there.
LEMMA WorkInFlight ==
  ASSUME IInv({}, FALSE), Accounted, NEW e \in Hosts, NEW h \in Hosts, NEW i \in Tokens
  PROVE  /\ ExpertInputs(e, h, i) \in Nat /\ ExpertResults(e, h, i) \in Nat
         /\ ExpertInputs(e, h, i) + ExpertResults(e, h, i) <= 1
         /\ ExpertInputs(e, h, i) + ExpertResults(e, h, i) > 0 => InFlight(h, i)
<1>1. ExpertInputs(e, h, i) \in Nat /\ ExpertResults(e, h, i) \in Nat
  BY PathCountsNow DEF IInv, ExpertInputs, ExpertResults
<1>2. One(AwaitsDispatch(e, h, i)) + ExpertInputs(e, h, i) + ExpertResults(e, h, i)
        = One(PendingFrom(e, h, i))
  BY DEF Accounted, PendingExact, WorkLedger
<1>3. One(AwaitsDispatch(e, h, i)) \in {0, 1} /\ One(PendingFrom(e, h, i)) \in {0, 1}
  BY DEF One
<1>4. One(PendingFrom(e, h, i)) = 1 => combineQueue[<<h, i>>] # None
  BY DEF One, PendingFrom
<1>5. combineQueue[<<h, i>>] # None => InFlight(h, i)
  BY LedgerInFlight
<1>6. /\ ExpertInputs(e, h, i) + ExpertResults(e, h, i) <= 1
      /\ ExpertInputs(e, h, i) + ExpertResults(e, h, i) > 0 => One(PendingFrom(e, h, i)) = 1
  BY <1>1, <1>2, <1>3, PartOfOne
<1>. QED
  BY <1>1, <1>4, <1>5, <1>6

\* A cycle takes four messages: two of the host, one in its receive buffer and
\* one that its reader holds.  The last is about a token of the host, so the
\* other three are work of the host's expert, each of a token in flight and no
\* two of the same token: one too many for two hosts.
LEMMA NoRoomForCycle ==
  ASSUME FewTokens, IInv({}, FALSE), Accounted, NEW h \in Hosts
  PROVE  ~WritesToEachOther(h)
<1> SUFFICES ASSUME sending[h] # None, toSwitch[h] # None, toHost[h] # None,
                    h \in targets[h] \/ reply[h] # None
             PROVE  FALSE
  BY DEF WritesToEachOther
<1> DEFINE a == sending[h]
           b == toSwitch[h]
           c == toHost[h]
<1>1. /\ TypeOK /\ a \in Message /\ b \in Message /\ c \in Message
      /\ a.origin \in Hosts /\ b.origin \in Hosts /\ c.origin \in Hosts
  <2>1. TypeOK /\ a \in Message /\ b \in Message /\ c \in Message
    BY DEF IInv, TypeOK, LinksTypeOK, HostTypeOK
  <2>. QED
    BY <2>1 DEF Message, Header
<1>2. Outbox(h) # << >>
  BY <1>1 DEF Outbox, Held, TypeOK, HostTypeOK
<1>3. finishedHosts # Hosts
  BY <1>2, AllFinishedQuiet
<1>4. reply[h] # None /\ AnswerFor(h, reply[h])
  <2>1. reply[h] = None => Broadcasting(h)
    BY DEF Accounted, Addressed, FanAddressed, Broadcasting
  <2>2. ~Broadcasting(h)
    BY <1>3 DEF Accounted, StopInOrder, FinishBroadcast, Broadcasting
  <2>. QED
    BY <2>1, <2>2 DEF Accounted, Addressed, ReceivePathAddressed
<1>5. /\ InFlight(h, reply[h].idx)
      /\ \A j \in Tokens : Dispatches(h, j) = 0 /\ PullRequests(h, j) = 0
      /\ ~AnswerFor(h, c)
  BY <1>4, AnswerAlone
<1>6. /\ a.type = "EXPERT_RESULT" /\ a.idx \in Tokens
      /\ b.type = "EXPERT_RESULT" /\ b.idx \in Tokens
  <2>1. SentBy(h, a) /\ SentBy(h, b)
    BY DEF Accounted, Addressed, SendPathAddressed
  <2>2. a.type # "FINISH" /\ b.type # "FINISH"
    <3>1. combineDone[h] # Tokens
      BY <1>5 DEF InFlight
    <3>. QED
      BY <3>1 DEF IInv, TruthfulBut, SendPathTruthful, TruthfulToSwitch
  <2>3. \A m \in {a, b} : m.type # "DISPATCH_TOKEN" /\ m.type # "COMBINE_PULL_REQ"
    <3>1. \A m \in {a, b} : \A type \in {"DISPATCH_TOKEN", "COMBINE_PULL_REQ"} :
            m.type = type => Count(Outbox(h), {type}, m.origin, m.idx) > 0
      BY <1>1, SeenInOutbox
    <3>2. \A m \in {a, b} : m.type \in {"DISPATCH_TOKEN", "COMBINE_PULL_REQ"} =>
            m.origin = h /\ m.idx \in Tokens
      BY <2>1 DEF SentBy
    <3>3. \A j \in Tokens : /\ Count(Outbox(h), {"DISPATCH_TOKEN"}, h, j) = 0
                            /\ Count(Outbox(h), {"COMBINE_PULL_REQ"}, h, j) = 0
      BY <1>5 DEF Dispatches, PullRequests
    <3>. QED
      BY <3>1, <3>2, <3>3
  <2>. QED
    BY <2>1, <2>2, <2>3 DEF SentBy
<1>7. c.type = "EXPERT_INPUT" /\ c.idx \in Tokens
  <2>1. SentTo(h, c)
    BY DEF Accounted, Addressed, ReceivePathAddressed
  <2>2. c.type # "FINISH"
    BY <1>3 DEF Accounted, StopInOrder
  <2>. QED
    BY <1>5, <2>1, <2>2 DEF SentTo
<1>8. /\ ExpertResults(h, a.origin, a.idx) > 0 /\ ExpertResults(h, b.origin, b.idx) > 0
      /\ a.origin = b.origin /\ a.idx = b.idx => ExpertResults(h, a.origin, a.idx) > 1
  BY <1>1, <1>6, SeenInOutbox DEF ExpertResults
<1>9. ExpertInputs(h, c.origin, c.idx) > 0
  <2>1. In(c, {"EXPERT_INPUT"}, c.origin, c.idx) = 1
    BY <1>7 DEF In, One, Matches
  <2>2. In(computing[h], {"EXPERT_INPUT"}, c.origin, c.idx) \in {0, 1}
    BY DEF In, One
  <2>. QED
    BY <1>1, <2>1, <2>2, BenchSumNow DEF ExpertInputs
<1>10. InFlight(a.origin, a.idx) /\ InFlight(b.origin, b.idx) /\ InFlight(c.origin, c.idx)
  <2>1. InFlight(a.origin, a.idx)
    BY <1>1, <1>6, <1>8, WorkInFlight
  <2>2. InFlight(b.origin, b.idx)
    BY <1>1, <1>6, <1>8, WorkInFlight
  <2>3. InFlight(c.origin, c.idx)
    BY <1>1, <1>7, <1>9, WorkInFlight
  <2>. QED
    BY <2>1, <2>2, <2>3
<1>11. a.origin # b.origin
  <2>1. ASSUME a.origin = b.origin PROVE FALSE
    <3>1. a.idx = b.idx
      BY <1>1, <1>10, <2>1, OneInFlight
    <3>2. ExpertResults(h, a.origin, a.idx) > 1
      BY <1>8, <2>1, <3>1
    <3>. QED
      BY <1>1, <1>6, <3>2, WorkInFlight
  <2>. QED
    BY <2>1
<1>12. ASSUME NEW m \in {a, b} PROVE m.origin # c.origin
  <2>1. ASSUME m.origin = c.origin PROVE FALSE
    <3>1. m.idx = c.idx
      BY <1>1, <1>10, <2>1, OneInFlight
    <3>2. ExpertResults(h, c.origin, c.idx) > 0
      BY <1>8, <2>1, <3>1
    <3>. QED
      BY <1>1, <1>7, <1>9, <3>2, WorkInFlight
  <2>. QED
    BY <2>1
<1>13. a.origin # c.origin /\ b.origin # c.origin
  BY <1>12
<1>. QED
  BY <1>1, <1>11, <1>13, ConstantsAssumption DEF FewTokens, Hosts

\* With one or two hosts and one token of each in flight at a time, no host
\* and its reader on the switch ever wait for each other to read, in any mix of
\* loop modes, however many tokens, experts per token and messages per drain.
THEOREM NoWriteCycleWhenFew ==
  ASSUME FewTokens
  PROVE  LoopSpec => []NoWriteCycle
<1>1. IInv({}, FALSE) /\ Accounted => NoWriteCycle
  BY NoRoomForCycle DEF NoWriteCycle
<1>. QED
  BY <1>1, LoopsImplementFourLoops, Invariance, AccountedAlways, PTL
=============================================================================
