-------------------------- MODULE Failures_proof ----------------------------
(***************************************************************************)
(* Proofs about Failures for every number of hosts, tokens and deaths, and *)
(* for every moment at which a host or the switch may die.  The argument   *)
(* follows Accounting_proof with the books of the living only: a dead host *)
(* answers for nothing, but its tokens may still have slots.               *)
(***************************************************************************)
EXTENDS Failures, Accounting_proof

-----------------------------------------------------------------------------
(* The invariant and what it says while the switch lives *)

LEMMA InvariantNow ==
  ASSUME FailureInvariant
  PROVE  /\ TypeOK /\ IInv(crashed, switchCrashed) /\ Addressed /\ Departed
         /\ crashed \subseteq Hosts /\ switchCrashed \in BOOLEAN
  BY DEF FailureInvariant, IInv

\* With the hosts that are dead now in place of crashed, which may change.
LEMMA InvariantNext ==
  ASSUME NEW dead, NEW gone, crashed' = dead, switchCrashed' = gone,
         dead \subseteq Hosts, gone \in BOOLEAN, IInv(dead, gone)', Addressed', Departed',
         \A h \in Hosts, i \in Tokens : ResultOnce(h, i)',
         ~gone => LivingAccounted', LateTurns'
  PROVE  FailureInvariant'
<1>1. TypeOK' /\ TruthfulBut(dead, gone)'
  BY DEF IInv
<1>2. TruthfulBut(crashed, switchCrashed)'
  BY <1>1
<1>. QED
  BY <1>1, <1>2 DEF FailureInvariant

\* The books of a token admit one dispatch, slot or result at a time.
LEMMA LedgerOnce ==
  ASSUME TypeOK, TypeOK', NEW h \in Hosts, NEW i \in Tokens, TokenLedger(h, i)'
  PROVE  TokenOnce(h, i)'
<1>1. /\ Dispatches(h, i)' \in Nat /\ Acks(h, i)' \in Nat /\ Results(h, i)' \in Nat
  BY TokenCounts
<1>2. /\ One(i \in attentionDone[h])'
           = Dispatches(h, i)' + Acks(h, i)' + One(i \in dispatchAcked[h])'
      /\ Acks(h, i)' + One(i \in dispatchAcked[h])'
           = One(i \in SlotsOf(h))' + Results(h, i)' + One(i \in combineDone[h])'
  BY DEF TokenLedger
<1>. QED
  BY <1>1, <1>2 DEF TokenOnce, One

LEMMA OnceResult ==
  ASSUME TypeOK, TypeOK', NEW h \in Hosts, NEW i \in Tokens, TokenOnce(h, i)'
  PROVE  ResultOnce(h, i)'
<1>1. Dispatches(h, i)' \in Nat /\ Results(h, i)' \in Nat
  BY TokenCounts
<1>. QED
  BY <1>1 DEF TokenOnce, ResultOnce, One

LEMMA OnceNoSlot ==
  ASSUME TypeOK, NEW h \in Hosts, NEW i \in Tokens, TokenOnce(h, i)
  PROVE  /\ Dispatches(h, i) # 0 => combineQueue[<<h, i>>] = None
         /\ i \in combineDone[h] => i \notin SlotsOf(h)
<1>1. Dispatches(h, i) \in Nat /\ Results(h, i) \in Nat
  BY TokenCountsNow
<1>. QED
  BY <1>1 DEF TokenOnce, SlotsOf, One

-----------------------------------------------------------------------------
(* Nobody stops before the living are done *)

LEMMA FinishedSettled ==
  ASSUME FailureInvariant, ~switchCrashed, finishedHosts = Hosts, NEW h \in Hosts \ crashed
  PROVE  Settled(h)
<1>1. TypeOK /\ LivingAccounted /\ \A g \in Hosts : combineDone[g] = Tokens
  BY DEF FailureInvariant, TruthfulBut, HostsTruthful
<1>2. \A g \in Hosts, i \in Tokens : i \notin SlotsOf(g)
  BY <1>1, OnceNoSlot DEF LivingAccounted
<1>. QED
  BY <1>1, <1>2 DEF LivingAccounted, Settled

LEMMA FinishedQuiet ==
  ASSUME FailureInvariant, ~switchCrashed, finishedHosts = Hosts, NEW h \in Hosts \ crashed
  PROVE  /\ Outbox(h) = << >> /\ computeQueue[h] = << >> /\ computing[h] = None
         /\ needPull[h] = {} /\ ~admitting[h] /\ ~sendFinish[h] /\ reply[h] = None
         /\ toHost[h] # None => toHost[h].type = "FINISH"
         /\ sending[h] = None /\ toSwitch[h] = None
         /\ \A r \in Hosts, i \in Tokens : ~AwaitsDispatch(h, r, i)
<1>1. Settled(h) /\ TypeOK /\ Addressed
  BY FinishedSettled, InvariantNow
<1>2. IInv(crashed, switchCrashed)
  BY InvariantNow
<1>3. ASSUME NEW r \in Hosts, NEW i \in Tokens
      PROVE  ~AwaitsDispatch(h, r, i)
  <2>1. WorkLedger(h, r, i) /\ ~PendingFrom(h, r, i)
    BY <1>1 DEF Settled, SlotsOf, PendingFrom
  <2>2. ExpertInputs(h, r, i) \in Nat /\ ExpertResults(h, r, i) \in Nat
    BY <1>1, WorkCountsNow
  <2>. QED
    BY <2>1, <2>2 DEF WorkLedger, One
<1>. QED
  BY <1>1, <1>2, <1>3, SettledQuiet

\* A host that lives and has stopped, or is about to, has nothing left.
LEMMA StoppingFinished ==
  ASSUME FailureInvariant, ~switchCrashed, NEW h \in Hosts, Stopping(h) \/ ~hostEnd[h],
         h \in Hosts \ crashed
  PROVE  finishedHosts = Hosts
<1>1. StopsLast /\ Departed
  BY DEF FailureInvariant, LivingAccounted
<1>2. Stopping(h)
  BY <1>1 DEF Departed, Stopping
<1>. QED
  BY <1>1, <1>2 DEF StopsLast

LEMMA LivingRuns ==
  ASSUME FailureInvariant, ~switchCrashed, NEW g \in Hosts \ crashed
  PROVE  running[g] \/ Idle(g)
<1>. SUFFICES ASSUME ~running[g] PROVE Idle(g)
  OBVIOUS
<1>1. finishedHosts = Hosts
  BY StoppingFinished DEF Stopping
<1>. QED
  BY <1>1, FinishedQuiet DEF Idle

-----------------------------------------------------------------------------
(* A step of a host *)

\* What a step of host g leaves alone.
LEMMA HostStepElsewhere ==
  ASSUME TypeOK, NEW g \in Hosts, HostTurn(g), UNCHANGED switchVars
  PROVE  /\ \A h \in Hosts : h # g =>
              /\ sendQueue'[h] = sendQueue[h] /\ sending'[h] = sending[h]
              /\ toSwitch'[h] = toSwitch[h] /\ toHost'[h] = toHost[h]
              /\ combineDone'[h] = combineDone[h]
         /\ \A h \in Hosts :
              /\ ~running[h] => ~running'[h]
              /\ hostEnd'[h] = hostEnd[h] \/ (~hostEnd'[h] /\ ~running[h])
              /\ toHost'[h] = toHost[h] \/ toHost'[h] = None
              /\ ~running'[h] => ~running[h] \/ (toHost[h] # None /\ toHost[h].type = "FINISH")
         /\ UNCHANGED <<reply, switchEnd>>
<1> USE DEF TypeOK, LinksTypeOK, HostTypeOK, linkVars, hostVars, queueVars, tokenVars, windowVars,
            controlVars, switchVars, readerVars
<1>1. CASE AdmitToken(g) \/ EnqueuePull(g) \/ EnqueueFinish(g)
  BY <1>1 DEF AdmitToken, EnqueuePull, EnqueueFinish, Push
<1>2. CASE ControlTick(g) \/ BackOffExpires(g)
  BY <1>2 DEF ControlTick, BackOffExpires
<1>3. CASE ComputeThread(g)
  BY <1>3 DEF ComputeThread, ComputePop, ProcessLocalAttention, ProcessExpertMlp, Push
<1>4. CASE SendPop(g) \/ HostExit(g)
  BY <1>4 DEF SendPop, HostExit
<1>5. CASE SendWrite(g)
  BY <1>5 DEF SendWrite, WriteToSwitch
<1>6. CASE RecvAck(g)
  BY <1>6 DEF RecvAck, ReadFromSwitch
<1>7. CASE RecvNotReady(g) \/ RecvFinish(g)
  BY <1>7 DEF RecvNotReady, RecvFinish, ReadFromSwitch
<1>8. CASE RecvCombineResult(g)
  BY <1>8 DEF RecvCombineResult, ReadFromSwitch
<1>9. CASE RecvExpertInput(g)
  BY <1>9 DEF RecvExpertInput, ReadFromSwitch
<1>. QED
  BY <1>1, <1>2, <1>3, <1>4, <1>5, <1>6, <1>7, <1>8, <1>9
  DEF HostTurn, HostStep, HostThreads, ControlThread, SendThread, ReadThread, ReadMessage

LEMMA HostStepOnce ==
  ASSUME TypeOK, NEW g \in Hosts, HostTurn(g), UNCHANGED switchVars,
         NEW h \in Hosts, h # g, NEW i \in Tokens, TokenOnce(h, i)
  PROVE  TokenOnce(h, i)'
<1>1. Outbox(h)' = Outbox(h) /\ Inbox(h)' = Inbox(h) /\ combineDone'[h] = combineDone[h]
  BY HostStepElsewhere DEF Outbox, Inbox
<1>2. SlotsOf(h)' = SlotsOf(h)
  BY DEF SlotsOf, switchVars
<1>. QED
  BY <1>1, <1>2 DEF TokenOnce, Dispatches, Results

\* A result that arrives is no longer on its way.
LEMMA HostStepResult ==
  ASSUME TypeOK, TypeOK', Addressed, NEW g \in Hosts, HostTurn(g), UNCHANGED switchVars,
         NEW h \in Hosts, NEW i \in Tokens, ResultOnce(h, i)
  PROVE  ResultOnce(h, i)'
<1> USE DEF linkVars, hostVars, queueVars, tokenVars, windowVars, controlVars, switchVars, readerVars
<1>1. combineDone \in [Hosts -> SUBSET Tokens]
  BY DEF TypeOK, HostTypeOK
<1>2. Results(h, i) \in Nat /\ Results(h, i)' \in Nat
  BY TokenCounts
<1>3. CASE RecvCombineResult(g)
  <2>1. /\ toHost[g].origin = g /\ TokenOf(toHost[g]) = {toHost[g].idx}
        /\ ReadFromSwitch(g, "COMBINE_RESULT")
    BY <1>3 DEF RecvCombineResult, ReadFromSwitch, Addressed, ReceivePathAddressed, SentTo, AnswerFor,
                TokenOf
  <2>2. Results(h, i) = Results(h, i)' + One(h = g /\ i = toHost[g].idx)
    BY <2>1, AnswerRead DEF One
  <2>3. i \in combineDone'[h] <=> i \in combineDone[h] \/ (h = g /\ i = toHost[g].idx)
    BY <1>1, <1>3, <2>1 DEF RecvCombineResult
  <2>. QED
    BY <1>2, <2>2, <2>3 DEF ResultOnce, One
<1>4. CASE RecvAck(g) \/ RecvExpertInput(g) \/ RecvNotReady(g) \/ RecvFinish(g)
  <2>1. PICK type \in {"ACK", "EXPERT_INPUT", "NOT_READY", "FINISH"} : ReadFromSwitch(g, type)
    BY <1>4 DEF RecvAck, RecvExpertInput, RecvNotReady, RecvFinish
  <2>2. type \notin {"ACK", "NOT_READY", "COMBINE_RESULT"} \/ toHost[g].origin = g
    BY <2>1 DEF ReadFromSwitch, Addressed, ReceivePathAddressed, SentTo, AnswerFor
  <2>3. Results(h, i) = Results(h, i)'
    BY <1>2, <2>1, <2>2, AnswerRead DEF One
  <2>4. UNCHANGED combineDone
    BY <1>4 DEF RecvAck, RecvExpertInput, RecvNotReady, RecvFinish
  <2>. QED
    BY <2>3, <2>4 DEF ResultOnce
<1>5. CASE ~ReadMessage(g)
  <2>1. UNCHANGED <<reply, toHost, combineDone>>
    BY <1>5
    DEF HostTurn, HostStep, HostThreads, ControlThread, ComputeThread, SendThread, ReadThread,
        AdmitToken, ControlTick, EnqueuePull, EnqueueFinish, ComputePop, ProcessLocalAttention, ProcessExpertMlp, SendPop, SendWrite,
        WriteToSwitch, BackOffExpires, HostExit
  <2>. QED
    BY <2>1, InboxFrame DEF ResultOnce, Results
<1>. QED
  BY <1>3, <1>4, <1>5 DEF HostTurn, HostStep, HostThreads, ReadThread, ReadMessage

LEMMA StopsFrame ==
  ASSUME StopsLast, UNCHANGED finishedHosts,
         FinishBroadcast' => FinishBroadcast \/ finishedHosts = Hosts,
         \A h \in Hosts : Stopping(h)' => (\E g \in Hosts : Stopping(g)) \/ finishedHosts = Hosts
  PROVE  StopsLast'
  BY DEF StopsLast

\* While the switch lives no thread that reads is late, and a late tick counts
\* as any other.
LEMMA HostStepInvariant ==
  ASSUME FailureInvariant, NEW g \in Hosts \ crashed, HostTurn(g),
         HostStep(g) \/ ControlTick(g) \/ switchCrashed,
         UNCHANGED <<switchVars, faultVars>>, LateTurns'
  PROVE  FailureInvariant'
<1>1. PICK dead, gone : /\ dead = crashed /\ dead = crashed'
                        /\ gone = switchCrashed /\ gone = switchCrashed'
  BY DEF faultVars
<1>2. TypeOK /\ Addressed /\ Departed /\ IInv(dead, gone) /\ dead \subseteq Hosts /\ gone \in BOOLEAN
  BY <1>1, InvariantNow
<1>3. IInv(dead, gone)' /\ TypeOK'
  BY <1>2, HostStepIInv DEF IInv
<1>4. Addressed'
  BY <1>2, HostStepAddressed
<1>5. Departed'
  BY <1>1, <1>2, HostStepElsewhere DEF Departed, switchVars, readerVars
<1>6. \A h \in Hosts, i \in Tokens : ResultOnce(h, i)'
  BY <1>2, <1>3, HostStepResult DEF FailureInvariant
<1>7. ASSUME ~gone
      PROVE  LivingAccounted'
  <2>1. LivingAccounted /\ (running[g] \/ Idle(g)) /\ (HostStep(g) \/ ControlTick(g))
    BY <1>1, <1>7, LivingRuns DEF FailureInvariant
  <2>2. ASSUME NEW h \in Hosts \ dead, NEW i \in Tokens
        PROVE  TokenLedger(h, i)'
    BY <1>1, <1>2, <1>3, <2>1, HostStepToken DEF LivingAccounted
  <2>3. ASSUME NEW h \in Hosts \ dead
        PROVE  FinishLedger(h)'
    BY <1>1, <1>2, <1>3, <2>1, HostStepFinish DEF LivingAccounted
  <2>4. ASSUME NEW e \in Hosts \ dead, NEW h \in Hosts, NEW i \in Tokens
        PROVE  WorkLedger(e, h, i)'
    BY <1>1, <1>2, <1>3, <2>1, HostStepWork DEF LivingAccounted
  <2>5. ASSUME NEW h \in Hosts, NEW i \in Tokens
        PROVE  TokenOnce(h, i)'
    BY <1>1, <1>2, <1>3, <2>1, <2>2, LedgerOnce, HostStepOnce DEF LivingAccounted
  <2>6. StopsLast'
    <3>1. \A h \in Hosts : Stopping(h)' => Stopping(h)
      BY <1>2, HostStepElsewhere DEF Stopping
    <3>. QED
      BY <2>1, <3>1, StopsFrame DEF LivingAccounted, FinishBroadcast, switchVars, readerVars
  <2>. QED
    BY <1>1, <2>2, <2>3, <2>4, <2>5, <2>6 DEF LivingAccounted
<1>. QED
  BY <1>1, <1>2, <1>3, <1>4, <1>5, <1>6, <1>7, InvariantNext

-----------------------------------------------------------------------------
(* A step of a reader of the switch *)

LEMMA OnceFrame ==
  ASSUME NEW h \in Hosts, NEW i \in Tokens, TokenOnce(h, i), UNCHANGED combineDone,
         Dispatches(h, i)' = Dispatches(h, i), Results(h, i)' = Results(h, i),
         combineQueue'[<<h, i>>] = None <=> combineQueue[<<h, i>>] = None
  PROVE  TokenOnce(h, i)'
  BY DEF TokenOnce, SlotsOf, One

\* The dispatch becomes the slot.
LEMMA HandleDispatchTokenOnce ==
  ASSUME TypeOK, TypeOK', Addressed, NEW r \in Hosts, HandleDispatchToken(r), UNCHANGED hostVars,
         NEW h \in Hosts, NEW i \in Tokens, TokenOnce(h, i)
  PROVE  TokenOnce(h, i)'
<1> DEFINE m == toSwitch[r]
           experts == DecodeExpertIds(m.bitmap) \cap ConnectedHosts
<1> USE DEF hostVars, queueVars, tokenVars, windowVars, controlVars
<1>1. /\ m \in Message /\ m.type = "DISPATCH_TOKEN" /\ m.origin = r /\ m.idx \in Tokens
      /\ ReadFromHost(r, "DISPATCH_TOKEN")
  <2>1. ReadFromHost(r, "DISPATCH_TOKEN") /\ m # None /\ m.type = "DISPATCH_TOKEN"
    BY DEF HandleDispatchToken, ReadFromHost
  <2>2. m \in Message
    BY <2>1 DEF TypeOK, LinksTypeOK
  <2>. QED
    BY <2>1, <2>2 DEF Addressed, SendPathAddressed, SentBy
<1>2. /\ SwitchAck(m) \in Message
      /\ SwitchAck(m).type = "ACK" /\ SwitchAck(m).origin = r /\ SwitchAck(m).idx = m.idx
  BY <1>1, SwitchMessageTypes DEF SwitchAck, Message, Header
<1>3. Dispatches(h, i) = Dispatches(h, i)' + One(h = r /\ i = m.idx)
  BY <1>1, RequestRead, TokenCounts DEF One
<1>4. Results(h, i)' = Results(h, i)
  <2>1. Decides(r, SwitchAck(m))
    BY DEF HandleDispatchToken, ReaderIdle, ReadFromHost, Decides
  <2>. QED
    BY <1>2, <2>1, AnswerDecided, TokenCounts DEF One
<1>5. /\ combineQueue' = [combineQueue EXCEPT ![<<r, m.idx>>] = NewSlot(experts)]
      /\ combineQueue \in [CombineKey -> QueueSlot \cup {None}]
      /\ <<r, m.idx>> \in CombineKey
  BY <1>1 DEF HandleDispatchToken, MakeKey, CombineKey, TypeOK, SwitchTypeOK
<1>6. CASE h = r /\ i = m.idx
  <2>1. Dispatches(h, i) = Dispatches(h, i)' + 1
    BY <1>3, <1>6 DEF One
  <2>2. Dispatches(h, i) \in Nat /\ Dispatches(h, i)' \in Nat /\ Results(h, i) \in Nat
    BY TokenCounts
  <2>3. Results(h, i) = 0 /\ i \notin combineDone[h] /\ Dispatches(h, i)' = 0
    BY <2>1, <2>2 DEF TokenOnce, One
  <2>. QED
    BY <1>4, <2>3 DEF TokenOnce, One
<1>7. CASE ~(h = r /\ i = m.idx)
  <2>1. Dispatches(h, i)' = Dispatches(h, i)
    BY <1>3, <1>7, TokenCounts DEF One
  <2>2. UNCHANGED combineDone /\ combineQueue'[<<h, i>>] = combineQueue[<<h, i>>]
    BY <1>5, <1>7
  <2>. QED
    BY <1>4, <2>1, <2>2, OnceFrame
<1>. QED
  BY <1>6, <1>7

\* The slot becomes the result.
LEMMA HandlePullOnce ==
  ASSUME NEW excused, NEW lost, IInv(excused, lost),
         TypeOK', Addressed, NEW r \in Hosts, HandlePullReady(r) \/ HandlePullNotReady(r),
         UNCHANGED hostVars,
         NEW h \in Hosts, NEW i \in Tokens, TokenOnce(h, i)
  PROVE  TokenOnce(h, i)'
<1> DEFINE m == toSwitch[r]
           slot == combineQueue[MakeKey(m)]
<1> USE DEF hostVars, queueVars, tokenVars, windowVars, controlVars
<1>1. TypeOK
  BY DEF IInv
<1>2. /\ m \in Message /\ m.origin = r /\ m.idx \in Tokens
      /\ ReadFromHost(r, "COMBINE_PULL_REQ") /\ MakeKey(m) = <<r, m.idx>>
  BY <1>1, PullRequestSound
<1>3. Dispatches(h, i)' = Dispatches(h, i)
  BY <1>1, <1>2, RequestRead, TokenCounts DEF One
<1>4. CASE HandlePullReady(r)
  <2>1. slot \in QueueSlot /\ slot # None
    BY <1>4, SlotOfMessage DEF HandlePullReady, ReadyToCombine, ReadFromHost
  <2>2. /\ CombineResult(m, slot) \in Message
        /\ CombineResult(m, slot).type = "COMBINE_RESULT" /\ CombineResult(m, slot).origin = r
        /\ CombineResult(m, slot).idx = m.idx
    BY <1>2, <2>1, SwitchMessageTypes DEF CombineResult, Message, Header
  <2>3. Decides(r, CombineResult(m, slot))
    BY <1>4 DEF HandlePullReady, ReaderIdle, ReadFromHost, Decides
  <2>4. Results(h, i)' = Results(h, i) + One(h = r /\ i = m.idx)
    BY <1>1, <2>2, <2>3, AnswerDecided, TokenCounts DEF One
  <2>5. /\ combineQueue' = [combineQueue EXCEPT ![<<r, m.idx>>] = None]
        /\ combineQueue \in [CombineKey -> QueueSlot \cup {None}]
        /\ <<r, m.idx>> \in CombineKey
    BY <1>1, <1>2, <1>4 DEF HandlePullReady, CombineKey, TypeOK, SwitchTypeOK
  <2>6. CASE h = r /\ i = m.idx
    <3>1. Results(h, i)' = Results(h, i) + 1
      BY <2>4, <2>6 DEF One
    <3>2. combineQueue[<<h, i>>] # None /\ combineQueue'[<<h, i>>] = None
      BY <1>2, <2>1, <2>5, <2>6
    <3>3. i \in SlotsOf(h) /\ i \notin SlotsOf(h)'
      BY <3>2 DEF SlotsOf
    <3>4. Dispatches(h, i) \in Nat /\ Results(h, i) \in Nat
      BY <1>1, TokenCounts
    <3>5. Dispatches(h, i) = 0 /\ Results(h, i) = 0 /\ i \notin combineDone[h]
      BY <3>3, <3>4 DEF TokenOnce, One
    <3>. QED
      BY <1>3, <3>1, <3>3, <3>5 DEF TokenOnce, One
  <2>7. CASE ~(h = r /\ i = m.idx)
    <3>1. Results(h, i)' = Results(h, i)
      BY <1>1, <2>4, <2>7, TokenCounts DEF One
    <3>2. UNCHANGED combineDone /\ combineQueue'[<<h, i>>] = combineQueue[<<h, i>>]
      BY <2>5, <2>7
    <3>. QED
      BY <1>3, <3>1, <3>2, OnceFrame
  <2>. QED
    BY <2>6, <2>7
<1>5. CASE HandlePullNotReady(r)
  <2>1. NotReady(m) \in Message /\ NotReady(m).type = "NOT_READY" /\ NotReady(m).origin = r
    BY <1>2, SwitchMessageTypes DEF NotReady, Message, Header
  <2>2. Decides(r, NotReady(m))
    BY <1>5 DEF HandlePullNotReady, ReaderIdle, ReadFromHost, Decides
  <2>3. Results(h, i)' = Results(h, i)
    BY <1>1, <2>1, <2>2, AnswerDecided, TokenCounts DEF One
  <2>. QED
    BY <1>3, <1>5, <2>3, OnceFrame DEF HandlePullNotReady
<1>. QED
  BY <1>4, <1>5

LEMMA HandleExpertResultOnce ==
  ASSUME NEW excused, NEW lost, IInv(excused, lost),
         TypeOK', Addressed, NEW r \in Hosts, HandleExpertResult(r), UNCHANGED hostVars,
         NEW h \in Hosts, NEW i \in Tokens, TokenOnce(h, i)
  PROVE  TokenOnce(h, i)'
<1> USE DEF hostVars, readerVars, queueVars, tokenVars, windowVars, controlVars
<1>1. TypeOK
  BY DEF IInv
<1>2. Dispatches(h, i)' = Dispatches(h, i)
  BY <1>1, RequestRead, TokenCounts DEF HandleExpertResult, One
<1>3. Results(h, i)' = Results(h, i)
  BY InboxFrame DEF HandleExpertResult, ReadFromHost, Results
<1>4. combineQueue'[<<h, i>>] = None <=> combineQueue[<<h, i>>] = None
  BY ResultKeepsSlot
<1>. QED
  BY <1>2, <1>3, <1>4, OnceFrame

LEMMA OtherHandlersOnce ==
  ASSUME TypeOK, TypeOK', NEW r \in Hosts,
         HandleFinish(r) \/ CloseAll(r) \/ ReaderExit(r), UNCHANGED hostVars,
         NEW h \in Hosts, NEW i \in Tokens, TokenOnce(h, i)
  PROVE  TokenOnce(h, i)'
<1> USE DEF linkVars, hostVars, queueVars, tokenVars, windowVars, controlVars
<1>1. Dispatches(h, i)' = Dispatches(h, i)
  <2>1. CASE HandleFinish(r)
    BY <2>1, RequestRead, TokenCounts DEF HandleFinish, One
  <2>2. CASE CloseAll(r) \/ ReaderExit(r)
    BY <2>2, OutboxFrame DEF CloseAll, ReaderExit, Dispatches
  <2>. QED
    BY <2>1, <2>2
<1>2. Results(h, i)' = Results(h, i)
  BY InboxFrame DEF HandleFinish, CloseAll, ReaderExit, ReadFromHost, Results
<1>3. UNCHANGED combineQueue
  BY DEF HandleFinish, CloseAll, ReaderExit
<1>. QED
  BY <1>1, <1>2, <1>3, OnceFrame

LEMMA ReaderSendOnce ==
  ASSUME TypeOK, TypeOK', Addressed, NEW r \in Hosts, ReaderSend(r), UNCHANGED hostVars,
         NEW h \in Hosts, NEW i \in Tokens, TokenOnce(h, i)
  PROVE  TokenOnce(h, i)'
<1> USE DEF hostVars, queueVars, tokenVars, windowVars, controlVars
<1>1. Dispatches(h, i)' = Dispatches(h, i)
  BY OutboxFrame DEF ReaderSend, SendFan, SendReply, WriteToHost, Dispatches
<1>2. UNCHANGED combineQueue
  BY DEF ReaderSend, SendFan, SendReply
<1>3. Results(h, i)' = Results(h, i)
  BY SendKeepsAnswers DEF AnswerPathKept
<1>. QED
  BY <1>1, <1>2, <1>3, OnceFrame

LEMMA SwitchStepOnce ==
  ASSUME NEW excused, NEW lost, IInv(excused, lost),
         TypeOK', Addressed, NEW r \in Hosts, SwitchStep(r), UNCHANGED hostVars,
         NEW h \in Hosts, NEW i \in Tokens, TokenOnce(h, i)
  PROVE  TokenOnce(h, i)'
<1>1. TypeOK
  BY DEF IInv
<1>. QED
  BY <1>1, HandleDispatchTokenOnce, HandlePullOnce, HandleExpertResultOnce, OtherHandlersOnce,
     ReaderSendOnce
  DEF SwitchStep, ReaderHandle

\* A switch that has died takes no step.
LEMMA NoStepOfDeadSwitch ==
  ASSUME Departed, NEW r \in Hosts, SwitchStep(r) \/ ReaderSendFails(r)
  PROVE  ~switchCrashed
  BY DEF Departed, SwitchStep, ReaderHandle, ReaderSend, HandleDispatchToken, HandleExpertResult,
         HandlePullReady, HandlePullNotReady, HandleFinish, CloseAll, ReaderExit, ReaderIdle, SendFan,
         SendReply, ReaderSendFails, FanFails, ReplyFails

\* A reader sends to nobody who has closed the connection.
LEMMA SwitchStepElsewhere ==
  ASSUME TypeOK, NEW r \in Hosts, SwitchStep(r)
  PROVE  /\ UNCHANGED hostEnd
         /\ \A h \in Hosts : ~hostEnd[h] => toHost'[h] = toHost[h]
  BY DEF TypeOK, LinksTypeOK, linkVars, SwitchStep, ReaderHandle, ReaderSend, HandleDispatchToken,
         HandleExpertResult, HandlePullReady, HandlePullNotReady, HandleFinish, CloseAll, ReaderExit,
         SendFan, SendReply, ReadFromHost, WriteToHost

LEMMA HandleFinishLast ==
  ASSUME TypeOK, TypeOK', StopsLast, NEW r \in Hosts, HandleFinish(r), UNCHANGED hostVars
  PROVE  StopsLast'
<1>1. finishedHosts' \in SUBSET Hosts /\ finishedHosts' = finishedHosts \cup {r}
  BY DEF HandleFinish, TypeOK, SwitchTypeOK
<1>. SUFFICES ASSUME finishedHosts' # Hosts PROVE StopsLast'
  BY DEF StopsLast
<1>2. UNCHANGED fan
  BY <1>1, AllFinishedIsEveryHost DEF HandleFinish
<1>3. UNCHANGED <<toHost, switchEnd, switchRunning, running>>
  BY DEF HandleFinish, ReadFromHost, hostVars
<1>4. finishedHosts # Hosts
  BY <1>1 DEF TypeOK, SwitchTypeOK
<1>5. ~FinishBroadcast /\ \A h \in Hosts : ~Stopping(h)
  BY <1>4 DEF StopsLast
<1>. QED
  BY <1>2, <1>3, <1>5 DEF StopsLast, FinishBroadcast, Stopping

LEMMA SwitchStepLast ==
  ASSUME TypeOK, TypeOK', Addressed, StopsLast, NEW r \in Hosts, SwitchStep(r), UNCHANGED hostVars
  PROVE  StopsLast'
<1> USE DEF linkVars, readerVars
<1>1. fan \in [Hosts -> Message \cup {None}] /\ toHost \in [Hosts -> Message \cup {None}]
  BY DEF TypeOK, SwitchTypeOK, LinksTypeOK
<1>2. UNCHANGED running
  BY DEF hostVars
<1>3. CASE HandleFinish(r)
  BY <1>3, HandleFinishLast
<1>4. CASE CloseAll(r)
  BY <1>4 DEF CloseAll, StopsLast, FinishBroadcast
<1>5. CASE HandleDispatchToken(r)
  <2>1. /\ fan' = [fan EXCEPT ![r] = ExpertInput(toSwitch[r])]
        /\ UNCHANGED <<switchRunning, finishedHosts, toHost, switchEnd>>
    BY <1>5 DEF HandleDispatchToken, ReadFromHost
  <2>2. ExpertInput(toSwitch[r]).type = "EXPERT_INPUT"
    BY <1>5 DEF HandleDispatchToken, ReadFromHost, TypeOK, LinksTypeOK, ExpertInput, Message, Header
  <2>3. FinishBroadcast' => FinishBroadcast
    BY <1>1, <2>1, <2>2 DEF FinishBroadcast
  <2>. QED
    BY <1>2, <2>1, <2>3, StopsFrame DEF Stopping
<1>6. CASE HandleExpertResult(r) \/ HandlePullReady(r) \/ HandlePullNotReady(r) \/ ReaderExit(r)
  <2>1. UNCHANGED <<switchRunning, finishedHosts, toHost, switchEnd, fan>>
    BY <1>6 DEF HandleExpertResult, HandlePullReady, HandlePullNotReady, ReaderExit, ReadFromHost
  <2>. QED
    BY <1>2, <2>1, StopsFrame DEF Stopping, FinishBroadcast
<1>7. CASE SendFan(r)
  <2>1. PICK t \in targets[r] : toHost' = [toHost EXCEPT ![t] = [fan[r] EXCEPT !.dst = t]]
    BY <1>7 DEF SendFan, WriteToHost
  <2>2. UNCHANGED <<switchRunning, finishedHosts, fan, switchEnd>>
    BY <1>7 DEF SendFan, WriteToHost
  <2>3. fan[r] \in Message /\ fan[r] # None
    BY <1>1, <2>1 DEF Addressed, FanAddressed
  <2>4. [fan[r] EXCEPT !.dst = t].type = "FINISH" => finishedHosts = Hosts
    BY <2>3 DEF Message, Header, StopsLast, FinishBroadcast
  <2>5. \A h \in Hosts : toHost'[h] # None /\ toHost'[h].type = "FINISH" =>
          (toHost[h] # None /\ toHost[h].type = "FINISH") \/ finishedHosts = Hosts
    BY <1>1, <2>1, <2>4
  <2>6. \A h \in Hosts : Stopping(h)' => Stopping(h) \/ finishedHosts = Hosts
    BY <1>2, <2>2, <2>5 DEF Stopping
  <2>7. FinishBroadcast' => FinishBroadcast
    BY <2>2 DEF FinishBroadcast
  <2>. QED
    BY <2>2, <2>6, <2>7, StopsFrame
<1>8. CASE SendReply(r)
  <2>1. /\ reply[r] # None /\ toHost' = [toHost EXCEPT ![r] = reply[r]]
        /\ fan' = [fan EXCEPT ![r] = None] /\ UNCHANGED <<switchRunning, finishedHosts, switchEnd>>
    BY <1>8 DEF SendReply, WriteToHost
  <2>2. reply[r].type # "FINISH"
    BY <2>1 DEF Addressed, ReceivePathAddressed, AnswerFor
  <2>3. \A h \in Hosts : Stopping(h)' => Stopping(h)
    BY <1>1, <1>2, <2>1, <2>2 DEF Stopping
  <2>4. FinishBroadcast' => FinishBroadcast
    BY <1>1, <2>1 DEF FinishBroadcast
  <2>. QED
    BY <2>1, <2>3, <2>4, StopsFrame
<1>. QED
  BY <1>3, <1>4, <1>5, <1>6, <1>7, <1>8 DEF SwitchStep, ReaderHandle, ReaderSend

LEMMA SwitchStepInvariant ==
  ASSUME FailureInvariant, NEW r \in Hosts, SwitchStep(r),
         UNCHANGED <<hostVars, faultVars>>, LateTurns'
  PROVE  FailureInvariant'
<1>1. PICK dead, gone : /\ dead = crashed /\ dead = crashed'
                        /\ gone = switchCrashed /\ gone = switchCrashed'
  BY DEF faultVars
<1>2. TypeOK /\ Addressed /\ Departed /\ IInv(dead, gone) /\ dead \subseteq Hosts /\ gone \in BOOLEAN
  BY <1>1, InvariantNow
<1>3. ~gone /\ LivingAccounted
  BY <1>1, <1>2, NoStepOfDeadSwitch DEF FailureInvariant
<1>4. IInv(dead, gone)' /\ TypeOK'
  BY <1>2, SwitchStepIInv DEF IInv
<1>5. Addressed'
  BY <1>2, ReaderHandleAddressed, ReaderSendAddressed DEF SwitchStep
<1>6. Departed'
  BY <1>1, <1>2, <1>3, SwitchStepElsewhere DEF Departed, hostVars
<1>7. ASSUME NEW h \in Hosts, NEW i \in Tokens
      PROVE  TokenOnce(h, i)' /\ ResultOnce(h, i)'
  BY <1>2, <1>3, <1>4, SwitchStepOnce, OnceResult DEF LivingAccounted
<1>8. ASSUME NEW h \in Hosts \ dead
      PROVE  FinishLedger(h)' /\ \A i \in Tokens : TokenLedger(h, i)'
  BY <1>1, <1>2, <1>3, <1>4, SwitchStepFinish, SwitchStepToken DEF LivingAccounted
<1>9. ASSUME NEW e \in Hosts \ dead, NEW h \in Hosts, NEW i \in Tokens
      PROVE  WorkLedger(e, h, i)'
  BY <1>1, <1>2, <1>3, <1>4, SwitchStepWork, OnceNoSlot DEF LivingAccounted
<1>10. StopsLast'
  BY <1>2, <1>3, <1>4, SwitchStepLast DEF LivingAccounted
<1>11. LivingAccounted'
  BY <1>1, <1>7, <1>8, <1>9, <1>10 DEF LivingAccounted
<1>. QED
  BY <1>1, <1>2, <1>4, <1>5, <1>6, <1>7, <1>11, InvariantNext

-----------------------------------------------------------------------------
(* A reader whose write fails *)

\* Giving up an expert that is excused leaves the slot truthful.
LEMMA DropExpertTruthful ==
  ASSUME NEW chosen, NEW i, NEW excused, NEW slot \in QueueSlot,
         TruthfulSlot(chosen, i, excused, slot), NEW r, NEW t \in excused
  PROVE  TruthfulSlot(chosen, i, excused, DropExpert(slot, r, t))
<1> DEFINE rest == slot.pending \ {t}
           done == slot.expected \ slot.pending
           more == slot.expected \ rest
<1>1. PICK served \in SUBSET done : done \ served \subseteq excused /\ slot.data = SumOver(served, i)
  BY DEF TruthfulSlot, Owed
<1>2. served \in SUBSET more /\ more \ served \subseteq excused
  BY <1>1
<1>3. slot.data \in Owed(more, i, excused)
  BY <1>1, <1>2 DEF Owed
<1>4. /\ DropExpert(slot, r, t).expected = slot.expected
      /\ DropExpert(slot, r, t).pending = rest
      /\ DropExpert(slot, r, t).ready = (slot.ready \/ rest = {})
      /\ DropExpert(slot, r, t).data = slot.data
  BY DEF DropExpert, QueueSlot
<1>. QED
  BY <1>3, <1>4 DEF TruthfulSlot

LEMMA DropExpertType ==
  ASSUME NEW slot \in QueueSlot, NEW r, NEW t
  PROVE  /\ DropExpert(slot, r, t) \in QueueSlot /\ DropExpert(slot, r, t) # None
         /\ DropExpert(slot, r, t).pending = slot.pending \ {t}
<1>1. DropExpert(slot, r, t) \in QueueSlot
  BY DEF DropExpert, QueueSlot, Bitmap
<1>2. DropExpert(slot, r, t).pending = slot.pending \ {t}
  BY DEF DropExpert, QueueSlot
<1>. QED
  BY <1>1, <1>2, NoSlotAssumption

\* Only an expert that has died is given up: the others leave when there is
\* nothing left to dispatch.
LEMMA GivenUpDead ==
  ASSUME FailureInvariant, ~switchCrashed, NEW r \in Hosts, NEW t \in targets[r], ~hostEnd[t],
         fan[r].type = "EXPERT_INPUT"
  PROVE  t \in crashed /\ fan[r].origin = r /\ fan[r].idx \in Tokens
<1>1. t \in Hosts /\ fan[r] # None /\ fan[r].origin = r /\ fan[r].idx \in Tokens
  BY InvariantNow DEF Addressed, FanAddressed, TypeOK, SwitchTypeOK
<1>2. ASSUME t \notin crashed
      PROVE  FALSE
  <2>1. finishedHosts = Hosts
    BY <1>1, <1>2, StoppingFinished
  <2>2. ~AwaitsDispatch(t, r, fan[r].idx)
    BY <1>1, <1>2, <2>1, FinishedQuiet
  <2>. QED
    BY <1>1, <2>2 DEF AwaitsDispatch
<1>. QED
  BY <1>1, <1>2

\* What FanFails does, in terms of the dead.
LEMMA FanFailsEffect ==
  ASSUME FailureInvariant, ~switchCrashed, NEW r \in Hosts, FanFails(r)
  PROVE  \E t \in targets[r] :
           /\ targets' = [targets EXCEPT ![r] = targets[r] \ {t}]
           /\ \/ UNCHANGED combineQueue
              \/ \E i \in Tokens : LET key == <<r, i>> IN
                   /\ t \in crashed /\ combineQueue[key] # None
                   /\ combineQueue' = [combineQueue EXCEPT ![key] = DropExpert(combineQueue[key], r, t)]
           /\ fan[r].type = "EXPERT_INPUT" => t \in crashed
<1>1. PICK t \in targets[r] :
        /\ ~hostEnd[t]
        /\ targets' = [targets EXCEPT ![r] = TargetsLeft(r, t)]
        /\ combineQueue' = IF fan[r].type = "EXPERT_INPUT" /\ combineQueue[MakeKey(fan[r])] # None
                           THEN [combineQueue EXCEPT ![MakeKey(fan[r])] = DropExpert(@, r, t)]
                           ELSE combineQueue
  BY DEF FanFails
<1>2. targets' = [targets EXCEPT ![r] = targets[r] \ {t}]
  BY <1>1 DEF TargetsLeft
<1>3. CASE fan[r].type = "EXPERT_INPUT"
  <2>1. t \in crashed /\ fan[r].origin = r /\ fan[r].idx \in Tokens
    BY <1>1, <1>3, GivenUpDead
  <2>2. MakeKey(fan[r]) = <<r, fan[r].idx>>
    BY <2>1 DEF MakeKey
  <2>. QED
    BY <1>1, <1>2, <1>3, <2>1, <2>2
<1>4. CASE fan[r].type # "EXPERT_INPUT"
  BY <1>1, <1>2, <1>4
<1>. QED
  BY <1>3, <1>4

LEMMA FanFailsInvariant ==
  ASSUME FailureInvariant, NEW r \in Hosts, FanFails(r),
         UNCHANGED <<hostVars, faultVars>>, LateTurns'
  PROVE  FailureInvariant'
<1>1. PICK dead, gone : /\ dead = crashed /\ dead = crashed'
                        /\ gone = switchCrashed /\ gone = switchCrashed'
  BY DEF faultVars
<1>2. TypeOK /\ Addressed /\ Departed /\ IInv(dead, gone) /\ dead \subseteq Hosts /\ gone \in BOOLEAN
  BY <1>1, InvariantNow
<1>3. ~gone /\ LivingAccounted
  BY <1>1, <1>2, NoStepOfDeadSwitch DEF FailureInvariant, ReaderSendFails
<1>4. PICK t \in targets[r] :
        /\ targets' = [targets EXCEPT ![r] = targets[r] \ {t}]
        /\ \/ UNCHANGED combineQueue
           \/ \E i \in Tokens : LET key == <<r, i>> IN
                /\ t \in crashed /\ combineQueue[key] # None
                /\ combineQueue' = [combineQueue EXCEPT ![key] = DropExpert(combineQueue[key], r, t)]
        /\ fan[r].type = "EXPERT_INPUT" => t \in crashed
  <2>1. ~switchCrashed
    BY <1>1, <1>3
  <2>. QED
    BY <2>1, FanFailsEffect
<1>5. /\ UNCHANGED <<linkVars, finishedHosts, switchRunning, readerUp, fan, reply>>
      /\ UNCHANGED <<hostVars, toSwitch, toHost, hostEnd, switchEnd>>
  <2>1. UNCHANGED linkVars /\ UNCHANGED <<finishedHosts, switchRunning, readerUp, fan, reply>>
    BY DEF FanFails
  <2>2. UNCHANGED <<toSwitch, toHost, hostEnd, switchEnd>>
    BY <2>1 DEF linkVars
  <2>3. UNCHANGED hostVars
    OBVIOUS
  <2>. QED
    BY <2>1, <2>2, <2>3
<1>6. /\ combineQueue \in [CombineKey -> QueueSlot \cup {None}]
      /\ targets \in [Hosts -> SUBSET Hosts]
  BY <1>2 DEF TypeOK, SwitchTypeOK
<1>7. ASSUME NEW h \in Hosts, NEW i \in Tokens
      PROVE  /\ combineQueue'[<<h, i>>] = None <=> combineQueue[<<h, i>>] = None
             /\ combineQueue'[<<h, i>>] # None =>
                  \/ combineQueue'[<<h, i>>] = combineQueue[<<h, i>>]
                  \/ t \in dead /\ combineQueue'[<<h, i>>] = DropExpert(combineQueue[<<h, i>>], r, t)
  <2>1. \A key \in CombineKey : combineQueue[key] # None =>
          /\ combineQueue[key] \in QueueSlot
          /\ DropExpert(combineQueue[key], r, t) # None
    BY <1>6, DropExpertType
  <2>2. <<h, i>> \in CombineKey /\ \A k \in Tokens : <<r, k>> \in CombineKey
    BY DEF CombineKey
  <2>. QED
    BY <1>1, <1>4, <1>6, <2>1, <2>2
<1>8. TypeOK'
  <2>1. combineQueue' \in [CombineKey -> QueueSlot \cup {None}]
    <3>1. ASSUME NEW i \in Tokens, combineQueue[<<r, i>>] # None
          PROVE  DropExpert(combineQueue[<<r, i>>], r, t) \in QueueSlot
      BY <1>6, <3>1, DropExpertType DEF CombineKey
    <3>. QED
      BY <1>4, <1>6, <3>1
  <2>2. targets' \in [Hosts -> SUBSET Hosts]
    BY <1>4, <1>6
  <2>. QED
    BY <1>2, <1>5, <2>1, <2>2
    DEF TypeOK, LinksTypeOK, HostTypeOK, SwitchTypeOK, linkVars, hostVars, queueVars, tokenVars,
        windowVars, controlVars
<1>9. IInv(dead, gone)'
  <2> USE DEF linkVars, hostVars, queueVars, tokenVars, windowVars, controlVars
  <2>1. SlotsTruthful(dead)'
    <3>1. ASSUME NEW h \in Hosts, NEW i \in Tokens, combineQueue'[<<h, i>>] # None
          PROVE  TruthfulSlot(workload[h], i, dead, combineQueue'[<<h, i>>])
      <4>1. /\ combineQueue[<<h, i>>] \in QueueSlot
            /\ TruthfulSlot(workload[h], i, dead, combineQueue[<<h, i>>])
        BY <1>2, <1>6, <1>7, <3>1 DEF IInv, TruthfulBut, SlotsTruthful, CombineKey
      <4>. QED
        BY <1>7, <3>1, <4>1, DropExpertTruthful
    <3>2. UNCHANGED workload
      BY <1>5
    <3>. QED
      BY <3>1, <3>2 DEF SlotsTruthful
  <2>2. ReceivePathTruthful(dead)'
    <3>1. \A h \in Hosts : targets'[h] # {} => targets[h] # {}
      BY <1>4, <1>6
    <3>2. ReceivePathTruthful(dead)
      BY <1>2 DEF IInv, TruthfulBut
    <3>3. UNCHANGED <<workload, combineDone, toHost, reply, fan>>
      BY <1>5
    <3>. QED
      BY <3>1, <3>2, <3>3 DEF ReceivePathTruthful, AllCombined
  <2>. QED
    BY <1>2, <1>5, <1>8, <2>1, <2>2, SendPathFrame, TaskPathFrame, HostsFrame, ValuesFrame
    DEF IInv, TruthfulBut
<1>10. Addressed'
  <2>1. \A h \in Hosts : targets'[h] # {} => targets[h] # {}
    BY <1>4, <1>6
  <2>2. UNCHANGED <<sendQueue, sending, toSwitch, computeQueue, computing, toHost, reply, fan>>
    BY <1>5 DEF hostVars, queueVars
  <2>. QED
    BY <1>2, <2>1, <2>2
    DEF Addressed, SendPathAddressed, TaskPathAddressed, ReceivePathAddressed, FanAddressed
<1>11. Departed'
  BY <1>1, <1>2, <1>3, <1>5 DEF Departed, hostVars
<1>12. ASSUME NEW h \in Hosts
       PROVE  /\ Outbox(h)' = Outbox(h) /\ Inbox(h)' = Inbox(h) /\ Bench(h)' = Bench(h)
  BY <1>5, OutboxFrame, InboxFrame, BenchFrame DEF hostVars, queueVars
<1>13. ASSUME NEW h \in Hosts, NEW i \in Tokens
       PROVE  TokenOnce(h, i)' /\ ResultOnce(h, i)'
  <2>1. UNCHANGED combineDone
    BY <1>5 DEF hostVars, tokenVars
  <2>2. TokenOnce(h, i)'
    BY <1>3, <1>7, <1>12, <2>1, OnceFrame DEF LivingAccounted, Dispatches, Results
  <2>. QED
    BY <1>2, <1>8, <2>2, OnceResult
<1>14. ASSUME NEW h \in Hosts \ dead, NEW i \in Tokens
       PROVE  TokenLedger(h, i)'
  <2>1. SendPathKept(h, i) /\ AnswerPathKept(h, i) /\ TaskPathKept(h, i)
    BY <1>12 DEF SendPathKept, AnswerPathKept, TaskPathKept, Dispatches, PullRequests, Acks, Refusals,
                 Results, Attentions
  <2>2. MarksKept(h, i)
    BY <1>5, <1>7 DEF MarksKept, hostVars, tokenVars, windowVars, controlVars
  <2>. QED
    BY <1>1, <1>3, <2>1, <2>2, TokenFrame DEF LivingAccounted
<1>15. ASSUME NEW h \in Hosts \ dead
       PROVE  FinishLedger(h)'
  <2>1. UNCHANGED <<finishEnqueued, sendFinish, finishedHosts>>
    BY <1>5 DEF hostVars, windowVars, controlVars
  <2>. QED
    BY <1>1, <1>3, <1>12, <2>1, FinishFrame DEF LivingAccounted, Finishes
<1>16. ASSUME NEW e \in Hosts \ dead, NEW h \in Hosts, NEW i \in Tokens
       PROVE  WorkLedger(e, h, i)'
  <2>1. WorkPathKept(e, h, i)
    BY <1>12 DEF WorkPathKept, ExpertInputs, ExpertResults
  <2>2. AwaitsDispatch(e, h, i)' <=> AwaitsDispatch(e, h, i)
    BY <1>1, <1>4, <1>5, <1>6 DEF AwaitsDispatch
  <2>3. PendingFrom(e, h, i)' <=> PendingFrom(e, h, i)
    <3>1. combineQueue[<<h, i>>] # None =>
            /\ combineQueue[<<h, i>>] \in QueueSlot
            /\ DropExpert(combineQueue[<<h, i>>], r, t).pending = combineQueue[<<h, i>>].pending \ {t}
      BY <1>6, DropExpertType DEF CombineKey
    <3>. QED
      BY <1>7, <3>1 DEF PendingFrom
  <2>. QED
    BY <1>1, <1>3, <2>1, <2>2, <2>3, WorkFrame DEF LivingAccounted, WorkMarksKept
<1>17. StopsLast'
  <2>1. UNCHANGED <<running, switchEnd, toHost, switchRunning, fan, finishedHosts>>
    BY <1>5 DEF hostVars
  <2>. QED
    BY <1>3, <2>1, StopsFrame DEF LivingAccounted, Stopping, FinishBroadcast
<1>18. LivingAccounted'
  BY <1>1, <1>13, <1>14, <1>15, <1>16, <1>17 DEF LivingAccounted
<1>. QED
  BY <1>1, <1>2, <1>9, <1>10, <1>11, <1>13, <1>18, InvariantNext

\* An answer that cannot be sent was for a host that has died.
LEMMA AnswerLostDead ==
  ASSUME FailureInvariant, ~switchCrashed, NEW r \in Hosts, ReplyFails(r)
  PROVE  r \in crashed
<1>1. reply[r] # None /\ ~hostEnd[r]
  BY DEF ReplyFails
<1>2. ASSUME r \notin crashed
      PROVE  FALSE
  BY <1>1, <1>2, StoppingFinished, FinishedQuiet
<1>. QED
  BY <1>2

\* What ReplyFails does to what is on its way.
LEMMA ReplyFailsEffect ==
  ASSUME TypeOK, NEW r \in Hosts, ReplyFails(r)
  PROVE  /\ UNCHANGED <<linkVars, combineQueue, finishedHosts, switchRunning, readerUp, targets>>
         /\ UNCHANGED <<toSwitch, toHost, hostEnd, switchEnd>>
         /\ targets[r] = {} /\ fan'[r] = None /\ reply'[r] = None
         /\ \A h \in Hosts : h # r => fan'[h] = fan[h] /\ reply'[h] = reply[h]
         /\ fan' \in [Hosts -> Message \cup {None}] /\ reply' \in [Hosts -> Message \cup {None}]
<1>1. /\ UNCHANGED linkVars
      /\ UNCHANGED <<combineQueue, finishedHosts, switchRunning, readerUp, targets>>
  BY DEF ReplyFails
<1>2. UNCHANGED <<toSwitch, toHost, hostEnd, switchEnd>>
  BY <1>1 DEF linkVars
<1>. QED
  BY <1>1, <1>2 DEF ReplyFails, TypeOK, SwitchTypeOK

LEMMA ReplyFailsIInv ==
  ASSUME NEW excused, NEW lost, IInv(excused, lost), NEW r \in Hosts, ReplyFails(r),
         UNCHANGED hostVars
  PROVE  IInv(excused, lost)'
<1> USE DEF hostVars, queueVars, tokenVars, windowVars, controlVars
<1>1. TypeOK
  BY DEF IInv
<1>2. TypeOK'
  BY <1>1, ReplyFailsEffect DEF TypeOK, LinksTypeOK, HostTypeOK, SwitchTypeOK
<1>3. ReceivePathTruthful(excused)'
  <2>1. ReceivePathTruthful(excused)
    BY DEF IInv, TruthfulBut
  <2>2. \A h \in Hosts : /\ reply'[h] # None => reply'[h] = reply[h]
                         /\ targets'[h] # {} => targets[h] # {} /\ fan'[h] = fan[h]
    BY <1>1, ReplyFailsEffect
  <2>3. UNCHANGED <<workload, combineDone, toHost>>
    BY <1>1, ReplyFailsEffect
  <2>. QED
    BY <2>1, <2>2, <2>3 DEF ReceivePathTruthful, AllCombined
<1>. QED
  BY <1>1, <1>2, <1>3, ReplyFailsEffect, SendPathFrame, TaskPathFrame, SlotsFrame, HostsFrame,
     ValuesFrame
  DEF IInv, TruthfulBut

LEMMA ReplyFailsInvariant ==
  ASSUME FailureInvariant, NEW r \in Hosts, ReplyFails(r),
         UNCHANGED <<hostVars, faultVars>>, LateTurns'
  PROVE  FailureInvariant'
<1>1. PICK dead, gone : /\ dead = crashed /\ dead = crashed'
                        /\ gone = switchCrashed /\ gone = switchCrashed'
  BY DEF faultVars
<1>2. TypeOK /\ Addressed /\ Departed /\ IInv(dead, gone) /\ dead \subseteq Hosts /\ gone \in BOOLEAN
  BY <1>1, InvariantNow
<1>3. ~switchCrashed /\ LivingAccounted
  BY <1>1, <1>2, NoStepOfDeadSwitch DEF FailureInvariant, ReaderSendFails
<1>4. r \in dead
  BY <1>1, <1>3, AnswerLostDead
<1>5. UNCHANGED hostVars
  OBVIOUS
<1>6. IInv(dead, gone)' /\ TypeOK'
  BY <1>2, <1>5, ReplyFailsIInv DEF IInv
<1>7. Addressed'
  <2>1. UNCHANGED <<sendQueue, sending, toSwitch, computeQueue, computing, toHost>>
    BY <1>2, <1>5, ReplyFailsEffect DEF hostVars, queueVars
  <2>. QED
    BY <1>2, <2>1, ReplyFailsEffect
    DEF Addressed, SendPathAddressed, TaskPathAddressed, ReceivePathAddressed, FanAddressed
<1>8. Departed'
  <2>1. UNCHANGED running
    BY <1>5 DEF hostVars
  <2>. QED
    BY <1>1, <1>2, <1>3, <2>1, ReplyFailsEffect DEF Departed
<1>9. ASSUME NEW h \in Hosts
      PROVE  /\ Outbox(h)' = Outbox(h) /\ Bench(h)' = Bench(h)
             /\ h # r => Inbox(h)' = Inbox(h)
  <2>1. UNCHANGED <<sendQueue, sending, toSwitch, computeQueue, computing, toHost>>
    BY <1>2, <1>5, ReplyFailsEffect DEF hostVars, queueVars
  <2>2. h # r => Inbox(h)' = Inbox(h)
    BY <1>2, <2>1, ReplyFailsEffect DEF Inbox
  <2>. QED
    BY <2>1, <2>2, OutboxFrame, BenchFrame
<1>10. ASSUME NEW h \in Hosts, NEW i \in Tokens
       PROVE  TokenOnce(h, i)' /\ ResultOnce(h, i)'
  <2>1. Results(h, i)' <= Results(h, i)
    <3>1. /\ In(None, {"COMBINE_RESULT"}, h, i) = 0
          /\ In(reply[h], {"COMBINE_RESULT"}, h, i) \in Nat
          /\ In(toHost[h], {"COMBINE_RESULT"}, h, i) \in Nat
      BY DEF In, One
    <3>2. /\ reply'[h] = reply[h] \/ reply'[h] = None
          /\ toHost'[h] = toHost[h]
      BY <1>2, ReplyFailsEffect
    <3>. QED
      BY <1>2, <1>6, <3>1, <3>2, InboxSum DEF Results
  <2>2. Dispatches(h, i)' = Dispatches(h, i) /\ SlotsOf(h)' = SlotsOf(h) /\ combineDone' = combineDone
    BY <1>2, <1>5, <1>9, ReplyFailsEffect DEF Dispatches, SlotsOf, hostVars, tokenVars
  <2>3. /\ Dispatches(h, i) \in Nat /\ Results(h, i) \in Nat /\ Results(h, i)' \in Nat
        /\ TokenOnce(h, i)
    BY <1>2, <1>3, <1>6, TokenCounts DEF LivingAccounted
  <2>4. TokenOnce(h, i)'
    BY <2>1, <2>2, <2>3 DEF TokenOnce, One
  <2>. QED
    BY <1>2, <1>6, <2>4, OnceResult
<1>11. ASSUME NEW h \in Hosts \ dead
       PROVE  FinishLedger(h)' /\ \A i \in Tokens : TokenLedger(h, i)'
  <2>1. Outbox(h)' = Outbox(h) /\ Bench(h)' = Bench(h) /\ Inbox(h)' = Inbox(h)
    BY <1>4, <1>9
  <2>2. UNCHANGED <<finishEnqueued, sendFinish, finishedHosts, combineQueue, nextToAdmit,
                    attentionDone, dispatchAcked, needPull, pullInflight, combineDone>>
    BY <1>2, <1>5, ReplyFailsEffect DEF hostVars, tokenVars, windowVars, controlVars
  <2>3. FinishLedger(h)'
    BY <1>1, <1>3, <2>1, <2>2, FinishFrame DEF LivingAccounted, Finishes
  <2>4. ASSUME NEW i \in Tokens
        PROVE  TokenLedger(h, i)'
    <3>1. SendPathKept(h, i) /\ AnswerPathKept(h, i) /\ TaskPathKept(h, i)
      BY <2>1 DEF SendPathKept, AnswerPathKept, TaskPathKept, Dispatches, PullRequests, Acks, Refusals,
                  Results, Attentions
    <3>2. MarksKept(h, i)
      BY <2>2 DEF MarksKept
    <3>. QED
      BY <1>1, <1>3, <3>1, <3>2, TokenFrame DEF LivingAccounted
  <2>. QED
    BY <2>3, <2>4
<1>12. ASSUME NEW e \in Hosts \ dead, NEW h \in Hosts, NEW i \in Tokens
       PROVE  WorkLedger(e, h, i)'
  <2>1. WorkPathKept(e, h, i)
    BY <1>9 DEF WorkPathKept, ExpertInputs, ExpertResults
  <2>2. WorkMarksKept(e, h, i)
    BY <1>2, ReplyFailsEffect DEF WorkMarksKept, AwaitsDispatch, PendingFrom
  <2>. QED
    BY <1>1, <1>3, <2>1, <2>2, WorkFrame DEF LivingAccounted
<1>13. StopsLast'
  <2>1. UNCHANGED <<running, switchEnd, toHost, switchRunning, finishedHosts>>
    BY <1>2, <1>5, ReplyFailsEffect DEF hostVars
  <2>2. FinishBroadcast' => FinishBroadcast
    BY <1>2, <2>1, ReplyFailsEffect DEF FinishBroadcast
  <2>. QED
    BY <1>3, <2>1, <2>2, StopsFrame DEF LivingAccounted, Stopping
<1>14. LivingAccounted'
  BY <1>1, <1>10, <1>11, <1>12, <1>13 DEF LivingAccounted
<1>. QED
  BY <1>1, <1>2, <1>6, <1>7, <1>8, <1>10, <1>14, InvariantNext

-----------------------------------------------------------------------------
(* A step that moves nothing of what the books count *)

LEMMA BooksFrame ==
  ASSUME LivingAccounted, StopsLast', UNCHANGED crashed,
         UNCHANGED <<toSwitch, toHost, sendQueue, sending, computeQueue, computing>>,
         UNCHANGED <<combineQueue, finishedHosts, fan, targets, reply>>,
         UNCHANGED <<nextToAdmit, attentionDone, dispatchAcked, needPull, pullInflight, combineDone,
                     finishEnqueued, sendFinish>>
  PROVE  LivingAccounted'
<1>1. PICK dead : dead = crashed /\ dead = crashed'
  OBVIOUS
<1>2. ASSUME NEW h \in Hosts
      PROVE  Outbox(h)' = Outbox(h) /\ Inbox(h)' = Inbox(h) /\ Bench(h)' = Bench(h)
  BY OutboxFrame, InboxFrame, BenchFrame
<1>3. ASSUME NEW h \in Hosts, NEW i \in Tokens
      PROVE  TokenOnce(h, i)'
  BY <1>2, OnceFrame DEF LivingAccounted, Dispatches, Results
<1>4. ASSUME NEW h \in Hosts \ dead, NEW i \in Tokens
      PROVE  TokenLedger(h, i)'
  <2>1. SendPathKept(h, i) /\ AnswerPathKept(h, i) /\ TaskPathKept(h, i)
    BY <1>2 DEF SendPathKept, AnswerPathKept, TaskPathKept, Dispatches, PullRequests, Acks, Refusals,
                Results, Attentions
  <2>2. MarksKept(h, i)
    BY DEF MarksKept
  <2>. QED
    BY <1>1, <2>1, <2>2, TokenFrame DEF LivingAccounted
<1>5. ASSUME NEW h \in Hosts \ dead
      PROVE  FinishLedger(h)'
  BY <1>1, <1>2, FinishFrame DEF LivingAccounted, Finishes
<1>6. ASSUME NEW e \in Hosts \ dead, NEW h \in Hosts, NEW i \in Tokens
      PROVE  WorkLedger(e, h, i)'
  BY <1>1, <1>2, WorkFrame, WorkMarksFrame
  DEF LivingAccounted, WorkPathKept, ExpertInputs, ExpertResults
<1>. QED
  BY <1>1, <1>3, <1>4, <1>5, <1>6 DEF LivingAccounted

-----------------------------------------------------------------------------
(* A host that notices the loss of the switch *)

NoticesLoss(h) == HostSendFails(h) \/ HostReadFails(h) \/ ComputeDrop(h)

LEMMA NoticesLossEffect ==
  ASSUME TypeOK, NEW h \in Hosts, NoticesLoss(h)
  PROVE  /\ UNCHANGED <<toSwitch, toHost, hostEnd, switchEnd>>
         /\ UNCHANGED <<workload, sendQueue, computeQueue, tokenVars, windowVars, controlVars>>
         /\ \A g \in Hosts : /\ running'[g] = running[g] \/ (~running'[g] /\ g = h)
                             /\ sending'[g] = sending[g] \/ sending'[g] = None
                             /\ computing'[g] = computing[g] \/ computing'[g] = None
         /\ TypeOK' \/ ~UNCHANGED switchVars
<1>1. /\ UNCHANGED linkVars
      /\ UNCHANGED <<workload, sendQueue, computeQueue, tokenVars, windowVars, controlVars>>
  BY DEF NoticesLoss, HostSendFails, HostReadFails, ComputeDrop, queueVars
<1>2. UNCHANGED <<toSwitch, toHost, hostEnd, switchEnd>>
  BY <1>1 DEF linkVars
<1>3. /\ running \in [Hosts -> BOOLEAN]
      /\ sending \in [Hosts -> Message \cup {None}] /\ computing \in [Hosts -> Task \cup {None}]
  BY DEF TypeOK, HostTypeOK
<1>4. /\ running' \in [Hosts -> BOOLEAN]
      /\ sending' \in [Hosts -> Message \cup {None}] /\ computing' \in [Hosts -> Task \cup {None}]
      /\ \A g \in Hosts : /\ running'[g] = running[g] \/ (~running'[g] /\ g = h)
                          /\ sending'[g] = sending[g] \/ sending'[g] = None
                          /\ computing'[g] = computing[g] \/ computing'[g] = None
  BY <1>3 DEF NoticesLoss, HostSendFails, HostReadFails, ComputeDrop, ShutdownRuntime, queueVars
<1>5. ASSUME UNCHANGED switchVars
      PROVE  TypeOK'
  <2>1. LinksTypeOK'
    BY <1>2 DEF TypeOK, LinksTypeOK
  <2>2. HostTypeOK'
    BY <1>1, <1>4 DEF TypeOK, HostTypeOK, tokenVars, windowVars, controlVars
  <2>3. SwitchTypeOK'
    BY <1>5 DEF TypeOK, SwitchTypeOK, switchVars, readerVars
  <2>. QED
    BY <2>1, <2>2, <2>3 DEF TypeOK
<1>. QED
  BY <1>1, <1>2, <1>4, <1>5

\* It takes nothing back that it has said, and stops in good time.
LEMMA NoticesLossIInv ==
  ASSUME NEW excused, NEW lost, IInv(excused, lost), NEW h \in Hosts, NoticesLoss(h),
         UNCHANGED switchVars, AllCombined \/ lost
  PROVE  IInv(excused, lost)'
<1> USE DEF tokenVars, windowVars, controlVars, switchVars, readerVars
<1>1. TypeOK /\ TruthfulBut(excused, lost)
  BY DEF IInv
<1>2. TypeOK'
  BY <1>1, NoticesLossEffect
<1>3. UNCHANGED <<workload, sendQueue, computeQueue, toSwitch, toHost, combineDone, combinePayload>>
  BY <1>1, NoticesLossEffect
<1>4. SendPathTruthful' /\ TaskPathTruthful'
  <2>1. SendPathTruthful /\ TaskPathTruthful
    BY <1>1 DEF TruthfulBut
  <2>2. \A g \in Hosts : /\ sending'[g] # None => sending'[g] = sending[g]
                         /\ computing'[g] # None => computing'[g] = computing[g]
    BY <1>1, NoticesLossEffect
  <2>. QED
    BY <1>3, <2>1, <2>2 DEF SendPathTruthful, TaskPathTruthful
<1>5. HostsTruthful(lost)'
  <2>1. HostsTruthful(lost)
    BY <1>1 DEF TruthfulBut
  <2>2. AllCombined' <=> AllCombined
    BY <1>3 DEF AllCombined
  <2>3. UNCHANGED <<windowBase, admitting, nextToAdmit, sendFinish, finishedHosts>>
    BY <1>1, NoticesLossEffect
  <2>. QED
    BY <1>3, <2>1, <2>2, <2>3 DEF HostsTruthful
<1>. QED
  BY <1>1, <1>2, <1>3, <1>4, <1>5, ReceivePathFrame, SlotsFrame, ValuesFrame DEF IInv, TruthfulBut

\* While the switch lives, only the end of the run looks like its loss.
LEMMA NoticesEnd ==
  ASSUME FailureInvariant, ~switchCrashed, NEW h \in Hosts \ crashed, NoticesLoss(h)
  PROVE  HostReadFails(h) /\ ~HostSendFails(h) /\ finishedHosts = Hosts /\ AllCombined
<1>1. Stopping(h)
  BY DEF NoticesLoss, HostSendFails, HostReadFails, ComputeDrop, Stopping
<1>2. finishedHosts = Hosts
  BY <1>1, StoppingFinished
<1>3. HostReadFails(h) /\ ~HostSendFails(h)
  BY <1>2, FinishedQuiet DEF NoticesLoss, HostSendFails, ComputeDrop
<1>4. AllCombined
  BY <1>2 DEF FailureInvariant, TruthfulBut, HostsTruthful, AllCombined
<1>. QED
  BY <1>2, <1>3, <1>4

LEMMA NoticesLossInvariant ==
  ASSUME FailureInvariant, NEW h \in Hosts \ crashed, NoticesLoss(h),
         UNCHANGED <<switchVars, faultVars>>, LateTurns'
  PROVE  FailureInvariant'
<1>1. PICK dead, gone : /\ dead = crashed /\ dead = crashed'
                        /\ gone = switchCrashed /\ gone = switchCrashed'
  BY DEF faultVars
<1>2. TypeOK /\ Addressed /\ Departed /\ IInv(dead, gone) /\ dead \subseteq Hosts /\ gone \in BOOLEAN
  BY <1>1, InvariantNow
<1>3. UNCHANGED switchVars
  OBVIOUS
<1>4. UNCHANGED <<combineQueue, finishedHosts, switchRunning, readerUp, fan, targets, reply>>
  BY <1>3 DEF switchVars, readerVars
<1>5. AllCombined \/ gone
  BY <1>1, <1>2, NoticesEnd
<1>6. IInv(dead, gone)' /\ TypeOK'
  BY <1>2, <1>3, <1>5, NoticesLossIInv DEF IInv
<1>7. UNCHANGED <<toSwitch, toHost, hostEnd, switchEnd, sendQueue, computeQueue, combineDone>>
  BY <1>2, NoticesLossEffect DEF tokenVars
<1>8. Addressed'
  <2>1. \A g \in Hosts : /\ sending'[g] # None => sending'[g] = sending[g]
                         /\ computing'[g] # None => computing'[g] = computing[g]
    BY <1>2, NoticesLossEffect
  <2>. QED
    BY <1>2, <1>4, <1>7, <2>1
    DEF Addressed, SendPathAddressed, TaskPathAddressed, ReceivePathAddressed, FanAddressed
<1>9. Departed'
  BY <1>1, <1>2, <1>4, <1>7, NoticesLossEffect DEF Departed
<1>10. \A g \in Hosts, i \in Tokens : ResultOnce(g, i)'
  <2>1. \A g \in Hosts : Inbox(g)' = Inbox(g)
    BY <1>4, <1>7, InboxFrame
  <2>. QED
    BY <1>7, <2>1 DEF FailureInvariant, ResultOnce, Results
<1>11. ASSUME ~gone
       PROVE  LivingAccounted'
  <2>1. HostReadFails(h) /\ finishedHosts = Hosts /\ LivingAccounted
    BY <1>1, <1>11, NoticesEnd DEF FailureInvariant
  <2>2. UNCHANGED queueVars /\ UNCHANGED <<tokenVars, windowVars, controlVars>>
    BY <2>1 DEF HostReadFails
  <2>3. UNCHANGED <<sending, computing, finishEnqueued, sendFinish, nextToAdmit, attentionDone,
                    dispatchAcked, needPull, pullInflight>>
    BY <2>2 DEF queueVars, tokenVars, windowVars, controlVars
  <2>4. StopsLast'
    BY <1>4, <2>1 DEF StopsLast
  <2>. QED
    BY <1>1, <1>4, <1>7, <2>1, <2>3, <2>4, BooksFrame
<1>. QED
  BY <1>1, <1>2, <1>6, <1>8, <1>9, <1>10, <1>11, InvariantNext

-----------------------------------------------------------------------------
(* The death of a host *)

\* The more are excused, the more is a truthful result.
LEMMA OwedMore ==
  ASSUME NEW chosen, NEW i, NEW excused, NEW more, excused \subseteq more
  PROVE  Owed(chosen, i, excused) \subseteq Owed(chosen, i, more)
  BY DEF Owed

\* What is left of the dead host and what is not touched.
LEMMA HostCrashEffect ==
  ASSUME TypeOK, NEW h \in Hosts, HostCrash(h)
  PROVE  /\ UNCHANGED <<toSwitch, switchEnd, workload, running, combineDone, combinePayload>>
         /\ UNCHANGED switchVars
         /\ UNCHANGED <<combineQueue, finishedHosts, switchRunning, readerUp, fan, targets, reply>>
         /\ crashed' = crashed \cup {h} /\ switchCrashed' = switchCrashed
         /\ \A g \in Hosts :
              /\ hostEnd'[g] = (hostEnd[g] /\ g # h)
              /\ toHost'[g] = IF g = h THEN None ELSE toHost[g]
              /\ sendQueue'[g] = IF g = h THEN << >> ELSE sendQueue[g]
              /\ sending'[g] = IF g = h THEN None ELSE sending[g]
              /\ computeQueue'[g] = IF g = h THEN << >> ELSE computeQueue[g]
              /\ computing'[g] = IF g = h THEN None ELSE computing[g]
              /\ windowBase'[g] = IF g = h THEN 0 ELSE windowBase[g]
              /\ nextToAdmit'[g] = IF g = h THEN 0 ELSE nextToAdmit[g]
              /\ admitting'[g] = IF g = h THEN FALSE ELSE admitting[g]
              /\ sendFinish'[g] = IF g = h THEN FALSE ELSE sendFinish[g]
              /\ g # h => /\ attentionDone'[g] = attentionDone[g]
                          /\ dispatchAcked'[g] = dispatchAcked[g]
                          /\ needPull'[g] = needPull[g]
                          /\ pullInflight'[g] = pullInflight[g]
                          /\ finishEnqueued'[g] = finishEnqueued[g]
<1>1. UNCHANGED switchVars
  BY DEF HostCrash
<1>2. UNCHANGED <<combineQueue, finishedHosts, switchRunning, readerUp, fan, targets, reply>>
  BY <1>1 DEF switchVars, readerVars
<1>3. /\ UNCHANGED <<toSwitch, switchEnd, workload, running, combineDone, combinePayload>>
      /\ crashed' = crashed \cup {h} /\ switchCrashed' = switchCrashed
  BY DEF HostCrash
<1>4. ASSUME NEW g \in Hosts
      PROVE  /\ hostEnd'[g] = (hostEnd[g] /\ g # h)
             /\ toHost'[g] = IF g = h THEN None ELSE toHost[g]
  BY DEF HostCrash, TypeOK, LinksTypeOK
<1>5. ASSUME NEW g \in Hosts
      PROVE  /\ sendQueue'[g] = IF g = h THEN << >> ELSE sendQueue[g]
             /\ sending'[g] = IF g = h THEN None ELSE sending[g]
             /\ computeQueue'[g] = IF g = h THEN << >> ELSE computeQueue[g]
             /\ computing'[g] = IF g = h THEN None ELSE computing[g]
  BY DEF HostCrash, TypeOK, HostTypeOK
<1>6. ASSUME NEW g \in Hosts
      PROVE  /\ windowBase'[g] = IF g = h THEN 0 ELSE windowBase[g]
             /\ nextToAdmit'[g] = IF g = h THEN 0 ELSE nextToAdmit[g]
             /\ admitting'[g] = IF g = h THEN FALSE ELSE admitting[g]
             /\ sendFinish'[g] = IF g = h THEN FALSE ELSE sendFinish[g]
  BY DEF HostCrash, TypeOK, HostTypeOK
<1>7. ASSUME NEW g \in Hosts, g # h
      PROVE  /\ attentionDone'[g] = attentionDone[g]
             /\ dispatchAcked'[g] = dispatchAcked[g]
             /\ needPull'[g] = needPull[g]
             /\ pullInflight'[g] = pullInflight[g]
             /\ finishEnqueued'[g] = finishEnqueued[g]
  BY <1>7 DEF HostCrash, TypeOK, HostTypeOK
<1>. QED
  BY <1>1, <1>2, <1>3, <1>4, <1>5, <1>6, <1>7

LEMMA HostCrashType ==
  ASSUME TypeOK, NEW h \in Hosts, HostCrash(h)
  PROVE  TypeOK'
<1>1. LinksTypeOK'
  BY DEF HostCrash, TypeOK, LinksTypeOK
<1>2. HostTypeOK'
  <2>1. \A T : << >> \in Seq(T)
    OBVIOUS
  <2>2. 0 \in 0 .. NumTokens
    BY ConstantsAssumption
  <2>. QED
    BY <2>1, <2>2 DEF HostCrash, TypeOK, HostTypeOK
<1>3. SwitchTypeOK'
  BY HostCrashEffect DEF TypeOK, SwitchTypeOK
<1>. QED
  BY <1>1, <1>2, <1>3 DEF TypeOK

LEMMA HostCrashIInv ==
  ASSUME NEW excused, NEW lost, NEW h \in Hosts, IInv(excused, lost), HostCrash(h),
         NEW more, excused \subseteq more
  PROVE  IInv(more, lost)'
<1>1. TypeOK /\ TruthfulBut(excused, lost) /\ TypeOK'
  BY HostCrashType DEF IInv
<1>2. UNCHANGED <<toSwitch, workload, running, combineDone, combinePayload, combineQueue,
                  finishedHosts, fan, targets, reply>>
  BY <1>1, HostCrashEffect
<1>3. SendPathTruthful' /\ TaskPathTruthful'
  <2>1. SendPathTruthful /\ TaskPathTruthful
    BY <1>1 DEF TruthfulBut
  <2>2. \A g \in Hosts :
          /\ sendQueue'[g] = sendQueue[g] \/ sendQueue'[g] = << >>
          /\ computeQueue'[g] = computeQueue[g] \/ computeQueue'[g] = << >>
          /\ sending'[g] = sending[g] \/ sending'[g] = None
          /\ computing'[g] = computing[g] \/ computing'[g] = None
    BY <1>1, HostCrashEffect
  <2>. QED
    BY <1>2, <2>1, <2>2 DEF SendPathTruthful, TaskPathTruthful
<1>4. ReceivePathTruthful(more)'
  <2>1. ReceivePathTruthful(excused)
    BY <1>1 DEF TruthfulBut
  <2>2. \A g \in Hosts : toHost'[g] = toHost[g] \/ toHost'[g] = None
    BY <1>1, HostCrashEffect
  <2>3. \A chosen, finished, m :
          TruthfulToHost(chosen, excused, finished, m) => TruthfulToHost(chosen, more, finished, m)
    BY OwedMore DEF TruthfulToHost
  <2>4. AllCombined' <=> AllCombined
    BY <1>2 DEF AllCombined
  <2>. QED
    BY <1>2, <2>1, <2>2, <2>3, <2>4 DEF ReceivePathTruthful
<1>5. SlotsTruthful(more)'
  <2>1. \A chosen, i, slot :
          TruthfulSlot(chosen, i, excused, slot) => TruthfulSlot(chosen, i, more, slot)
    BY OwedMore DEF TruthfulSlot
  <2>. QED
    BY <1>1, <1>2, <2>1 DEF TruthfulBut, SlotsTruthful
<1>6. HostsTruthful(lost)'
  <2>1. HostsTruthful(lost)
    BY <1>1 DEF TruthfulBut
  <2>2. \A i \in Tokens : ~(i < 0)
    BY DEF Tokens
  <2>3. \A g \in Hosts :
          /\ windowBase'[g] = windowBase[g] \/ windowBase'[g] = 0
          /\ admitting'[g] => /\ admitting[g] /\ nextToAdmit'[g] = nextToAdmit[g]
                              /\ windowBase'[g] = windowBase[g]
          /\ sendFinish'[g] => sendFinish[g]
    BY <1>1, HostCrashEffect
  <2>4. AllCombined' <=> AllCombined
    BY <1>2 DEF AllCombined
  <2>5. \A g \in Hosts : admitting'[g] => CanAdmit(nextToAdmit'[g], windowBase'[g])
    BY <2>1, <2>3 DEF HostsTruthful
  <2>. QED
    BY <1>2, <2>1, <2>2, <2>3, <2>4, <2>5 DEF HostsTruthful
<1>7. ValuesTruthful(more)'
  BY <1>1, <1>2, OwedMore DEF TruthfulBut, ValuesTruthful
<1>. QED
  BY <1>1, <1>3, <1>4, <1>5, <1>6, <1>7 DEF IInv, TruthfulBut

LEMMA HostCrashInvariant ==
  ASSUME FailureInvariant, NEW h \in Hosts, HostCrash(h), LateTurns'
  PROVE  FailureInvariant'
<1>1. PICK old, dead, gone : /\ old = crashed /\ dead = crashed \cup {h} /\ gone = switchCrashed
  OBVIOUS
<1>2. /\ TypeOK /\ Addressed /\ Departed /\ IInv(old, gone)
      /\ dead \subseteq Hosts /\ gone \in BOOLEAN /\ old \subseteq dead
  BY <1>1, InvariantNow
<1>3. dead = crashed' /\ gone = switchCrashed'
  BY <1>1, <1>2, HostCrashEffect
<1>4. IInv(dead, gone)' /\ TypeOK'
  BY <1>2, HostCrashIInv DEF IInv
<1>5. /\ UNCHANGED <<toSwitch, switchEnd, running, combineDone, combineQueue, finishedHosts,
                     switchRunning, readerUp, fan, targets, reply>>
      /\ \A g \in Hosts : g \notin dead => g # h
  BY <1>1, <1>2, HostCrashEffect
<1>6. Addressed'
  <2>1. \A g \in Hosts :
          /\ sendQueue'[g] = sendQueue[g] \/ sendQueue'[g] = << >>
          /\ computeQueue'[g] = computeQueue[g] \/ computeQueue'[g] = << >>
          /\ sending'[g] = sending[g] \/ sending'[g] = None
          /\ computing'[g] = computing[g] \/ computing'[g] = None
          /\ toHost'[g] = toHost[g] \/ toHost'[g] = None
    BY <1>2, HostCrashEffect
  <2>2. ASSUME NEW g \in Hosts
        PROVE  SendPathAddressed(g)'
    BY <1>2, <1>5, <2>1, <2>2 DEF Addressed, SendPathAddressed
  <2>3. ASSUME NEW g \in Hosts
        PROVE  TaskPathAddressed(g)'
    BY <1>2, <2>1, <2>3 DEF Addressed, TaskPathAddressed
  <2>4. ASSUME NEW g \in Hosts
        PROVE  ReceivePathAddressed(g)' /\ FanAddressed(g)'
    BY <1>2, <1>5, <2>1, <2>4 DEF Addressed, ReceivePathAddressed, FanAddressed
  <2>. QED
    BY <2>2, <2>3, <2>4 DEF Addressed
<1>7. Departed'
  <2>1. \A g \in Hosts : /\ hostEnd'[g] = (hostEnd[g] /\ g # h)
                         /\ toHost'[g] = IF g = h THEN None ELSE toHost[g]
    BY <1>2, HostCrashEffect
  <2>2. crashed' = crashed \cup {h} /\ switchCrashed' = switchCrashed
    BY <1>1, <1>3
  <2>3. \A g \in Hosts : ~hostEnd'[g] => g \in crashed' \/ ~running'[g]
    BY <1>2, <1>5, <2>1, <2>2 DEF Departed
  <2>4. \A g \in crashed' : ~hostEnd'[g] /\ toHost'[g] = None
    BY <1>1, <1>2, <2>1, <2>2 DEF Departed
  <2>5. switchCrashed' =>
          \A r \in Hosts : /\ ~switchEnd'[r] /\ ~readerUp'[r]
                          /\ fan'[r] = None /\ reply'[r] = None /\ targets'[r] = {}
    BY <1>2, <1>5, <2>2 DEF Departed
  <2>. QED
    BY <2>3, <2>4, <2>5 DEF Departed
<1>8. ASSUME NEW g \in Hosts, g # h
      PROVE  Outbox(g)' = Outbox(g) /\ Inbox(g)' = Inbox(g) /\ Bench(g)' = Bench(g)
  BY <1>2, <1>8, HostCrashEffect DEF Outbox, Inbox, Bench
<1>9. ASSUME NEW g \in Hosts, NEW i \in Tokens
      PROVE  /\ Dispatches(g, i)' <= Dispatches(g, i) /\ Results(g, i)' <= Results(g, i)
             /\ Dispatches(g, i) \in Nat /\ Results(g, i) \in Nat
             /\ Dispatches(g, i)' \in Nat /\ Results(g, i)' \in Nat
  <2>1. /\ Dispatches(g, i) \in Nat /\ Results(g, i) \in Nat
        /\ Dispatches(g, i)' \in Nat /\ Results(g, i)' \in Nat
    BY <1>2, <1>4, TokenCounts
  <2>2. \A x, types : In(None, types, g, i) = 0 /\ In(x, types, g, i) \in Nat
    BY DEF In, One
  <2>3. Results(g, i)' <= Results(g, i)
    <3>1. reply'[g] = reply[g] /\ (toHost'[g] = toHost[g] \/ toHost'[g] = None)
      BY <1>2, HostCrashEffect
    <3>. QED
      BY <1>2, <1>4, <2>2, <3>1, InboxSum DEF Results
  <2>4. Dispatches(g, i)' <= Dispatches(g, i)
    <3>1. CASE g # h
      BY <1>8, <2>1, <3>1 DEF Dispatches
    <3>2. CASE g = h
      <4>1. sendQueue'[g] = << >> /\ sending'[g] = None /\ toSwitch'[g] = toSwitch[g]
        BY <1>2, <3>2, HostCrashEffect
      <4>2. Count(<< >>, {"DISPATCH_TOKEN"}, g, i) = 0
        BY CountEmpty
      <4>3. /\ Dispatches(g, i)' = In(toSwitch[g], {"DISPATCH_TOKEN"}, g, i)
            /\ Dispatches(g, i) = Count(sendQueue[g], {"DISPATCH_TOKEN"}, g, i)
                 + In(sending[g], {"DISPATCH_TOKEN"}, g, i) + In(toSwitch[g], {"DISPATCH_TOKEN"}, g, i)
            /\ Count(sendQueue[g], {"DISPATCH_TOKEN"}, g, i) \in Nat
        <5>0. PICK types : types = {"DISPATCH_TOKEN"}
          OBVIOUS
        <5>1. /\ Count(Outbox(g), types, g, i)
                  = Count(sendQueue[g], types, g, i) + In(sending[g], types, g, i)
                      + In(toSwitch[g], types, g, i)
              /\ Count(Outbox(g)', types, g, i)
                  = Count(sendQueue'[g], types, g, i) + In(sending'[g], types, g, i)
                      + In(toSwitch'[g], types, g, i)
              /\ Count(sendQueue[g], types, g, i) \in Nat
          BY <1>2, <1>4, OutboxSum
        <5>2. Count(Outbox(g)', types, g, i) = 0 + 0 + In(toSwitch[g], types, g, i)
          <6>1. Count(sendQueue'[g], types, g, i) = 0 /\ In(sending'[g], types, g, i) = 0
            BY <2>2, <4>1, <4>2, <5>0
          <6>2. In(toSwitch'[g], types, g, i) = In(toSwitch[g], types, g, i)
            BY <4>1
          <6>. QED
            BY <5>1, <6>1, <6>2
        <5>3. In(toSwitch[g], types, g, i) \in Nat
          BY <2>2
        <5>4. Count(Outbox(g)', types, g, i) = In(toSwitch[g], types, g, i)
          BY <5>2, <5>3
        <5>5. /\ Dispatches(g, i)' = Count(Outbox(g)', types, g, i)
              /\ Dispatches(g, i) = Count(Outbox(g), types, g, i)
          BY <5>0 DEF Dispatches
        <5>. QED
          BY <5>0, <5>1, <5>4, <5>5
      <4>. QED
        BY <2>2, <4>3
    <3>. QED
      BY <3>1, <3>2
  <2>. QED
    BY <2>1, <2>3, <2>4
<1>10. \A g \in Hosts, i \in Tokens : ResultOnce(g, i)'
  BY <1>5, <1>9 DEF FailureInvariant, ResultOnce, One
<1>11. ASSUME ~gone
       PROVE  LivingAccounted'
  <2>1. LivingAccounted
    BY <1>1, <1>11 DEF FailureInvariant
  <2>2. ASSUME NEW g \in Hosts, NEW i \in Tokens
        PROVE  TokenOnce(g, i)'
    <3>1. SlotsOf(g)' = SlotsOf(g) /\ TokenOnce(g, i)
      BY <1>5, <2>1 DEF SlotsOf, LivingAccounted
    <3>. QED
      BY <1>5, <1>9, <3>1 DEF TokenOnce, One
  <2>3. ASSUME NEW g \in Hosts \ dead
        PROVE  FinishLedger(g)' /\ \A i \in Tokens : TokenLedger(g, i)'
    <3>1. g # h /\ Outbox(g)' = Outbox(g) /\ Bench(g)' = Bench(g) /\ Inbox(g)' = Inbox(g)
      BY <1>5, <1>8
    <3>2. FinishLedger(g) /\ \A i \in Tokens : TokenLedger(g, i)
      BY <1>1, <2>1 DEF LivingAccounted
    <3>3. FinishLedger(g)'
      <4>1. finishEnqueued'[g] = finishEnqueued[g] /\ sendFinish'[g] = sendFinish[g]
        BY <1>2, <3>1, HostCrashEffect
      <4>2. Finishes(g)' = Finishes(g)
        BY <3>1 DEF Finishes
      <4>. QED
        BY <1>5, <3>2, <4>1, <4>2, FinishFrame
    <3>4. ASSUME NEW i \in Tokens
          PROVE  TokenLedger(g, i)'
      <4>1. SendPathKept(g, i) /\ AnswerPathKept(g, i) /\ TaskPathKept(g, i)
        BY <3>1 DEF SendPathKept, AnswerPathKept, TaskPathKept, Dispatches, PullRequests, Acks, Refusals,
                    Results, Attentions
      <4>2. MarksKept(g, i)
        BY <1>2, <1>5, <3>1, HostCrashEffect DEF MarksKept
      <4>. QED
        BY <3>2, <4>1, <4>2, TokenFrame
    <3>. QED
      BY <3>3, <3>4
  <2>4. ASSUME NEW e \in Hosts \ dead, NEW g \in Hosts, NEW i \in Tokens
        PROVE  WorkLedger(e, g, i)'
    <3>1. WorkPathKept(e, g, i)
      BY <1>5, <1>8 DEF WorkPathKept, ExpertInputs, ExpertResults
    <3>. QED
      BY <1>1, <1>5, <2>1, <3>1, WorkFrame, WorkMarksFrame DEF LivingAccounted
  <2>5. StopsLast'
    <3>1. \A g \in Hosts : Stopping(g)' => Stopping(g)
      BY <1>2, <1>5, HostCrashEffect DEF Stopping
    <3>. QED
      BY <1>5, <2>1, <3>1, StopsFrame DEF LivingAccounted, FinishBroadcast
  <2>. QED
    BY <1>3, <2>2, <2>3, <2>4, <2>5 DEF LivingAccounted
<1>. QED
  BY <1>2, <1>3, <1>4, <1>6, <1>7, <1>10, <1>11, InvariantNext

-----------------------------------------------------------------------------
(* The death of the switch *)

LEMMA SwitchCrashEffect ==
  ASSUME TypeOK, SwitchCrash
  PROVE  /\ UNCHANGED <<toHost, hostEnd, crashed>> /\ UNCHANGED hostVars
         /\ switchCrashed' = TRUE /\ finishedHosts' = {}
         /\ \A h \in Hosts : /\ toSwitch'[h] = None /\ ~switchEnd'[h] /\ ~readerUp'[h]
                             /\ fan'[h] = None /\ targets'[h] = {} /\ reply'[h] = None
                             /\ \A i \in Tokens : combineQueue'[<<h, i>>] = None
         /\ TypeOK'
<1>1. UNCHANGED <<toHost, hostEnd, crashed>> /\ UNCHANGED hostVars
  BY DEF SwitchCrash
<1>2. LinksTypeOK'
  BY <1>1 DEF SwitchCrash, TypeOK, LinksTypeOK
<1>3. HostTypeOK'
  BY <1>1 DEF TypeOK, HostTypeOK, hostVars, queueVars, tokenVars, windowVars, controlVars
<1>4. SwitchTypeOK'
  BY DEF SwitchCrash, SwitchTypeOK
<1>. QED
  BY <1>1, <1>2, <1>3, <1>4 DEF SwitchCrash, TypeOK, CombineKey

LEMMA SwitchCrashIInv ==
  ASSUME NEW excused, NEW lost, IInv(excused, lost), SwitchCrash
  PROVE  IInv(excused, TRUE)'
<1>1. TypeOK /\ TruthfulBut(excused, lost)
  BY DEF IInv
<1>2. /\ UNCHANGED <<toHost, workload, running, sendQueue, sending, computeQueue, computing>>
      /\ UNCHANGED <<combineDone, combinePayload, windowBase, nextToAdmit, admitting, sendFinish>>
  BY <1>1, SwitchCrashEffect DEF hostVars, queueVars, tokenVars, windowVars, controlVars
<1>3. AllCombined' <=> AllCombined
  BY <1>2 DEF AllCombined
<1>4. SendPathTruthful'
  BY <1>1, <1>2, SwitchCrashEffect DEF TruthfulBut, SendPathTruthful
<1>5. ReceivePathTruthful(excused)'
  BY <1>1, <1>2, <1>3, SwitchCrashEffect DEF TruthfulBut, ReceivePathTruthful
<1>6. SlotsTruthful(excused)'
  BY <1>1, SwitchCrashEffect DEF SlotsTruthful
<1>7. HostsTruthful(TRUE)'
  BY <1>1, <1>2, SwitchCrashEffect DEF TruthfulBut, HostsTruthful
<1>. QED
  BY <1>1, <1>2, <1>4, <1>5, <1>6, <1>7, TaskPathFrame, ValuesFrame, SwitchCrashEffect
  DEF IInv, TruthfulBut

LEMMA SwitchCrashInvariant ==
  ASSUME FailureInvariant, SwitchCrash, LateTurns'
  PROVE  FailureInvariant'
<1>1. PICK dead, gone : dead = crashed /\ gone = switchCrashed
  OBVIOUS
<1>2. TypeOK /\ Addressed /\ Departed /\ IInv(dead, gone) /\ dead \subseteq Hosts
  BY <1>1, InvariantNow
<1>3. dead = crashed' /\ switchCrashed' = TRUE
  BY <1>1, <1>2, SwitchCrashEffect
<1>4. IInv(dead, TRUE)' /\ TypeOK'
  BY <1>2, SwitchCrashIInv DEF IInv
<1>5. UNCHANGED <<toHost, running, sendQueue, sending, computeQueue, computing, combineDone, hostEnd>>
  BY <1>2, SwitchCrashEffect DEF hostVars, queueVars, tokenVars
<1>6. Addressed'
  BY <1>2, <1>5, SwitchCrashEffect
  DEF Addressed, SendPathAddressed, TaskPathAddressed, ReceivePathAddressed, FanAddressed
<1>7. Departed'
  BY <1>1, <1>2, <1>3, <1>5, SwitchCrashEffect DEF Departed
<1>8. ASSUME NEW h \in Hosts, NEW i \in Tokens
      PROVE  ResultOnce(h, i)'
  <2>1. \A x : In(None, {"COMBINE_RESULT"}, h, i) = 0 /\ In(x, {"COMBINE_RESULT"}, h, i) \in Nat
    BY DEF In, One
  <2>2. reply'[h] = None /\ toHost'[h] = toHost[h]
    BY <1>2, SwitchCrashEffect
  <2>3. Results(h, i)' <= Results(h, i) /\ Results(h, i) \in Nat /\ Results(h, i)' \in Nat
    BY <1>2, <1>4, <2>1, <2>2, InboxSum DEF Results
  <2>. QED
    BY <1>5, <2>3 DEF FailureInvariant, ResultOnce, One
<1>. QED
  BY <1>2, <1>3, <1>4, <1>6, <1>7, <1>8, InvariantNext

-----------------------------------------------------------------------------
(* The first state, and a step that changes nothing *)

LEMMA InitFailureInvariant ==
  ASSUME FailureInit
  PROVE  FailureInvariant
<1>1. Init /\ crashed = {} /\ switchCrashed = FALSE
  BY DEF FailureInit
<1>2. IInv({}, FALSE) /\ Accounted
  BY <1>1, InitIInv, InitAccounted
<1>3. TypeOK /\ Addressed /\ TruthfulBut(crashed, switchCrashed)
  BY <1>1, <1>2 DEF IInv, Accounted
<1>4. Departed
  BY <1>1 DEF Init, LinksInit, Departed
<1>5. ASSUME NEW h \in Hosts, NEW i \in Tokens
      PROVE  TokenOnce(h, i) /\ ResultOnce(h, i)
  <2>1. Dispatches(h, i) \in Nat /\ Acks(h, i) \in Nat /\ Results(h, i) \in Nat
    BY <1>3, TokenCountsNow
  <2>2. /\ One(i \in attentionDone[h])
             = Dispatches(h, i) + Acks(h, i) + One(i \in dispatchAcked[h])
        /\ Acks(h, i) + One(i \in dispatchAcked[h])
             = One(i \in SlotsOf(h)) + Results(h, i) + One(i \in combineDone[h])
    BY <1>2 DEF Accounted, TokenLedger
  <2>3. TokenOnce(h, i)
    BY <2>1, <2>2 DEF TokenOnce, One
  <2>. QED
    BY <2>1, <2>3 DEF TokenOnce, ResultOnce, One
<1>6. StopsLast
  <2>1. StopInOrder
    BY <1>2 DEF Accounted
  <2>2. \A h \in Hosts : switchEnd[h]
    BY <1>1 DEF Init, LinksInit
  <2>. QED
    BY <2>1, <2>2 DEF StopsLast, StopInOrder, Stopping
<1>7. LivingAccounted
  BY <1>2, <1>5, <1>6 DEF LivingAccounted, Accounted, PendingExact
<1>8. LateTurns
  BY DEF FailureInit, LateTurns
<1>. QED
  BY <1>1, <1>3, <1>4, <1>5, <1>7, <1>8 DEF FailureInvariant

LEMMA StutterFailureInvariant ==
  ASSUME FailureInvariant, UNCHANGED <<vars, faultVars>>, LateTurns'
  PROVE  FailureInvariant'
<1>1. UNCHANGED vars /\ UNCHANGED <<crashed, switchCrashed>>
  BY DEF faultVars
<1>2. UNCHANGED <<toSwitch, toHost, hostEnd, switchEnd>>
  BY <1>1 DEF vars, linkVars
<1>3. UNCHANGED hostVars /\ UNCHANGED switchVars
  BY <1>1 DEF vars
<1>4. UNCHANGED <<combineQueue, finishedHosts, switchRunning, readerUp, fan, targets, reply>>
  BY <1>3 DEF switchVars, readerVars
<1>5. /\ UNCHANGED <<running, sendQueue, sending, computeQueue, computing>>
      /\ UNCHANGED <<nextToAdmit, attentionDone, dispatchAcked, needPull, pullInflight, combineDone,
                     finishEnqueued, sendFinish>>
  BY <1>3 DEF hostVars, queueVars, tokenVars, windowVars, controlVars
<1>6. PICK dead, gone : /\ dead = crashed /\ dead = crashed'
                        /\ gone = switchCrashed /\ gone = switchCrashed'
  BY <1>1
<1>7. /\ TypeOK /\ Addressed /\ Departed /\ IInv(dead, gone)
      /\ dead \subseteq Hosts /\ gone \in BOOLEAN
  BY <1>6, InvariantNow
<1>8. IInv(dead, gone)'
  BY <1>1, <1>7, StutterIInv
<1>9. Addressed'
  BY <1>2, <1>4, <1>5, <1>7
  DEF Addressed, SendPathAddressed, TaskPathAddressed, ReceivePathAddressed, FanAddressed
<1>10. Departed'
  BY <1>2, <1>4, <1>5, <1>6, <1>7 DEF Departed
<1>11. \A h \in Hosts, i \in Tokens : ResultOnce(h, i)'
  <2>1. \A h \in Hosts : Inbox(h)' = Inbox(h)
    BY <1>2, <1>4, InboxFrame
  <2>. QED
    BY <1>5, <2>1 DEF FailureInvariant, ResultOnce, Results
<1>12. ASSUME ~gone
       PROVE  LivingAccounted'
  <2>1. LivingAccounted
    BY <1>6, <1>12 DEF FailureInvariant
  <2>2. StopsLast'
    BY <1>2, <1>4, <1>5, <2>1, StopsFrame DEF LivingAccounted, FinishBroadcast, Stopping
  <2>. QED
    BY <1>1, <1>2, <1>4, <1>5, <2>1, <2>2, BooksFrame
<1>. QED
  BY <1>6, <1>7, <1>8, <1>9, <1>10, <1>11, <1>12, InvariantNext

\* The late turns are those of hosts that stay shut down, and live.
LEMMA NextLateTurns ==
  ASSUME FailureInvariant, [FailureNext]_failureVars
  PROVE  LateTurns'
<1>1. TypeOK /\ LateTurns /\ running \in [Hosts -> BOOLEAN]
  BY DEF FailureInvariant, TypeOK, HostTypeOK
<1>2. ASSUME NEW h \in Hosts, LivingHostStep(h), UNCHANGED <<switchVars, faultVars>>
      PROVE  LateTurns'
  <2>1. UNCHANGED crashed /\ UNCHANGED switchCrashed /\ h \notin crashed
    BY <1>2 DEF faultVars, LivingHostStep
  <2>2. CASE HostTurn(h) /\ lateTicks' \subseteq lateTicks /\ lateReads' \subseteq lateReads
    <3>1. \A g \in Hosts : ~running[g] => ~running'[g]
      BY <1>1, <1>2, <2>2, HostStepElsewhere
    <3>. QED
      BY <1>1, <2>1, <2>2, <3>1 DEF LateTurns
  <2>3. CASE HostSendFails(h)
    <3>1. switchCrashed
      BY <1>2, <2>1, <2>3, NoticesEnd DEF NoticesLoss
    <3>2. /\ running' = [running EXCEPT ![h] = FALSE]
          /\ lateTicks' \subseteq lateTicks \cup {h} /\ lateReads' \subseteq lateReads \cup {h}
      BY <2>3 DEF HostSendFails, ShutdownRuntime, TicksToCome
    <3>. QED
      BY <1>1, <2>1, <3>1, <3>2 DEF LateTurns
  <2>4. CASE HostReadFails(h)
    <3>1. /\ running' = [running EXCEPT ![h] = FALSE]
          /\ lateTicks' \subseteq lateTicks \cup {h} /\ UNCHANGED lateReads
      BY <2>4 DEF HostReadFails, ShutdownRuntime, TicksToCome
    <3>. QED
      BY <1>1, <2>1, <3>1 DEF LateTurns
  <2>5. CASE ComputeDrop(h)
    BY <1>1, <2>1, <2>5 DEF ComputeDrop, LateTurns, lateVars
  <2>6. CASE UNCHANGED vars /\ lateTicks' \subseteq lateTicks /\ lateReads' \subseteq lateReads
    BY <1>1, <2>1, <2>6 DEF LateTurns, vars, hostVars
  <2>. QED
    BY <1>2, <2>2, <2>3, <2>4, <2>5, <2>6
    DEF LivingHostStep, HostTurn, HostStep, LateTick, LateRead, lateVars
<1>3. CASE UNCHANGED <<hostVars, faultVars, lateVars>>
  BY <1>1, <1>3 DEF LateTurns, hostVars, faultVars, lateVars
<1>4. ASSUME NEW h \in Hosts, HostCrash(h)
      PROVE  LateTurns'
  BY <1>1, <1>4, HostCrashEffect DEF LateTurns, HostCrash
<1>5. CASE SwitchCrash
  BY <1>1, <1>5, SwitchCrashEffect DEF SwitchCrash, LateTurns, hostVars, lateVars
<1>. QED
  BY <1>2, <1>3, <1>4, <1>5 DEF FailureNext, failureVars, vars

LEMMA NextFailureInvariant ==
  ASSUME FailureInvariant, [FailureNext]_failureVars
  PROVE  FailureInvariant'
<1>1. LateTurns'
  BY NextLateTurns
<1>2. ASSUME NEW h \in Hosts, LivingHostStep(h), UNCHANGED <<switchVars, faultVars>>
      PROVE  FailureInvariant'
  <2>1. h \in Hosts \ crashed
    BY <1>2 DEF LivingHostStep
  <2>2. CASE HostStep(h)
    BY <1>1, <1>2, <2>1, <2>2, HostStepInvariant DEF HostTurn
  <2>3. CASE NoticesLoss(h)
    BY <1>1, <1>2, <2>1, <2>3, NoticesLossInvariant
  <2>4. CASE LateTick(h) \/ LateRead(h)
    <3>1. CASE UNCHANGED vars
      BY <1>1, <1>2, <3>1, StutterFailureInvariant
    <3>2. CASE ~UNCHANGED vars
      <4>1. HostTurn(h) /\ (ControlTick(h) \/ switchCrashed)
        BY <2>4, <3>2 DEF LateTick, LateRead, HostTurn, FailureInvariant, LateTurns
      <4>. QED
        BY <1>1, <1>2, <2>1, <4>1, HostStepInvariant
    <3>. QED
      BY <3>1, <3>2
  <2>. QED
    BY <1>2, <2>2, <2>3, <2>4 DEF LivingHostStep, NoticesLoss, HostStep
<1>3. ASSUME NEW r \in Hosts, ReaderStep(r), UNCHANGED <<hostVars, faultVars>>
      PROVE  FailureInvariant'
  BY <1>1, <1>3, SwitchStepInvariant, FanFailsInvariant, ReplyFailsInvariant
  DEF ReaderStep, ReaderSendFails
<1>4. ASSUME NEW h \in Hosts, HostCrash(h)
      PROVE  FailureInvariant'
  BY <1>1, <1>4, HostCrashInvariant
<1>5. CASE SwitchCrash
  BY <1>1, <1>5, SwitchCrashInvariant
<1>6. CASE UNCHANGED failureVars
  BY <1>1, <1>6, StutterFailureInvariant DEF failureVars
<1>. QED
  BY <1>2, <1>3, <1>4, <1>5, <1>6 DEF FailureNext

\* Whatever dies, and whenever: messages, slots and results stay truthful but
\* for the part of the dead, and while the switch lives the books of the
\* living stay in order.
THEOREM FailureInvariantAlways == FailureSpec => []FailureInvariant
<1>1. FailureInit => FailureInvariant
  BY InitFailureInvariant
<1>2. FailureInvariant /\ [FailureNext]_failureVars => FailureInvariant'
  BY NextFailureInvariant
<1>. QED
  BY <1>1, <1>2, PTL DEF FailureSpec

\* Giving up the dead experts of a token loses no work of the others, and a
\* result is never dropped as a duplicate.
THEOREM LivingWorkExactAlways == FailureSpec => []LivingWorkExact
<1>1. FailureInvariant => LivingWorkExact
  BY DEF FailureInvariant, LivingAccounted, LivingWorkExact
<1>. QED
  BY <1>1, FailureInvariantAlways, PTL

\* When the switch decides to stop, nobody who lives has anything left.
THEOREM LivingQuiescentAlways == FailureSpec => []LivingQuiescent
<1>1. FailureInvariant => LivingQuiescent
  <2>. SUFFICES ASSUME FailureInvariant, FinishBroadcast, ~switchCrashed, NEW h \in Hosts \ crashed
                PROVE  /\ Outbox(h) = << >> /\ computeQueue[h] = << >> /\ computing[h] = None
                       /\ needPull[h] = {} /\ ~admitting[h] /\ ~sendFinish[h]
                       /\ toHost[h] # None => toHost[h].type = "FINISH"
    BY DEF LivingQuiescent
  <2>1. finishedHosts = Hosts
    BY DEF FailureInvariant, LivingAccounted, StopsLast
  <2>. QED
    BY <2>1, FinishedQuiet
<1>. QED
  BY <1>1, FailureInvariantAlways, PTL

-----------------------------------------------------------------------------
(* Refinement: what is left of the service when processes die *)

\* A step that leaves the workload, the results, running, the dead and those
\* who may still read alone.
LEMMA StepWithoutDegraded ==
  ASSUME UNCHANGED <<workload, combineDone, combinePayload, running, lateReads, crashed,
                     switchCrashed>>
  PROVE  UNCHANGED Degraded!serviceVars
  BY DEF Degraded!serviceVars

LEMMA DegradedResults ==
  \A h, i : Degraded!Results(h, i) = Owed(workload[h][i], i, crashed)
  BY DEF Degraded!Results, Owed

\* A result arrives, in time or late, for a token that is not combined yet: a
\* second one would have been seen by ResultOnce.
LEMMA ResultCombines ==
  ASSUME FailureInvariant, NEW h \in Hosts \ crashed, RecvCombineResult(h),
         running[h] \/ h \in lateReads, lateReads' = lateReads \ {h},
         UNCHANGED <<crashed, switchCrashed>>
  PROVE  \E i \in Tokens : Degraded!Combine(h, i)
<1> DEFINE m == toHost[h]
<1>1. TypeOK /\ Addressed /\ IInv(crashed, switchCrashed)
  BY InvariantNow
<1>2. m # None /\ m.type = "COMBINE_RESULT" /\ h \in Hosts
  BY DEF RecvCombineResult, ReadFromSwitch
<1>3. /\ m.origin = h /\ m.idx \in Tokens /\ TokenOf(m) = {m.idx}
      /\ m.data \in Owed(workload[h][m.idx], m.idx, crashed)
  BY <1>1, <1>2 DEF Addressed, ReceivePathAddressed, SentTo, AnswerFor, TokenOf, IInv, TruthfulBut,
                    ReceivePathTruthful, TruthfulToHost
<1>4. m.idx \notin combineDone[h]
  <2>1. In(toHost[h], {"COMBINE_RESULT"}, h, m.idx) = 1
    BY <1>2, <1>3 DEF In, Matches, One
  <2>2. In(reply[h], {"COMBINE_RESULT"}, h, m.idx) \in Nat
    BY DEF In, One
  <2>3. Results(h, m.idx) \in Nat /\ Results(h, m.idx) >= 1
    BY <1>1, <1>2, <2>1, <2>2, InboxSumNow DEF Results
  <2>. QED
    BY <1>2, <1>3, <2>3 DEF FailureInvariant, ResultOnce, One
<1>5. /\ combineDone' = [combineDone EXCEPT ![h] = @ \cup {m.idx}]
      /\ combinePayload' = [combinePayload EXCEPT ![h] = [@ EXCEPT ![m.idx] = m.data]]
      /\ UNCHANGED <<workload, running>>
  <2>1. combinePayload[h] \in [Tokens -> Byte] /\ combinePayload \in [Hosts -> [Tokens -> Byte]]
    BY <1>1, <1>2 DEF TypeOK, HostTypeOK
  <2>2. [i \in Tokens |-> IF i \in TokenOf(m) THEN m.data ELSE combinePayload[h][i]]
          = [combinePayload[h] EXCEPT ![m.idx] = m.data]
    BY <1>3, <2>1
  <2>. QED
    BY <1>3, <2>1, <2>2 DEF RecvCombineResult
<1>6. m.data \in Degraded!Results(h, m.idx)
  BY <1>3, DegradedResults
<1>7. h \notin crashed /\ (h \in {g \in Hosts : ~running[g]} => h \in lateReads)
  OBVIOUS
<1>8. Degraded!Combine(h, m.idx)
  BY <1>4, <1>5, <1>6, <1>7 DEF Degraded!Combine
<1>. QED
  BY <1>3, <1>8

\* A host stops in good time, or because the switch is gone: only then may its
\* read thread have one more message.
LEMMA ShutdownStops ==
  ASSUME TypeOK, NEW h \in Hosts \ crashed, running' = [running EXCEPT ![h] = FALSE],
         AllCombined \/ switchCrashed,
         \/ UNCHANGED lateReads
         \/ switchCrashed /\ lateReads' = IF running[h] THEN lateReads \cup {h} ELSE lateReads,
         UNCHANGED <<workload, combineDone, combinePayload, crashed, switchCrashed>>
  PROVE  [Degraded!Next]_Degraded!serviceVars
<1>1. running \in [Hosts -> BOOLEAN]
  BY DEF TypeOK, HostTypeOK
<1>2. {g \in Hosts : ~running'[g]} = {g \in Hosts : ~running[g]} \cup {h}
  BY <1>1
<1>3. CASE running[h]
  <2>1. Degraded!Stop(h)
    BY <1>2, <1>3 DEF Degraded!Stop, AllCombined
  <2>. QED
    BY <2>1 DEF Degraded!Next
<1>4. CASE ~running[h]
  <2>1. running' = running /\ UNCHANGED lateReads
    BY <1>1, <1>4
  <2>. QED
    BY <2>1, StepWithoutDegraded
<1>. QED
  BY <1>3, <1>4

LEMMA HostStepDegraded ==
  ASSUME FailureInvariant, NEW h \in Hosts \ crashed,
         (HostStep(h) /\ UNCHANGED lateVars) \/ NoticesLoss(h),
         UNCHANGED <<switchVars, faultVars>>
  PROVE  [Degraded!Next]_Degraded!serviceVars
<1> USE DEF linkVars, queueVars, tokenVars, windowVars, controlVars
<1>1. TypeOK /\ IInv(crashed, switchCrashed) /\ switchCrashed \in BOOLEAN
  BY InvariantNow
<1>2. UNCHANGED <<crashed, switchCrashed>>
  BY DEF faultVars
<1>3. CASE ReadThread(h) /\ RecvCombineResult(h) /\ UNCHANGED lateVars
  <2>1. running[h] /\ lateReads' = lateReads \ {h}
    BY <1>3 DEF ReadThread, lateVars, FailureInvariant, LateTurns
  <2>2. PICK i \in Tokens : Degraded!Combine(h, i)
    BY <1>2, <1>3, <2>1, ResultCombines
  <2>. QED
    BY <2>2 DEF Degraded!Next
<1>4. CASE RecvFinish(h) /\ UNCHANGED lateVars
  <2>1. AllCombined
    BY <1>1, <1>4 DEF RecvFinish, ReadFromSwitch, IInv, TruthfulBut, ReceivePathTruthful, TruthfulToHost
  <2>2. running' = [running EXCEPT ![h] = FALSE] /\ UNCHANGED lateReads
    BY <1>4 DEF RecvFinish, lateVars
  <2>3. UNCHANGED <<workload, combineDone, combinePayload>>
    BY <1>4 DEF RecvFinish
  <2>. QED
    BY <1>1, <1>2, <2>1, <2>2, <2>3, ShutdownStops
<1>5. CASE HostSendFails(h) \/ HostReadFails(h)
  <2>1. (AllCombined /\ ~HostSendFails(h)) \/ switchCrashed
    BY <1>1, <1>5, NoticesEnd DEF NoticesLoss
  <2>2. running' = [running EXCEPT ![h] = FALSE]
    BY <1>5 DEF HostSendFails, HostReadFails, ShutdownRuntime
  <2>3. UNCHANGED <<workload, combineDone, combinePayload>>
    BY <1>5 DEF HostSendFails, HostReadFails
  <2>4. \/ UNCHANGED lateReads
        \/ switchCrashed /\ lateReads' = IF running[h] THEN lateReads \cup {h} ELSE lateReads
    BY <1>5, <2>1 DEF HostSendFails, HostReadFails
  <2>. QED
    BY <1>1, <1>2, <2>1, <2>2, <2>3, <2>4, ShutdownStops
<1>6. CASE ComputeDrop(h)
  BY <1>2, <1>6, StepWithoutDegraded DEF ComputeDrop, lateVars
<1>7. CASE ControlThread(h) /\ UNCHANGED lateVars
  BY <1>2, <1>7, StepWithoutDegraded
  DEF ControlThread, AdmitToken, ControlTick, EnqueuePull, EnqueueFinish, lateVars
<1>8. CASE (ComputeThread(h) \/ BackOffExpires(h)) /\ UNCHANGED lateVars
  BY <1>2, <1>8, StepWithoutDegraded
  DEF ComputeThread, ComputePop, ProcessLocalAttention, ProcessExpertMlp, BackOffExpires, lateVars
<1>9. CASE (SendThread(h) \/ HostExit(h)) /\ UNCHANGED lateVars
  BY <1>2, <1>9, StepWithoutDegraded
  DEF SendThread, SendPop, SendWrite, HostExit, hostVars, lateVars
<1>10. CASE (RecvAck(h) \/ RecvExpertInput(h) \/ RecvNotReady(h)) /\ UNCHANGED lateVars
  BY <1>2, <1>10, StepWithoutDegraded DEF RecvAck, RecvExpertInput, RecvNotReady, lateVars
<1>. QED
  BY <1>3, <1>4, <1>5, <1>6, <1>7, <1>8, <1>9, <1>10
  DEF HostStep, HostThreads, ReadThread, ReadMessage, NoticesLoss

\* What a thread does after another one has shut the host down.  A late result
\* is one the service allows, since only the death of the switch makes a read
\* late; any other message changes nothing the service shows.
LEMMA LateTurnDegraded ==
  ASSUME FailureInvariant, NEW h \in Hosts \ crashed, LateTick(h) \/ LateRead(h),
         UNCHANGED <<switchVars, faultVars>>
  PROVE  [Degraded!Next]_Degraded!serviceVars
<1> USE DEF linkVars, queueVars, tokenVars, windowVars, controlVars
<1>1. UNCHANGED <<crashed, switchCrashed>> /\ running \in [Hosts -> BOOLEAN]
  BY DEF faultVars, FailureInvariant, TypeOK, HostTypeOK
<1>2. CASE LateTick(h)
  <2>1. UNCHANGED <<workload, combineDone, combinePayload, running, lateReads>>
    BY <1>2 DEF LateTick, ControlTick, vars, hostVars
  <2>. QED
    BY <1>1, <2>1, StepWithoutDegraded
<1>3. CASE LateRead(h)
  <2>1. h \in lateReads /\ lateReads' = lateReads \ {h} /\ ~running[h]
    BY <1>3 DEF LateRead, FailureInvariant, LateTurns
  <2>2. CASE RecvCombineResult(h)
    <3>1. PICK i \in Tokens : Degraded!Combine(h, i)
      BY <1>1, <2>1, <2>2, ResultCombines
    <3>. QED
      BY <3>1 DEF Degraded!Next
  <2>3. CASE ~RecvCombineResult(h)
    <3>1. UNCHANGED <<workload, combineDone, combinePayload, running>>
      BY <1>1, <1>3, <2>1, <2>3
      DEF LateRead, ReadMessage, RecvAck, RecvExpertInput, RecvNotReady, RecvFinish, vars, hostVars
    <3>2. Degraded!Leave(h)
      BY <1>1, <2>1, <3>1 DEF Degraded!Leave
    <3>. QED
      BY <3>2 DEF Degraded!Next
  <2>. QED
    BY <2>2, <2>3
<1>. QED
  BY <1>2, <1>3

LEMMA HostCrashDegraded ==
  ASSUME FailureInvariant, NEW h \in Hosts, HostCrash(h)
  PROVE  Degraded!HostDies(h)
<1>1. TypeOK /\ Departed
  BY InvariantNow
<1>2. h \notin crashed
  BY <1>1 DEF HostCrash, Departed
<1>. QED
  BY <1>1, <1>2, HostCrashEffect DEF Degraded!HostDies, HostCrash

LEMMA SwitchCrashDegraded ==
  ASSUME FailureInvariant, SwitchCrash
  PROVE  Degraded!SwitchDies
<1>1. TypeOK /\ Departed
  BY InvariantNow
<1>2. ~switchCrashed
  BY <1>1 DEF SwitchCrash, Departed
<1>3. UNCHANGED <<workload, combineDone, combinePayload, running, lateReads, crashed>>
  BY <1>1, SwitchCrashEffect DEF hostVars, tokenVars, SwitchCrash, lateVars
<1>4. switchCrashed' = TRUE
  BY <1>1, SwitchCrashEffect
<1>. QED
  BY <1>2, <1>3, <1>4 DEF Degraded!SwitchDies

LEMMA NextDegraded ==
  ASSUME FailureInvariant, [FailureNext]_failureVars
  PROVE  [Degraded!Next]_Degraded!serviceVars
<1>1. ASSUME NEW h \in Hosts, LivingHostStep(h), UNCHANGED <<switchVars, faultVars>>
      PROVE  [Degraded!Next]_Degraded!serviceVars
  <2>1. h \in Hosts \ crashed
    BY <1>1 DEF LivingHostStep
  <2>2. \/ (HostStep(h) /\ UNCHANGED lateVars) \/ NoticesLoss(h)
        \/ LateTick(h) \/ LateRead(h)
    BY <1>1 DEF LivingHostStep, HostStep, NoticesLoss
  <2>. QED
    BY <1>1, <2>1, <2>2, HostStepDegraded, LateTurnDegraded
<1>2. CASE UNCHANGED <<hostVars, faultVars, lateVars>>
  BY <1>2, StepWithoutDegraded DEF hostVars, tokenVars, faultVars, lateVars
<1>3. ASSUME NEW h \in Hosts, HostCrash(h)
      PROVE  [Degraded!Next]_Degraded!serviceVars
  BY <1>3, HostCrashDegraded DEF Degraded!Next
<1>4. CASE SwitchCrash
  BY <1>4, SwitchCrashDegraded DEF Degraded!Next
<1>5. CASE UNCHANGED failureVars
  <2>1. UNCHANGED <<hostVars, faultVars, lateVars>>
    BY <1>5 DEF failureVars, vars
  <2>. QED
    BY <1>2, <2>1
<1>. QED
  BY <1>1, <1>2, <1>3, <1>4, <1>5 DEF FailureNext

LEMMA InitDegraded ==
  ASSUME FailureInit
  PROVE  Degraded!Init
<1>1. Init /\ crashed = {} /\ switchCrashed = FALSE /\ lateReads = {}
  BY DEF FailureInit
<1>2. {h \in Hosts : ~running[h]} = {}
  BY <1>1 DEF Init, HostInit
<1>. QED
  BY <1>1, <1>2 DEF Init, HostInit, Degraded!Init

\* The safety part of the refinement: whoever dies, a token is combined at
\* most once and misses the part of dead experts only, and a host stops early
\* only if the switch has died: even then it combines at most the one result
\* that its read thread was waiting for.
THEOREM DegradedImplementation == FailureSpec => ImplementsDegradedService
<1>1. FailureInit => Degraded!Init
  BY InitDegraded
<1>2. FailureInvariant /\ [FailureNext]_failureVars => [Degraded!Next]_Degraded!serviceVars
  BY NextDegraded
<1>. QED
  BY <1>1, <1>2, FailureInvariantAlways, PTL DEF FailureSpec, ImplementsDegradedService, Degraded!Spec
=============================================================================
