----------------------------- MODULE INASystem ------------------------------
(***************************************************************************)
(* All hosts, the switch and the connections between them, without         *)
(* failures.                                                               *)
(***************************************************************************)
EXTENDS Host, Switch

vars == <<linkVars, hostVars, switchVars>>

Init == LinksInit /\ HostInit /\ SwitchInit

\* Every host has closed its connection and every reader thread has ended.
Terminated == \A h \in Hosts : ~hostEnd[h] /\ ~readerUp[h]

Next ==
  \/ \E h \in Hosts : HostStep(h) /\ UNCHANGED switchVars
  \/ \E r \in Hosts : SwitchStep(r) /\ UNCHANGED hostVars
  \/ Terminated /\ UNCHANGED vars

Spec == Init /\ [][Next]_vars

(***************************************************************************)
(* Every thread that can take a step takes one in the end.  A reader that  *)
(* waits to send to a host competes with other readers for the host's      *)
(* write_mutex and receive buffer; it is served if the buffer is free      *)
(* again and again, because between two pulls of a token the 10 ms of      *)
(* back-off leave the connection idle.                                     *)
(***************************************************************************)
Fairness ==
  /\ \A h \in Hosts :
       /\ WF_vars(ControlThread(h) /\ UNCHANGED switchVars)
       /\ WF_vars(BackOffExpires(h) /\ UNCHANGED switchVars)
       /\ WF_vars(ComputeThread(h) /\ UNCHANGED switchVars)
       /\ WF_vars(SendThread(h) /\ UNCHANGED switchVars)
       /\ WF_vars(ReadThread(h) /\ UNCHANGED switchVars)
       /\ WF_vars(HostExit(h) /\ UNCHANGED switchVars)
  /\ \A r \in Hosts :
       /\ WF_vars(ReaderHandle(r) /\ UNCHANGED hostVars)
       /\ SF_vars(ReaderSend(r) /\ UNCHANGED hostVars)

FairSpec == Spec /\ Fairness

TypeOK == LinksTypeOK /\ HostTypeOK /\ SwitchTypeOK

-----------------------------------------------------------------------------
(* Where a message can be *)

\* The content of a one-message buffer as a sequence.
Held(slot) == IF slot = None THEN << >> ELSE <<slot>>

\* Everything on its way from host h to the switch.
Outbox(h) == sendQueue[h] \o Held(sending[h]) \o Held(toSwitch[h])

\* Everything on its way from h's own reader to h, and what others sent h.
Inbox(h) == Held(reply[h]) \o Held(toHost[h])

\* The tasks that h has received, queued or begun.
Bench(h) == Held(toHost[h]) \o computeQueue[h] \o Held(computing[h])

\* A message of one of the given types about token i of host h.
Matches(m, types, h, i) == m.type \in types /\ m.origin = h /\ m.idx = i

\* The number of such messages in a sequence.
Count(seq, types, h, i) == Cardinality({ n \in DOMAIN seq : Matches(seq[n], types, h, i) })

\* The stages of token i of host h: its task awaits attention, its
\* DISPATCH_TOKEN is under way, and the ACK; its pull, and the two answers.
Attentions(h, i) == Count(Bench(h), {"LOCAL_ATTENTION"}, h, i)

Dispatches(h, i) == Count(Outbox(h), {"DISPATCH_TOKEN"}, h, i)

Acks(h, i) == Count(Inbox(h), {"ACK"}, h, i)

PullRequests(h, i) == Count(Outbox(h), {"COMBINE_PULL_REQ"}, h, i)

Refusals(h, i) == Count(Inbox(h), {"NOT_READY"}, h, i)

Results(h, i) == Count(Inbox(h), {"COMBINE_RESULT"}, h, i)

\* The work of expert e on that token: what e has received of it, and what e
\* sends back.
ExpertInputs(e, h, i) == Count(Bench(e), {"EXPERT_INPUT"}, h, i)

ExpertResults(e, h, i) == Count(Outbox(e), {"EXPERT_RESULT"}, h, i)

\* The reader of host h has yet to send that work to e.
AwaitsDispatch(e, h, i) ==
  fan[h] # None /\ fan[h].type = "EXPERT_INPUT" /\ fan[h].idx = i /\ e \in targets[h]

\* The switch waits for the result of e on that token.
PendingFrom(e, h, i) ==
  combineQueue[<<h, i>>] # None /\ e \in combineQueue[<<h, i>>].pending

Finishes(h) == Count(Outbox(h), {"FINISH"}, h, 0)

\* 1 if the condition holds.
One(condition) == IF condition THEN 1 ELSE 0

-----------------------------------------------------------------------------
(* Safety *)

\* Control flow of the window and of the pulls: pull_inflight says "a
\* COMBINE_PULL_REQ is waiting for its reply" (host_main.cc:171).  It is set
\* exactly while one request or its one answer is somewhere between the
\* control thread, the queues, the connection and the switch: a token is
\* never polled twice at once, and never left marked with nothing under way.
PullInflightExact ==
  \A h \in Hosts, i \in Tokens :
    One(i \in needPull[h]) + PullRequests(h, i) + Refusals(h, i) + Results(h, i)
      = One(i \in pullInflight[h])

\* A DISPATCH_TOKEN never meets a slot under its key: the switch never
\* reports "overwriting existing combine slot" (switch_main.cc:335) and no
\* partial sum is thrown away.
NoSlotOverwritten ==
  \A h \in Hosts, i \in Tokens :
    Dispatches(h, i) # 0 => combineQueue[<<h, i>>] = None

\* A COMBINE_PULL_REQ always finds its slot: the acknowledgement that allows
\* the pull comes after the slot, and only the pull takes the slot away, so
\* "slot does not exist" (switch_main.cc:469) is never reported and no host
\* polls for a token the switch has forgotten.
PullFindsSlot ==
  \A h \in Hosts, i \in Tokens :
    i \in needPull[h] \/ PullRequests(h, i) # 0 => combineQueue[<<h, i>>] # None

\* The work of expert e on token i of host h is in one place or done.
WorkLedger(e, h, i) ==
  One(AwaitsDispatch(e, h, i)) + ExpertInputs(e, h, i) + ExpertResults(e, h, i)
    = One(PendingFrom(e, h, i))

\* An expert is pending in a slot exactly while the work it was sent is in
\* one place: not yet sent by the dispatching reader, in the expert's
\* receive buffer, in its compute queue, in its compute thread, or coming
\* back as an EXPERT_RESULT.  No result is lost, and none is dropped as
\* "duplicate or unexpected" (switch_main.cc:266).
PendingExact ==
  \A e \in Hosts, h \in Hosts, i \in Tokens : WorkLedger(e, h, i)

\* The sum over n experts of the byte an expert returns for token idx.
SumOf(idx, n) == (n * (2 * (idx + ByteIndex))) % 256

\* The result that the chosen experts owe to token idx.
SumOver(chosen, idx) == SumOf(idx, Cardinality(chosen))

\* The results the switch may hand out for a token of which only the experts
\* in a set are excused from doing their part.
Owed(chosen, idx, excused) ==
  { SumOver(served, idx) : served \in { S \in SUBSET chosen : chosen \ S \subseteq excused } }

\* The result a host holds for a token is the sum, modulo the width of a
\* byte, of what every chosen expert made of it, each counted once.
CombineExact ==
  \A h \in Hosts : \A i \in combineDone[h] :
    combinePayload[h][i] = SumOver(workload[h][i], i)

\* The tokens of host h for which the switch holds a slot.
SlotsOf(h) == { i \in Tokens : combineQueue[<<h, i>>] # None }

\* The switch holds at most window_size slots of a host at a time, and none of
\* a host whose window_size, unchecked by main, lets it admit no token: the
\* only bound on combine_queue is the window of the hosts.
SlotsWithinWindow ==
  \A h \in Hosts : SlotsOf(h) = {} \/ Cardinality(SlotsOf(h)) <= WindowSize

\* A reader is past the last FINISH: it is in broadcast_finish or beyond.
FinishBroadcast ==
  ~switchRunning \/ \E r \in Hosts : fan[r] # None /\ fan[r].type = "FINISH"

\* When the switch decides to stop, nothing but its FINISH is left anywhere:
\* no slot, no queued task or message, no reader in the middle of a handler.
\* So no host drops work when it shuts down, and close_all_host_connections
\* closes no connection on which another reader is sending.
FinishQuiescent ==
  FinishBroadcast =>
    /\ \A k \in CombineKey : combineQueue[k] = None
    /\ \A h \in Hosts :
         /\ Outbox(h) = << >> /\ computeQueue[h] = << >> /\ computing[h] = None
         /\ needPull[h] = {} /\ ~admitting[h] /\ ~sendFinish[h]
         /\ reply[h] = None
         /\ fan[h] # None => fan[h].type = "FINISH" /\ switchRunning
         /\ toHost[h] # None => toHost[h].type = "FINISH"
    /\ \A h, r \in Hosts : fan[h] # None /\ fan[r] # None => h = r

-----------------------------------------------------------------------------
(* The inductive invariant behind CombineExact and ImplementsService: what *)
(* every message says is true, wherever it is on its way.  A result may    *)
(* miss the part of the excused experts, and a host may stop early if the  *)
(* run is lost: nobody is excused and nothing is lost here, but Failures   *)
(* keeps the same invariant with the hosts and the switch that have died.  *)

\* What a message from host h to the switch may say, given the experts
\* chosen for each of the host's tokens and the tokens it has combined.
TruthfulToSwitch(h, chosen, combined, m) ==
  /\ m.type \in {"DISPATCH_TOKEN", "EXPERT_RESULT", "COMBINE_PULL_REQ", "FINISH"}
  /\ m.type # "FINISH" => m.idx \in Tokens
  /\ m.type = "DISPATCH_TOKEN" =>
       m.origin = h /\ m.bitmap = chosen[m.idx] /\ m.data = AttentionByte(m.idx)
  /\ m.type = "EXPERT_RESULT" => m.data = ExpertByte(AttentionByte(m.idx))
  /\ m.type = "COMBINE_PULL_REQ" => m.origin = h
  /\ m.type = "FINISH" => combined = Tokens

\* What a message from the switch to a host may say, given the experts chosen
\* for each of the host's tokens, those excused, and whether all hosts have
\* finished.
TruthfulToHost(chosen, excused, finished, m) ==
  /\ m.type \in {"EXPERT_INPUT", "ACK", "NOT_READY", "COMBINE_RESULT", "FINISH"}
  /\ m.type = "EXPERT_INPUT" => m.idx \in Tokens /\ m.data = AttentionByte(m.idx)
  /\ m.type = "COMBINE_RESULT" =>
       m.idx \in Tokens /\ m.data \in Owed(chosen[m.idx], m.idx, excused)
  /\ m.type = "FINISH" => finished

\* What a task of a compute queue may say.
TruthfulTask(m) ==
  /\ m.type \in TaskType
  /\ m.idx \in Tokens
  /\ m.type = "EXPERT_INPUT" => m.data = AttentionByte(m.idx)

\* What a reader is sending to several hosts may say.
TruthfulFan(finished, m) ==
  /\ m.type \in {"EXPERT_INPUT", "FINISH"}
  /\ m.type = "EXPERT_INPUT" => m.idx \in Tokens /\ m.data = AttentionByte(m.idx)
  /\ m.type = "FINISH" => finished

AllCombined == \A h \in Hosts : combineDone[h] = Tokens

SendPathTruthful ==
  \A h \in Hosts :
    /\ \A n \in 1 .. Len(sendQueue[h]) :
         TruthfulToSwitch(h, workload[h], combineDone[h], sendQueue[h][n])
    /\ sending[h] # None => TruthfulToSwitch(h, workload[h], combineDone[h], sending[h])
    /\ toSwitch[h] # None => TruthfulToSwitch(h, workload[h], combineDone[h], toSwitch[h])

TaskPathTruthful ==
  \A h \in Hosts :
    /\ \A n \in 1 .. Len(computeQueue[h]) : TruthfulTask(computeQueue[h][n])
    /\ computing[h] # None => TruthfulTask(computing[h])

ReceivePathTruthful(excused) ==
  \A h \in Hosts :
    /\ toHost[h] # None => TruthfulToHost(workload[h], excused, AllCombined, toHost[h])
    /\ reply[h] # None => TruthfulToHost(workload[h], excused, AllCombined, reply[h])
    /\ targets[h] # {} => fan[h] \in Message /\ TruthfulFan(AllCombined, fan[h])

\* A slot expects the experts of its token, and its data is the sum over
\* those that are no longer pending.
TruthfulSlot(chosen, i, excused, slot) ==
  /\ slot.expected = chosen[i]
  /\ slot.pending \subseteq slot.expected
  /\ slot.ready <=> slot.pending = {}
  /\ slot.data \in Owed(slot.expected \ slot.pending, i, excused)

SlotsTruthful(excused) ==
  \A h \in Hosts, i \in Tokens :
    combineQueue[<<h, i>>] # None => TruthfulSlot(workload[h], i, excused, combineQueue[<<h, i>>])

\* What the control thread of a host believes, what the switch believes of
\* the host, and what a host that has stopped has left behind.
HostsTruthful(lost) ==
  \A h \in Hosts :
    /\ \A i \in Tokens : Cardinality(workload[h][i]) > 0
    /\ \A i \in Tokens : i < windowBase[h] => i \in combineDone[h]
    /\ admitting[h] => CanAdmit(nextToAdmit[h], windowBase[h])
    /\ sendFinish[h] => combineDone[h] = Tokens
    /\ h \in finishedHosts => combineDone[h] = Tokens
    /\ ~running[h] => AllCombined \/ lost

\* CombineExact, but for the excused.
ValuesTruthful(excused) ==
  \A h \in Hosts : \A i \in combineDone[h] :
    combinePayload[h][i] \in Owed(workload[h][i], i, excused)

TruthfulBut(excused, lost) ==
  /\ SendPathTruthful
  /\ TaskPathTruthful
  /\ ReceivePathTruthful(excused)
  /\ SlotsTruthful(excused)
  /\ HostsTruthful(lost)
  /\ ValuesTruthful(excused)

\* Inductive together with TypeOK.
Truthful == TruthfulBut({}, FALSE)

-----------------------------------------------------------------------------
(* The inductive invariant behind the counting properties: where every     *)
(* token is, and how far the end of the run has come.                      *)

\* What a message from host h names.
SentBy(h, m) ==
  /\ m.type \in {"DISPATCH_TOKEN", "EXPERT_RESULT", "COMBINE_PULL_REQ", "FINISH"}
  /\ m.type # "FINISH" => m.idx \in Tokens
  /\ m.type \in {"DISPATCH_TOKEN", "COMBINE_PULL_REQ"} => m.origin = h
  /\ m.type = "EXPERT_RESULT" => m.src = h
  /\ m.type = "FINISH" => m.origin = h /\ m.idx = 0

\* What an answer for host h, or anything that is sent to h, names.
AnswerFor(h, m) ==
  m.type \in {"ACK", "NOT_READY", "COMBINE_RESULT"} /\ m.origin = h /\ m.idx \in Tokens

SentTo(h, m) ==
  \/ AnswerFor(h, m)
  \/ m.type = "EXPERT_INPUT" /\ m.idx \in Tokens
  \/ m.type = "FINISH"

\* What a task of host h names.
TaskOf(h, m) == m.idx \in Tokens /\ (m.type = "LOCAL_ATTENTION" => m.origin = h)

\* Messages, tasks and answers are with the host they are about.
SendPathAddressed(h) ==
  /\ \A n \in 1 .. Len(sendQueue[h]) : SentBy(h, sendQueue[h][n])
  /\ sending[h] # None => SentBy(h, sending[h])
  /\ toSwitch[h] # None => SentBy(h, toSwitch[h])

TaskPathAddressed(h) ==
  /\ \A n \in 1 .. Len(computeQueue[h]) : TaskOf(h, computeQueue[h][n])
  /\ computing[h] # None => TaskOf(h, computing[h])

ReceivePathAddressed(h) ==
  /\ toHost[h] # None => SentTo(h, toHost[h])
  /\ reply[h] # None => AnswerFor(h, reply[h])

\* A reader that has hosts to send to has a header for them; it answers its
\* own host after the inputs of a token, and not at all after the last FINISH.
FanAddressed(r) ==
  /\ targets[r] # {} => fan[r] # None
  /\ fan[r] # None =>
       \/ /\ fan[r].type = "EXPERT_INPUT" /\ fan[r].idx \in Tokens
          /\ fan[r].origin = r /\ reply[r] # None
       \/ fan[r].type = "FINISH" /\ reply[r] = None

Addressed ==
  \A h \in Hosts : /\ SendPathAddressed(h) /\ TaskPathAddressed(h)
                   /\ ReceivePathAddressed(h) /\ FanAddressed(h)

\* The life of token i of host h: it is admitted, waits for attention, for the
\* switch, for its acknowledgement; from the arrival at the switch on it has a
\* slot, a COMBINE_RESULT under way or its result; and in between its pulls
\* come and go.
TokenLedger(h, i) ==
  /\ One(i < nextToAdmit[h]) = Attentions(h, i) + One(i \in attentionDone[h])
  /\ One(i \in attentionDone[h]) = Dispatches(h, i) + Acks(h, i) + One(i \in dispatchAcked[h])
  /\ Acks(h, i) + One(i \in dispatchAcked[h])
       = One(i \in SlotsOf(h)) + Results(h, i) + One(i \in combineDone[h])
  /\ One(i \in pullInflight[h])
       = One(i \in needPull[h]) + PullRequests(h, i) + Refusals(h, i) + Results(h, i)
  /\ i \in pullInflight[h] => i \in dispatchAcked[h] /\ i \notin combineDone[h]
  /\ i \in combineDone[h] => i \in dispatchAcked[h]

\* The one FINISH of host h is to be sent, under way, or counted.
FinishLedger(h) ==
  One(finishEnqueued[h])
    = One(sendFinish[h]) + Finishes(h) + One(h \in finishedHosts)

\* No host is ahead of its window.
WithinWindow(h) == nextToAdmit[h] = 0 \/ nextToAdmit[h] <= windowBase[h] + WindowSize

\* Reader r is in broadcast_finish.
Broadcasting(r) == fan[r] # None /\ fan[r].type = "FINISH"

\* Nobody stops before all have finished, and one reader stops the rest.
StopInOrder ==
  /\ \A r \in Hosts : Broadcasting(r) => switchRunning
  /\ \A r, q \in Hosts : Broadcasting(r) /\ Broadcasting(q) => r = q
  /\ FinishBroadcast => finishedHosts = Hosts
  /\ \A h \in Hosts :
       ~running[h] \/ (toHost[h] # None /\ toHost[h].type = "FINISH") => finishedHosts = Hosts

\* Inductive together with TypeOK and Truthful.
Accounted ==
  /\ Addressed
  /\ \A h \in Hosts, i \in Tokens : TokenLedger(h, i)
  /\ PendingExact
  /\ \A h \in Hosts : FinishLedger(h) /\ WithinWindow(h)
  /\ StopInOrder

-----------------------------------------------------------------------------
(* Deadlock.  Each predicate is the guard of the steps of one thread; of a  *)
(* control thread, which can always poll, only those that lead somewhere.   *)

\* A pull of token i of host h would not be refused.
SlotReady(h, i) == combineQueue[<<h, i>>] # None /\ combineQueue[<<h, i>>].ready

\* control_tick has something to push, or would find something to do other
\* than a pull that is refused.
ControlCanAct(h) ==
  \/ needPull[h] # {} \/ admitting[h] \/ sendFinish[h]
  \/ /\ running[h]
     /\ \/ \E i \in PullableTokens(h) : SlotReady(h, i)
        \/ windowBase[h] \in combineDone[h]
        \/ windowBase[h] = NumTokens /\ ~finishEnqueued[h]

ComputeCanAct(h) ==
  \/ running[h] /\ computing[h] = None /\ computeQueue[h] # << >>
  \/ computing[h] # None /\ computing[h].type \in TaskType

SendCanAct(h) ==
  \/ running[h] /\ sending[h] = None /\ sendQueue[h] # << >>
  \/ sending[h] # None /\ toSwitch[h] = None /\ switchEnd[h]

ReadCanAct(h) ==
  /\ running[h] /\ toHost[h] # None
  /\ toHost[h].type \in {"ACK", "EXPERT_INPUT", "NOT_READY", "COMBINE_RESULT", "FINISH"}

\* The joins of main return.
CanExit(h) ==
  /\ ~running[h] /\ hostEnd[h]
  /\ sending[h] = None /\ computing[h] = None
  /\ needPull[h] = {} /\ ~admitting[h] /\ ~sendFinish[h]

HostCanAct(h) ==
  \/ ControlCanAct(h) \/ ComputeCanAct(h) \/ SendCanAct(h) \/ ReadCanAct(h)
  \/ backingOff[h] # {} \/ CanExit(h)

ReaderCanHandle(r) ==
  /\ ReaderIdle(r) /\ toSwitch[r] # None
  /\ toSwitch[r].type \in {"DISPATCH_TOKEN", "EXPERT_RESULT", "COMBINE_PULL_REQ", "FINISH"}

ReaderCanSend(r) ==
  \/ \E t \in targets[r] : (\A u \in targets[r] : t <= u) /\ toHost[t] = None /\ hostEnd[t]
  \/ targets[r] = {} /\ reply[r] # None /\ toHost[r] = None /\ hostEnd[r]

ReaderCanAct(r) ==
  ReaderCanHandle(r) \/ ReaderCanSend(r) \/ (targets[r] = {} /\ Broadcasting(r))

\* Until the last host has closed its connection somebody can do something
\* that leads on: the threads that wait for a message, for a task, for room in
\* a one-message buffer, for a slot to be complete, for the window to move or
\* for the others to finish never all wait for each other or poll in vain,
\* whatever the numbers of hosts, tokens and experts, and whatever the window
\* that holds at least one token.
NeverStuck ==
  WindowSize > 0 /\ (\E h \in Hosts : hostEnd[h]) =>
    \E h \in Hosts : HostCanAct(h) \/ ReaderCanAct(h)

-----------------------------------------------------------------------------
(* The abstract specification *)

\* combineDone, combinePayload and the hosts that have stopped running, seen
\* together, behave as CombineService, whose fairness is implemented too:
\* every token is combined and every host is stopped in the end.
Service == INSTANCE CombineService WITH
  Workloads <- MakeWorkload,
  Combined <- SumOver,
  experts <- workload,
  combined <- combineDone,
  value <- combinePayload,
  stopped <- {h \in Hosts : ~running[h]}

\* Safety part of the refinement: a token is combined once, with the right
\* value, and no host stops before every host has every token.
ImplementsService == Service!Spec

\* The whole refinement, with progress.
ImplementsFairService == Service!FairSpec

-----------------------------------------------------------------------------
(* Liveness *)

\* No pull stays unanswered: the NOT_READY or COMBINE_RESULT comes back.
PullsAnswered ==
  \A h \in Hosts, i \in Tokens : i \in pullInflight[h] ~> i \notin pullInflight[h]

\* Every host's main gets past its joins and closes its connection.
HostsExit == \A h \in Hosts : <>(~hostEnd[h])
=============================================================================
