------------------------------ MODULE Failures -------------------------------
(***************************************************************************)
(* INASystem when processes die.  A host that dies takes its memory with   *)
(* it; what it has already written stays in the switch's receive buffer.   *)
(* A write to a process that has died fails in the end, because the        *)
(* transport retries are used up.  A read need not fail: sr_read polls a   *)
(* completion queue and never looks at the connection's events, so a       *)
(* thread that only reads may poll for ever.  A thread that finds such a   *)
(* failure shuts its host down, and may overtake another one that has      *)
(* tested running already: that one finishes its turn of the loop.         *)
(***************************************************************************)
EXTENDS INASystem

CONSTANTS
  MaxHostCrashes,    \* the number of hosts that die in a behaviour
  MaxSwitchCrashes   \* 1 if the switch may die, else 0

ASSUME CrashAssumption == MaxHostCrashes \in Nat /\ MaxSwitchCrashes \in {0, 1}

VARIABLES
  crashed,        \* the hosts that have died
  switchCrashed,  \* the switch has died
  lateTicks,      \* hosts shut down while control_loop was about to tick
  lateReads       \* hosts shut down while read_loop was in sr_read

faultVars == <<crashed, switchCrashed>>
lateVars == <<lateTicks, lateReads>>
failureVars == <<vars, faultVars, lateVars>>

FailureInit ==
  /\ Init
  /\ crashed = {} /\ switchCrashed = FALSE
  /\ lateTicks = {} /\ lateReads = {}

-----------------------------------------------------------------------------
(* The faults *)

\* Host h dies.  Its combined results are kept as history for the properties.
HostCrash(h) ==
  /\ hostEnd[h] /\ Cardinality(crashed) < MaxHostCrashes
  /\ crashed' = crashed \cup {h}
  /\ lateTicks' = lateTicks \ {h}
  /\ lateReads' = lateReads \ {h}
  /\ hostEnd' = [hostEnd EXCEPT ![h] = FALSE]
  /\ toHost' = [toHost EXCEPT ![h] = None]
  /\ sendQueue' = [sendQueue EXCEPT ![h] = << >>]
  /\ sending' = [sending EXCEPT ![h] = None]
  /\ computeQueue' = [computeQueue EXCEPT ![h] = << >>]
  /\ computing' = [computing EXCEPT ![h] = None]
  /\ needPull' = [needPull EXCEPT ![h] = {}]
  /\ admitting' = [admitting EXCEPT ![h] = FALSE]
  /\ sendFinish' = [sendFinish EXCEPT ![h] = FALSE]
  /\ attentionDone' = [attentionDone EXCEPT ![h] = {}]
  /\ dispatchAcked' = [dispatchAcked EXCEPT ![h] = {}]
  /\ pullInflight' = [pullInflight EXCEPT ![h] = {}]
  /\ backingOff' = [backingOff EXCEPT ![h] = {}]
  /\ windowBase' = [windowBase EXCEPT ![h] = 0]
  /\ nextToAdmit' = [nextToAdmit EXCEPT ![h] = 0]
  /\ finishEnqueued' = [finishEnqueued EXCEPT ![h] = FALSE]
  /\ UNCHANGED <<toSwitch, switchEnd, workload, running, combineDone, combinePayload,
                 switchVars, switchCrashed>>

\* The switch dies, and with it every slot and what it had not read.
SwitchCrash ==
  /\ One(switchCrashed) < MaxSwitchCrashes
  /\ \E r \in Hosts : readerUp[r]
  /\ switchCrashed' = TRUE
  /\ switchRunning' = FALSE
  /\ switchEnd' = [h \in Hosts |-> FALSE]
  /\ toSwitch' = [h \in Hosts |-> None]
  /\ combineQueue' = [k \in CombineKey |-> None]
  /\ finishedHosts' = {}
  /\ readerUp' = [h \in Hosts |-> FALSE]
  /\ fan' = [h \in Hosts |-> None]
  /\ targets' = [h \in Hosts |-> {}]
  /\ reply' = [h \in Hosts |-> None]
  /\ UNCHANGED <<toHost, hostEnd, hostVars, crashed, lateVars>>

-----------------------------------------------------------------------------
(* What a reader of the switch does about a host that has died *)

\* Seeded fault: every host the reader has yet to send to is given up.
DropTargets(slot, r, t) ==
  [slot EXCEPT !.pending = @ \ targets[r],
               !.ready = @ \/ slot.pending \ targets[r] = {}]

\* A slot after the EXPERT_INPUT of reader r to expert t has failed.
DropExpert(slot, r, t) ==
  [slot EXCEPT !.pending = @ \ {t},
               !.ready = @ \/ slot.pending \ {t} = {}]

\* Seeded fault: the loop is left at the first failure.
NothingLeft(r, t) == {}

\* The loop goes on with the targets after t.
TargetsLeft(r, t) == targets[r] \ {t}

\* send_to_host fails in handle_dispatch_token, which gives the expert up, or
\* in broadcast_finish, which ignores it.
FanFails(r) ==
  \E t \in targets[r] :
    /\ \A u \in targets[r] : t <= u
    /\ ~hostEnd[t]
    /\ targets' = [targets EXCEPT ![r] = TargetsLeft(r, t)]
    /\ LET key == MakeKey(fan[r])
       IN  combineQueue' = IF fan[r].type = "EXPERT_INPUT" /\ combineQueue[key] # None
                           THEN [combineQueue EXCEPT ![key] = DropExpert(@, r, t)]
                           ELSE combineQueue
    /\ UNCHANGED <<linkVars, finishedHosts, switchRunning, readerUp, fan, reply>>

\* The ACK, the NOT_READY or the COMBINE_RESULT fails: only a log line.
ReplyFails(r) ==
  /\ targets[r] = {} /\ reply[r] # None
  /\ ~hostEnd[r]
  /\ fan' = [fan EXCEPT ![r] = None]
  /\ reply' = [reply EXCEPT ![r] = None]
  /\ UNCHANGED <<linkVars, combineQueue, finishedHosts, switchRunning, readerUp, targets>>

ReaderSendFails(r) == FanFails(r) \/ ReplyFails(r)

-----------------------------------------------------------------------------
(* What a host does about a switch that has died *)

\* Seeded fault: the failure is only logged, as the switch does it.
KeepRunning(h) == running

\* shutdown_runtime: running is cleared and both queues are closed.
ShutdownRuntime(h) == [running EXCEPT ![h] = FALSE]

\* The hosts with a tick to come when a thread of h other than the control
\* thread shuts h down: h is one of them unless its control thread is still
\* pushing what its last tick has found.
TicksToCome(h) ==
  IF running[h] /\ needPull[h] = {} /\ ~admitting[h] /\ ~sendFinish[h]
  THEN lateTicks \cup {h} ELSE lateTicks

\* process_out_msg fails and calls shutdown_runtime, whatever the read thread
\* is about to read.
HostSendFails(h) ==
  /\ sending[h] # None
  /\ ~switchEnd[h]
  /\ running' = ShutdownRuntime(h)
  /\ sending' = [sending EXCEPT ![h] = None]
  /\ lateTicks' = TicksToCome(h)
  /\ lateReads' = IF running[h] THEN lateReads \cup {h} ELSE lateReads
  /\ UNCHANGED <<linkVars, workload, sendQueue, computeQueue, computing, tokenVars,
                 windowVars, controlVars>>

\* sr_read fails and read_loop calls shutdown_runtime.
HostReadFails(h) ==
  /\ running[h]
  /\ toHost[h] = None
  /\ ~switchEnd[h]
  /\ running' = ShutdownRuntime(h)
  /\ lateTicks' = TicksToCome(h)
  /\ UNCHANGED <<linkVars, workload, queueVars, tokenVars, windowVars, controlVars, lateReads>>

\* control_loop had tested running before the shutdown and ticks once more, or
\* it had not and ends.
LateTick(h) ==
  /\ h \in lateTicks
  /\ lateTicks' = lateTicks \ {h}
  /\ ControlTick(h) \/ UNCHANGED vars
  /\ UNCHANGED lateReads

\* read_loop was in sr_read and handles a message that had been delivered before
\* the connection failed, or sr_read fails, or read_loop had not tested running.
LateRead(h) ==
  /\ h \in lateReads
  /\ lateReads' = lateReads \ {h}
  /\ ReadMessage(h) \/ UNCHANGED vars
  /\ UNCHANGED lateTicks

\* process_compute_task drops its task after the shutdown.
ComputeDrop(h) ==
  /\ ~running[h]
  /\ computing[h] # None
  /\ computing' = [computing EXCEPT ![h] = None]
  /\ UNCHANGED <<linkVars, workload, running, sendQueue, sending, computeQueue, tokenVars,
                 windowVars, controlVars, lateVars>>

\* main joins the threads before it closes the connection.
Joined(h) == h \notin lateTicks \cup lateReads

-----------------------------------------------------------------------------
LivingHostStep(h) ==
  /\ h \notin crashed
  /\ \/ HostThreads(h) /\ UNCHANGED lateVars
     \/ HostExit(h) /\ Joined(h) /\ UNCHANGED lateVars
     \/ HostSendFails(h) \/ HostReadFails(h) \/ ComputeDrop(h)
     \/ LateTick(h) \/ LateRead(h)

ReaderStep(r) == SwitchStep(r) \/ ReaderSendFails(r)

FailureNext ==
  \/ \E h \in Hosts : LivingHostStep(h) /\ UNCHANGED <<switchVars, faultVars>>
  \/ \E r \in Hosts : ReaderStep(r) /\ UNCHANGED <<hostVars, faultVars, lateVars>>
  \/ \E h \in Hosts : HostCrash(h)
  \/ SwitchCrash
  \/ Terminated /\ UNCHANGED failureVars

FailureSpec == FailureInit /\ [][FailureNext]_failureVars

\* Fairness of INASystem for the hosts that live, and the failure of a write
\* to a process that has died.  No process has to die, and no read has to fail.
FailureFairness ==
  /\ \A h \in Hosts :
       /\ WF_failureVars(/\ h \notin crashed
                         /\ ControlThread(h)
                         /\ UNCHANGED <<switchVars, faultVars, lateVars>>)
       /\ WF_failureVars(/\ h \notin crashed
                         /\ BackOffExpires(h)
                         /\ UNCHANGED <<switchVars, faultVars, lateVars>>)
       /\ WF_failureVars(/\ h \notin crashed
                         /\ ComputeThread(h) \/ ComputeDrop(h)
                         /\ UNCHANGED <<switchVars, faultVars, lateVars>>)
       /\ WF_failureVars(/\ h \notin crashed
                         /\ (SendThread(h) /\ UNCHANGED lateVars) \/ HostSendFails(h)
                         /\ UNCHANGED <<switchVars, faultVars>>)
       /\ WF_failureVars(/\ h \notin crashed
                         /\ ReadThread(h)
                         /\ UNCHANGED <<switchVars, faultVars, lateVars>>)
       /\ WF_failureVars(/\ h \notin crashed
                         /\ LateTick(h) \/ LateRead(h)
                         /\ UNCHANGED <<switchVars, faultVars>>)
       /\ WF_failureVars(/\ h \notin crashed
                         /\ HostExit(h) /\ Joined(h)
                         /\ UNCHANGED <<switchVars, faultVars, lateVars>>)
  /\ \A r \in Hosts :
       /\ WF_failureVars(/\ ReaderHandle(r) \/ ReaderSendFails(r)
                         /\ UNCHANGED <<hostVars, faultVars, lateVars>>)
       /\ SF_failureVars(ReaderSend(r) /\ UNCHANGED <<hostVars, faultVars, lateVars>>)

FairFailureSpec == FailureSpec /\ FailureFairness

-----------------------------------------------------------------------------
(* Properties *)

\* While the switch lives, an expert that lives is pending in a slot exactly
\* while its work is somewhere: giving up the dead experts of a token loses no
\* work of the others (the error path of handle_dispatch_token).
LivingWorkExact ==
  ~switchCrashed =>
    \A e \in Hosts \ crashed, h \in Hosts, i \in Tokens : WorkLedger(e, h, i)

\* When the switch decides to stop, no host that lives has work or messages
\* left, whatever became of the others.
LivingQuiescent ==
  FinishBroadcast /\ ~switchCrashed =>
    \A h \in Hosts \ crashed :
      /\ Outbox(h) = << >> /\ computeQueue[h] = << >> /\ computing[h] = None
      /\ needPull[h] = {} /\ ~admitting[h] /\ ~sendFinish[h]
      /\ toHost[h] # None => toHost[h].type = "FINISH"

-----------------------------------------------------------------------------
(* The inductive invariant behind LivingWorkExact, LivingQuiescent and the *)
(* safety part of ImplementsDegradedService.  Every message is truthful    *)
(* but for the part of dead experts.  While the switch lives, the books of *)
(* INASystem stay in order for the hosts that live; of a dead host only    *)
(* the slots matter, because others work for them.                         *)

\* Who has closed a connection, and what the dead have left.
Departed ==
  /\ \A h \in Hosts : ~hostEnd[h] => h \in crashed \/ ~running[h]
  /\ \A h \in crashed : ~hostEnd[h] /\ toHost[h] = None
  /\ switchCrashed =>
       \A r \in Hosts : ~switchEnd[r] /\ ~readerUp[r] /\ fan[r] = None /\ reply[r] = None
                       /\ targets[r] = {}

\* A token has at most one dispatch, slot or result, whoever owns it.
TokenOnce(h, i) ==
  Dispatches(h, i) + One(i \in SlotsOf(h)) + Results(h, i) + One(i \in combineDone[h]) <= 1

\* All that is left of it when the switch has died.
ResultOnce(h, i) == Results(h, i) + One(i \in combineDone[h]) <= 1

\* Host h has stopped, has been told to stop, or has lost its connection.
Stopping(h) ==
  ~running[h] \/ ~switchEnd[h] \/ (toHost[h] # None /\ toHost[h].type = "FINISH")

\* Nobody stops before every host has finished, the dead included.
StopsLast == FinishBroadcast \/ (\E h \in Hosts : Stopping(h)) => finishedHosts = Hosts

\* The books while the switch lives.
LivingAccounted ==
  /\ \A h \in Hosts, i \in Tokens : TokenOnce(h, i)
  /\ \A h \in Hosts \ crashed : FinishLedger(h) /\ \A i \in Tokens : TokenLedger(h, i)
  /\ \A e \in Hosts \ crashed, h \in Hosts, i \in Tokens : WorkLedger(e, h, i)
  /\ StopsLast

\* Only a host that has been shut down has a late turn, and only the death of
\* the switch makes a send thread shut its host down.
LateTurns ==
  /\ lateTicks \cup lateReads \subseteq { h \in Hosts \ crashed : ~running[h] }
  /\ lateReads # {} => switchCrashed

FailureInvariant ==
  /\ TypeOK /\ crashed \subseteq Hosts /\ switchCrashed \in BOOLEAN /\ LateTurns
  /\ TruthfulBut(crashed, switchCrashed)
  /\ Addressed /\ Departed
  /\ \A h \in Hosts, i \in Tokens : ResultOnce(h, i)
  /\ ~switchCrashed => LivingAccounted

-----------------------------------------------------------------------------
(* The abstract specification, and what must happen in the end *)

\* Results miss the part of dead experts only, tokens are combined at most
\* once, and a host stops early only if the switch has died: it may then still
\* combine the one result that its read thread was reading.
Degraded == INSTANCE DegradedService WITH
  Workloads <- MakeWorkload,
  Combined <- SumOver,
  experts <- workload,
  combined <- combineDone,
  value <- combinePayload,
  stopped <- {h \in Hosts : ~running[h]},
  leaving <- lateReads,
  down <- crashed,
  lost <- switchCrashed

ImplementsDegradedService == Degraded!Spec

\* Token i of host h waits for nobody but experts that have died.
Bereft(h, i) ==
  /\ combineQueue[<<h, i>>] # None
  /\ combineQueue[<<h, i>>].pending # {}
  /\ combineQueue[<<h, i>>].pending \subseteq crashed

\* As long as the switch lives, a host that lives gets all of its tokens in the
\* end, or one of them waits for dead experts for ever: the switch gives an
\* expert up when a write to it fails, and never when it dies after the write.
ServedOrBereft ==
  \A h \in Hosts :
    <>[](\/ h \in crashed \/ switchCrashed
         \/ combineDone[h] = Tokens
         \/ \E i \in Tokens : Bereft(h, i))

\* The host waits for the switch: every token it has admitted and not combined
\* lacks an answer, to its dispatch or to its pull, or it has sent its FINISH.
AwaitsSwitch(h) ==
  /\ Outbox(h) = << >>
  /\ \A i \in 0 .. nextToAdmit[h] - 1 :
       i \in combineDone[h] \/ i \in pullInflight[h] \/ i \notin dispatchAcked[h]
  /\ combineDone[h] = Tokens => finishEnqueued[h]

\* Once the switch has died, every host that has anything left to send, now or
\* later, is stopped: a failed sr_write is sure to be noticed.  A host that only
\* waits for an answer may wait for ever, because sr_read need not fail.
StopsOrAwaitsSwitch ==
  \A h \in Hosts :
    switchCrashed /\ h \notin crashed /\ ~AwaitsSwitch(h) ~> ~running[h]
=============================================================================
