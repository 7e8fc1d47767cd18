-------------------------------- MODULE Host --------------------------------
(***************************************************************************)
(* A host in its default loop mode, FOUR_LOOPS: a control thread that      *)
(* slides the token window, a compute thread, a send thread and a read     *)
(* thread, which share the token states under state_mutex and pass work    *)
(* through two BlockingQueues.  The state starts where main starts the     *)
(* four threads, after the HELLO exchange.                                 *)
(***************************************************************************)
EXTENDS Links, Sequences

VARIABLES
  workload,        \* [Hosts -> expert_bitmap of each token], fixed by make_workload
  running,         \* HostState::running; both queues are closed once it is FALSE
  sendQueue,       \* HostState::send_queue
  sending,         \* the OutMsg the send thread has popped, or None
  computeQueue,    \* HostState::compute_queue
  computing,       \* the ComputeTask the compute thread has popped, or None
  attentionDone,   \* tokens with TokenWindowState::attention_done (and dispatch_enqueued)
  dispatchAcked,   \* tokens with dispatch_acked
  pullInflight,    \* tokens with pull_inflight
  backingOff,      \* tokens whose next_pull_time lies in the future
  combineDone,     \* tokens with combine_done
  combinePayload,  \* the byte followed of TokenWindowState::combine_payload
  windowBase,      \* window_base, which received_combines always equals
  nextToAdmit,     \* next_to_admit: tokens below it are admitted
  finishEnqueued,  \* finish_enqueued
  needPull,        \* the control thread's need_pull, still to be enqueued
  admitting,       \* the control thread still has tokens to admit
  sendFinish       \* the control thread's should_send_finish

queueVars == <<sendQueue, sending, computeQueue, computing>>
tokenVars == <<attentionDone, dispatchAcked, pullInflight, backingOff, combineDone, combinePayload>>
windowVars == <<windowBase, nextToAdmit, finishEnqueued>>
controlVars == <<needPull, admitting, sendFinish>>
hostVars == <<workload, running, queueVars, tokenVars, windowVars, controlVars>>

HostTypeOK ==
  /\ workload \in [Hosts -> [Tokens -> Bitmap]]
  /\ running \in [Hosts -> BOOLEAN]
  /\ sendQueue \in [Hosts -> Seq(Message)]
  /\ sending \in [Hosts -> Message \cup {None}]
  /\ computeQueue \in [Hosts -> Seq(Task)]
  /\ computing \in [Hosts -> Task \cup {None}]
  /\ attentionDone \in [Hosts -> SUBSET Tokens]
  /\ dispatchAcked \in [Hosts -> SUBSET Tokens]
  /\ pullInflight \in [Hosts -> SUBSET Tokens]
  /\ backingOff \in [Hosts -> SUBSET Tokens]
  /\ combineDone \in [Hosts -> SUBSET Tokens]
  /\ combinePayload \in [Hosts -> [Tokens -> Byte]]
  /\ windowBase \in [Hosts -> 0 .. NumTokens]
  /\ nextToAdmit \in [Hosts -> 0 .. NumTokens]
  /\ finishEnqueued \in [Hosts -> BOOLEAN]
  /\ needPull \in [Hosts -> SUBSET Tokens]
  /\ admitting \in [Hosts -> BOOLEAN]
  /\ sendFinish \in [Hosts -> BOOLEAN]

\* Seeded fault: the window holds one token too many.
CanAdmitOneMore(next, base) == next < NumTokens /\ next <= base + WindowSize

\* The while condition of try_admit_raw_tokens_to_compute_queue.
CanAdmit(next, base) == next < NumTokens /\ next < base + WindowSize

HostInit ==
  /\ workload \in [Hosts -> MakeWorkload]
  /\ running = [h \in Hosts |-> TRUE]
  /\ sendQueue = [h \in Hosts |-> << >>]
  /\ sending = [h \in Hosts |-> None]
  /\ computeQueue = [h \in Hosts |-> << >>]
  /\ computing = [h \in Hosts |-> None]
  /\ attentionDone = [h \in Hosts |-> {}]
  /\ dispatchAcked = [h \in Hosts |-> {}]
  /\ pullInflight = [h \in Hosts |-> {}]
  /\ backingOff = [h \in Hosts |-> {}]
  /\ combineDone = [h \in Hosts |-> {}]
  /\ combinePayload = [h \in Hosts |-> [i \in Tokens |-> 0]]
  /\ windowBase = [h \in Hosts |-> 0]
  /\ nextToAdmit = [h \in Hosts |-> 0]
  /\ finishEnqueued = [h \in Hosts |-> FALSE]
  /\ needPull = [h \in Hosts |-> {}]
  /\ admitting = [h \in Hosts |-> CanAdmit(0, 0)]
  /\ sendFinish = [h \in Hosts |-> FALSE]

\* BlockingQueue::push: a closed queue drops the item.
Push(queue, h, item) ==
  [queue EXCEPT ![h] = IF running[h] THEN Append(@, item) ELSE @]

-----------------------------------------------------------------------------
(* The messages and tasks a host builds *)

LocalAttention(h, i) ==
  [type |-> "LOCAL_ATTENTION", src |-> h, dst |-> h, origin |-> h, idx |-> i,
   bitmap |-> {}, data |-> 0]

DispatchToken(h, i) ==
  [type |-> "DISPATCH_TOKEN", src |-> h, dst |-> 0, origin |-> h, idx |-> i,
   bitmap |-> workload[h][i], data |-> AttentionByte(i)]

CombinePullReq(h, i) ==
  [type |-> "COMBINE_PULL_REQ", src |-> h, dst |-> 0, origin |-> h, idx |-> i,
   bitmap |-> workload[h][i], data |-> 0]

ExpertResult(h, input) ==
  [input EXCEPT !.type = "EXPERT_RESULT", !.src = h, !.dst = 0,
                !.data = ExpertByte(input.data)]

HostFinish(h) ==
  [type |-> "FINISH", src |-> h, dst |-> 0, origin |-> h, idx |-> 0,
   bitmap |-> {}, data |-> 0]

-----------------------------------------------------------------------------
(* The control thread.  Its pushes happen after it has released            *)
(* state_mutex, one at a time, in the order pulls, admissions, FINISH.     *)

\* try_admit_raw_tokens_to_compute_queue, one token of its loop.  Nobody but
\* the control thread reads next_to_admit, so marking a token and pushing its
\* task are one step.
AdmitToken(h) ==
  /\ admitting[h]
  /\ needPull[h] = {}
  /\ computeQueue' = Push(computeQueue, h, LocalAttention(h, nextToAdmit[h]))
  /\ nextToAdmit' = [nextToAdmit EXCEPT ![h] = @ + 1]
  /\ admitting' = [admitting EXCEPT ![h] = CanAdmit(nextToAdmit[h] + 1, windowBase[h])]
  /\ UNCHANGED <<linkVars, workload, running, sendQueue, sending, computing, tokenVars,
                 windowBase, finishEnqueued, needPull, sendFinish>>

\* Seeded fault: a pull does not wait for the acknowledgement of the dispatch.
PullableUnacked(h) ==
  { i \in windowBase[h] .. nextToAdmit[h] - 1 :
      /\ i \in attentionDone[h]
      /\ i \notin combineDone[h] \cup pullInflight[h] \cup backingOff[h] }

\* Seeded fault: a pull does not wait for the answer to the one before.
PullableInflight(h) ==
  { i \in windowBase[h] .. nextToAdmit[h] - 1 :
      /\ i \in attentionDone[h] \cap dispatchAcked[h]
      /\ i \notin combineDone[h] \cup backingOff[h] }

\* The tokens for which control_tick starts a pull.
PullableTokens(h) ==
  { i \in windowBase[h] .. nextToAdmit[h] - 1 :
      /\ i \in attentionDone[h] \cap dispatchAcked[h]
      /\ i \notin combineDone[h] \cup pullInflight[h] \cup backingOff[h] }

\* Seeded fault: the window moves by one for every result, whichever token it
\* is for.
SlidesPerResult(h, base) == base = Cardinality(combineDone[h])

\* The loop over window_base leaves it at the first token not combined.
SlidesTo(h, base) ==
  /\ \A i \in windowBase[h] .. base - 1 : i \in combineDone[h]
  /\ base \notin combineDone[h]

\* The critical section of control_tick: choose the pulls, slide the window
\* over the combined tokens at its base, and notice that all are combined.
ControlTick(h) ==
  /\ needPull[h] = {} /\ ~admitting[h] /\ ~sendFinish[h]
  /\ needPull' = [needPull EXCEPT ![h] = PullableTokens(h)]
  /\ pullInflight' = [pullInflight EXCEPT ![h] = @ \cup PullableTokens(h)]
  /\ \E base \in windowBase[h] .. NumTokens :
       /\ SlidesTo(h, base)
       /\ windowBase' = [windowBase EXCEPT ![h] = base]
       /\ admitting' = [admitting EXCEPT ![h] =
                          base # windowBase[h] /\ CanAdmit(nextToAdmit[h], base)]
       /\ sendFinish' = [sendFinish EXCEPT ![h] =
                           ~finishEnqueued[h] /\ base >= NumTokens]
       /\ finishEnqueued' = [finishEnqueued EXCEPT ![h] = @ \/ base >= NumTokens]
  /\ UNCHANGED <<linkVars, workload, running, queueVars, attentionDone, dispatchAcked,
                 backingOff, combineDone, combinePayload, nextToAdmit>>

\* enqueue_combine_pull, for the tokens of need_pull in ascending order.
EnqueuePull(h) ==
  \E i \in needPull[h] :
    /\ \A j \in needPull[h] : i <= j
    /\ needPull' = [needPull EXCEPT ![h] = @ \ {i}]
    /\ sendQueue' = Push(sendQueue, h, CombinePullReq(h, i))
    /\ UNCHANGED <<linkVars, workload, running, sending, computeQueue, computing, tokenVars,
                   windowVars, admitting, sendFinish>>

EnqueueFinish(h) ==
  /\ sendFinish[h]
  /\ needPull[h] = {} /\ ~admitting[h]
  /\ sendFinish' = [sendFinish EXCEPT ![h] = FALSE]
  /\ sendQueue' = Push(sendQueue, h, HostFinish(h))
  /\ UNCHANGED <<linkVars, workload, running, sending, computeQueue, computing, tokenVars,
                 windowVars, needPull, admitting>>

\* control_loop tests running, waits for 1 ms or a notification, and ticks
\* without another test.  Without failures running is cleared when there is
\* nothing left to tick for, so the test and the tick are one step here.
ControlThread(h) ==
  AdmitToken(h) \/ (running[h] /\ ControlTick(h)) \/ EnqueuePull(h) \/ EnqueueFinish(h)

\* The clock passes the next_pull_time of a token.
BackOffExpires(h) ==
  \E i \in backingOff[h] :
    /\ backingOff' = [backingOff EXCEPT ![h] = @ \ {i}]
    /\ UNCHANGED <<linkVars, workload, running, queueVars, attentionDone, dispatchAcked,
                   pullInflight, combineDone, combinePayload, windowVars, controlVars>>

-----------------------------------------------------------------------------
(* The compute thread *)

ComputePop(h) ==
  /\ running[h]
  /\ computing[h] = None
  /\ computeQueue[h] # << >>
  /\ computing' = [computing EXCEPT ![h] = Head(computeQueue[h])]
  /\ computeQueue' = [computeQueue EXCEPT ![h] = Tail(@)]
  /\ UNCHANGED <<linkVars, workload, running, sendQueue, sending, tokenVars, windowVars, controlVars>>

\* process_local_attention
ProcessLocalAttention(h) ==
  /\ computing[h] # None
  /\ computing[h].type = "LOCAL_ATTENTION"
  /\ attentionDone' = [attentionDone EXCEPT ![h] = @ \cup {computing[h].idx}]
  /\ sendQueue' = Push(sendQueue, h, DispatchToken(h, computing[h].idx))
  /\ computing' = [computing EXCEPT ![h] = None]
  /\ UNCHANGED <<linkVars, workload, running, sending, computeQueue, dispatchAcked,
                 pullInflight, backingOff, combineDone, combinePayload, windowVars, controlVars>>

\* process_expert_mlp
ProcessExpertMlp(h) ==
  /\ computing[h] # None
  /\ computing[h].type = "EXPERT_INPUT"
  /\ sendQueue' = Push(sendQueue, h, ExpertResult(h, computing[h]))
  /\ computing' = [computing EXCEPT ![h] = None]
  /\ UNCHANGED <<linkVars, workload, running, sending, computeQueue, tokenVars, windowVars, controlVars>>

ComputeThread(h) == ComputePop(h) \/ ProcessLocalAttention(h) \/ ProcessExpertMlp(h)

-----------------------------------------------------------------------------
(* The send thread *)

SendPop(h) ==
  /\ running[h]
  /\ sending[h] = None
  /\ sendQueue[h] # << >>
  /\ sending' = [sending EXCEPT ![h] = Head(sendQueue[h])]
  /\ sendQueue' = [sendQueue EXCEPT ![h] = Tail(@)]
  /\ UNCHANGED <<linkVars, workload, running, computeQueue, computing, tokenVars, windowVars, controlVars>>

\* process_out_msg, blocked in sr_write until the switch has a buffer posted.
SendWrite(h) ==
  /\ sending[h] # None
  /\ WriteToSwitch(h, sending[h])
  /\ sending' = [sending EXCEPT ![h] = None]
  /\ UNCHANGED <<workload, running, sendQueue, computeQueue, computing, tokenVars, windowVars, controlVars>>

SendThread(h) == SendPop(h) \/ SendWrite(h)

-----------------------------------------------------------------------------
(* The read thread: sr_read, then handle_incoming_message, which blocks on *)
(* nothing but state_mutex.                                                *)

\* The token a header's global_idx names, if it passes the bounds check.
TokenOf(m) == {m.idx} \cap Tokens

RecvAck(h) ==
  /\ ReadFromSwitch(h, "ACK")
  /\ dispatchAcked' = [dispatchAcked EXCEPT ![h] = @ \cup TokenOf(toHost[h])]
  /\ UNCHANGED <<workload, running, queueVars, attentionDone, pullInflight, backingOff,
                 combineDone, combinePayload, windowVars, controlVars>>

RecvExpertInput(h) ==
  /\ ReadFromSwitch(h, "EXPERT_INPUT")
  /\ computeQueue' = Push(computeQueue, h, toHost[h])
  /\ UNCHANGED <<workload, running, sendQueue, sending, computing, tokenVars, windowVars, controlVars>>

RecvNotReady(h) ==
  /\ ReadFromSwitch(h, "NOT_READY")
  /\ pullInflight' = [pullInflight EXCEPT ![h] = @ \ TokenOf(toHost[h])]
  /\ backingOff' = [backingOff EXCEPT ![h] = @ \cup TokenOf(toHost[h])]
  /\ UNCHANGED <<workload, running, queueVars, attentionDone, dispatchAcked, combineDone,
                 combinePayload, windowVars, controlVars>>

RecvCombineResult(h) ==
  /\ ReadFromSwitch(h, "COMBINE_RESULT")
  /\ combineDone' = [combineDone EXCEPT ![h] = @ \cup TokenOf(toHost[h])]
  /\ pullInflight' = [pullInflight EXCEPT ![h] = @ \ TokenOf(toHost[h])]
  /\ combinePayload' = [combinePayload EXCEPT ![h] =
                          [i \in Tokens |-> IF i \in TokenOf(toHost[h]) THEN toHost[h].data ELSE @[i]]]
  /\ UNCHANGED <<workload, running, queueVars, attentionDone, dispatchAcked, backingOff,
                 windowVars, controlVars>>

\* shutdown_runtime: running is cleared and both queues are closed.
RecvFinish(h) ==
  /\ ReadFromSwitch(h, "FINISH")
  /\ running' = [running EXCEPT ![h] = FALSE]
  /\ UNCHANGED <<workload, queueVars, tokenVars, windowVars, controlVars>>

ReadMessage(h) ==
  RecvAck(h) \/ RecvExpertInput(h) \/ RecvNotReady(h) \/ RecvCombineResult(h) \/ RecvFinish(h)

\* read_loop tests running, blocks in sr_read, and handles the message without
\* another test.  Without failures only this thread clears running, so the
\* test may be seen as part of the read; Failures has the other case.
ReadThread(h) == running[h] /\ ReadMessage(h)

-----------------------------------------------------------------------------
\* main joins the four threads, none of which is inside a step, and closes
\* the connection.
HostExit(h) ==
  /\ ~running[h] /\ hostEnd[h]
  /\ sending[h] = None /\ computing[h] = None
  /\ needPull[h] = {} /\ ~admitting[h] /\ ~sendFinish[h]
  /\ hostEnd' = [hostEnd EXCEPT ![h] = FALSE]
  /\ UNCHANGED <<toSwitch, toHost, switchEnd, hostVars>>

HostThreads(h) ==
  \/ ControlThread(h)
  \/ BackOffExpires(h)
  \/ ComputeThread(h)
  \/ SendThread(h)
  \/ ReadThread(h)

HostStep(h) == HostThreads(h) \/ HostExit(h)
=============================================================================
