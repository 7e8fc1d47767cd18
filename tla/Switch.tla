------------------------------- MODULE Switch -------------------------------
(***************************************************************************)
(* The switch after its accept loop: one reader thread per host, all       *)
(* sharing combine_queue (queue_mutex), finished_hosts (finish_mutex) and  *)
(* the write side of every connection (write_mutex of each HostConn).  A   *)
(* reader takes a message, does the critical section of its handler, and   *)
(* then makes the handler's sends one by one, blocked in each while the    *)
(* destination's receive buffer is full; it reads again once they are done.*)
(***************************************************************************)
EXTENDS Links

VARIABLES
  combineQueue,   \* SwitchState::combine_queue: CombineKey -> QueueSlot, or None
  finishedHosts,  \* SwitchState::finished_hosts
  switchRunning,  \* SwitchState::running
  readerUp,       \* [Hosts -> the host's reader thread is in host_reader_loop]
  fan,            \* [Hosts -> the header its reader is sending to several hosts, or None]
  targets,        \* [Hosts -> the hosts to which that reader has yet to send it]
  reply           \* [Hosts -> the answer its reader owes to its own host, or None]

readerVars == <<readerUp, fan, targets, reply>>
switchVars == <<combineQueue, finishedHosts, switchRunning, readerVars>>

\* CombineKey: the owner of a token and its index there.
CombineKey == Hosts \X Tokens

QueueSlot == [expected : Bitmap, pending : Bitmap, ready : BOOLEAN, data : Byte]

\* A missing slot is not taken for a slot.
ASSUME NoSlotAssumption == None \notin QueueSlot

SwitchTypeOK ==
  /\ combineQueue \in [CombineKey -> QueueSlot \cup {None}]
  /\ finishedHosts \in SUBSET Hosts
  /\ switchRunning \in BOOLEAN
  /\ readerUp \in [Hosts -> BOOLEAN]
  /\ fan \in [Hosts -> Message \cup {None}]
  /\ targets \in [Hosts -> SUBSET Hosts]
  /\ reply \in [Hosts -> Message \cup {None}]

SwitchInit ==
  /\ combineQueue = [k \in CombineKey |-> None]
  /\ finishedHosts = {}
  /\ switchRunning = TRUE
  /\ readerUp = [h \in Hosts |-> TRUE]
  /\ fan = [h \in Hosts |-> None]
  /\ targets = [h \in Hosts |-> {}]
  /\ reply = [h \in Hosts |-> None]

\* num_experts = num_hosts on the switch.
NumExperts == NumHosts

\* Seeded fault: tokens of different owners share a key.
MakeKeyWithoutOrigin(m) == <<0, m.idx>>

\* make_key
MakeKey(m) == <<m.origin, m.idx>>

\* Bits beyond the experts are dropped; an empty selection means expert 0.
DecodeExpertIds(bitmap) ==
  LET ids == { e \in bitmap : e < NumExperts }
  IN  IF ids = {} THEN {0} ELSE ids

\* SwitchState::hosts once the accept loop has ended: find_host finds every rank.
ConnectedHosts == Hosts

-----------------------------------------------------------------------------
(* The headers the switch builds *)

ExpertInput(m) == [m EXCEPT !.type = "EXPERT_INPUT", !.src = 0]

SwitchAck(m) == [m EXCEPT !.type = "ACK", !.src = 0, !.dst = m.src, !.data = 0]

CombineResult(m, slot) ==
  [m EXCEPT !.type = "COMBINE_RESULT", !.src = 0, !.dst = m.src,
            !.bitmap = slot.expected, !.data = slot.data]

\* Seeded fault: global_idx is not copied into the answer.
NotReadyWithoutIndex(m) ==
  [m EXCEPT !.type = "NOT_READY", !.src = 0, !.dst = m.src, !.bitmap = {}, !.data = 0, !.idx = 0]

NotReady(m) ==
  [m EXCEPT !.type = "NOT_READY", !.src = 0, !.dst = m.src, !.bitmap = {}, !.data = 0]

SwitchFinish ==
  [type |-> "FINISH", src |-> 0, dst |-> 0, origin |-> 0, idx |-> 0, bitmap |-> {}, data |-> 0]

-----------------------------------------------------------------------------
(* Reader thread of host r *)

\* At the top of host_reader_loop, in sr_read.
ReaderIdle(r) ==
  /\ readerUp[r] /\ switchRunning
  /\ fan[r] = None /\ reply[r] = None

\* The slot handle_dispatch_token creates for the given connected targets.
NewSlot(experts) ==
  [expected |-> experts, pending |-> experts, ready |-> experts = {}, data |-> 0]

\* handle_dispatch_token up to its first send.
HandleDispatchToken(r) ==
  /\ ReaderIdle(r)
  /\ ReadFromHost(r, "DISPATCH_TOKEN")
  /\ LET m == toSwitch[r]
         experts == DecodeExpertIds(m.bitmap) \cap ConnectedHosts
     IN  /\ combineQueue' = [combineQueue EXCEPT ![MakeKey(m)] = NewSlot(experts)]
         /\ fan' = [fan EXCEPT ![r] = ExpertInput(m)]
         /\ targets' = [targets EXCEPT ![r] = experts]
         /\ reply' = [reply EXCEPT ![r] = SwitchAck(m)]
  /\ UNCHANGED <<finishedHosts, switchRunning, readerUp>>

\* Seeded fault: a result replaces the sum.
ReplaceResult(slot, m) ==
  [slot EXCEPT !.data = m.data,
               !.pending = @ \ {m.src},
               !.ready = @ \/ slot.pending \ {m.src} = {}]

\* Seeded fault: the bit of the token's owner is cleared, not the sender's.
ClearOwner(slot, m) ==
  [slot EXCEPT !.data = AggregateByte(@, m.data),
               !.pending = @ \ {m.origin},
               !.ready = @ \/ slot.pending \ {m.origin} = {}]

\* A slot after the result m of an expert that was still pending.
AddResult(slot, m) ==
  [slot EXCEPT !.data = AggregateByte(@, m.data),
               !.pending = @ \ {m.src},
               !.ready = @ \/ slot.pending \ {m.src} = {}]

\* An EXPERT_RESULT for an unknown token, or one that is not pending from
\* its sender, is dropped.
Accepts(m) ==
  /\ combineQueue[MakeKey(m)] # None
  /\ m.src \in combineQueue[MakeKey(m)].pending

\* handle_expert_result
HandleExpertResult(r) ==
  /\ ReaderIdle(r)
  /\ ReadFromHost(r, "EXPERT_RESULT")
  /\ LET m == toSwitch[r]
     IN  combineQueue' = IF Accepts(m)
                         THEN [combineQueue EXCEPT ![MakeKey(m)] = AddResult(@, m)]
                         ELSE combineQueue
  /\ UNCHANGED <<finishedHosts, switchRunning, readerVars>>

\* Seeded fault: an incomplete slot is handed out.
SlotExists(m) == combineQueue[MakeKey(m)] # None

\* The token a COMBINE_PULL_REQ asks for is in its slot and complete.
ReadyToCombine(m) ==
  /\ combineQueue[MakeKey(m)] # None
  /\ combineQueue[MakeKey(m)].ready

\* handle_combine_pull_req, ready: the slot is erased before the answer is sent.
HandlePullReady(r) ==
  /\ ReaderIdle(r)
  /\ ReadFromHost(r, "COMBINE_PULL_REQ")
  /\ LET m == toSwitch[r]
     IN  /\ ReadyToCombine(m)
         /\ combineQueue' = [combineQueue EXCEPT ![MakeKey(m)] = None]
         /\ reply' = [reply EXCEPT ![r] = CombineResult(m, combineQueue[MakeKey(m)])]
  /\ UNCHANGED <<finishedHosts, switchRunning, readerUp, fan, targets>>

\* handle_combine_pull_req, slot incomplete or missing.
HandlePullNotReady(r) ==
  /\ ReaderIdle(r)
  /\ ReadFromHost(r, "COMBINE_PULL_REQ")
  /\ ~ReadyToCombine(toSwitch[r])
  /\ reply' = [reply EXCEPT ![r] = NotReady(toSwitch[r])]
  /\ UNCHANGED <<combineQueue, finishedHosts, switchRunning, readerUp, fan, targets>>

\* Seeded fault: the last host is not waited for.
AllButOneFinished(finished) == Cardinality(finished) >= NumHosts - 1

\* Seeded fault: the comparison is strict.
MoreThanAllFinished(finished) == Cardinality(finished) > NumHosts

\* What mark_host_finished returns.
AllFinished(finished) == Cardinality(finished) >= NumHosts

\* mark_host_finished; the reader that completes the set goes on to
\* broadcast_finish.
HandleFinish(r) ==
  /\ ReaderIdle(r)
  /\ ReadFromHost(r, "FINISH")
  /\ finishedHosts' = finishedHosts \cup {r}
  /\ IF AllFinished(finishedHosts')
     THEN /\ fan' = [fan EXCEPT ![r] = SwitchFinish]
          /\ targets' = [targets EXCEPT ![r] = ConnectedHosts]
     ELSE UNCHANGED <<fan, targets>>
  /\ UNCHANGED <<combineQueue, switchRunning, readerUp, reply>>

\* One send of the loop of handle_dispatch_token or broadcast_finish, in
\* ascending order of rank.
SendFan(r) ==
  \E t \in targets[r] :
    /\ \A u \in targets[r] : t <= u
    /\ WriteToHost(t, [fan[r] EXCEPT !.dst = t])
    /\ targets' = [targets EXCEPT ![r] = @ \ {t}]
    /\ UNCHANGED <<combineQueue, finishedHosts, switchRunning, readerUp, fan, reply>>

\* send_ack_to_host or the answer of handle_combine_pull_req.
SendReply(r) ==
  /\ targets[r] = {} /\ reply[r] # None
  /\ WriteToHost(r, reply[r])
  /\ fan' = [fan EXCEPT ![r] = None]
  /\ reply' = [reply EXCEPT ![r] = None]
  /\ UNCHANGED <<combineQueue, finishedHosts, switchRunning, readerUp, targets>>

\* After broadcast_finish: running is cleared, close_all_host_connections
\* closes every connection, and the reader leaves its loop.
CloseAll(r) ==
  /\ fan[r] # None
  /\ fan[r].type = "FINISH"
  /\ targets[r] = {}
  /\ switchRunning' = FALSE
  /\ switchEnd' = [h \in Hosts |-> FALSE]
  /\ fan' = [fan EXCEPT ![r] = None]
  /\ readerUp' = [readerUp EXCEPT ![r] = FALSE]
  /\ UNCHANGED <<toSwitch, toHost, hostEnd, combineQueue, finishedHosts, targets, reply>>

\* sr_read fails, or conn is null, once either end has been closed.  The
\* reader is then polling a completion queue that close_all_host_connections
\* frees: it may also spin for ever, so nothing obliges this step.
ReaderExit(r) ==
  /\ readerUp[r] /\ fan[r] = None /\ reply[r] = None
  /\ ~switchEnd[r] \/ (~hostEnd[r] /\ toSwitch[r] = None)
  /\ readerUp' = [readerUp EXCEPT ![r] = FALSE]
  /\ UNCHANGED <<linkVars, combineQueue, finishedHosts, switchRunning, fan, targets, reply>>

ReaderHandle(r) ==
  \/ HandleDispatchToken(r)
  \/ HandleExpertResult(r)
  \/ HandlePullReady(r)
  \/ HandlePullNotReady(r)
  \/ HandleFinish(r)
  \/ CloseAll(r)

ReaderSend(r) == SendFan(r) \/ SendReply(r)

SwitchStep(r) == ReaderHandle(r) \/ ReaderSend(r) \/ ReaderExit(r)
=============================================================================
