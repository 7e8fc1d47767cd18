-------------------------- MODULE INASystem_proof ---------------------------
(***************************************************************************)
(* Proofs about INASystem for every number of hosts up to 64, every        *)
(* workload, every window and every choice of experts.                     *)
(***************************************************************************)
EXTENDS INASystem, FiniteSetTheorems, TLAPS

USE ConstantsAssumption

-----------------------------------------------------------------------------
(* Facts about the operators the model is built from *)

LEMMA HostsCardinality == IsFiniteSet(Hosts) /\ Cardinality(Hosts) = NumHosts
  BY FS_Interval DEF Hosts

\* The switch counts hosts that have finished; NumHosts of them are all.
LEMMA AllFinishedIsEveryHost ==
  ASSUME NEW finished \in SUBSET Hosts, AllFinished(finished)
  PROVE  finished = Hosts
  BY HostsCardinality, FS_Subset, FS_CardinalityType DEF AllFinished

\* Every token of a workload has at least one expert.
LEMMA ChosenExperts ==
  ASSUME NEW b \in ChooseTopkBitmap
  PROVE  b \subseteq Hosts /\ Cardinality(b) > 0
  BY DEF ChooseTopkBitmap, Bitmap

LEMMA BitmapFinite ==
  ASSUME NEW b \in Bitmap
  PROVE  IsFiniteSet(b) /\ Cardinality(b) \in Nat
  BY HostsCardinality, FS_Subset, FS_CardinalityType DEF Bitmap

\* decode_expert_ids gives back the experts that the host chose.
LEMMA DecodeChosen ==
  ASSUME NEW b \in Bitmap, Cardinality(b) > 0
  PROVE  DecodeExpertIds(b) \cap ConnectedHosts = b
<1>1. b # {}
  <2>1. Cardinality({}) = 0
    BY FS_EmptySet
  <2>. QED
    BY <2>1
<1>2. \A e \in b : e < NumExperts
  BY DEF Bitmap, Hosts, NumExperts
<1>3. { e \in b : e < NumExperts } = b
  BY <1>2
<1>. QED
  BY <1>1, <1>3 DEF DecodeExpertIds, ConnectedHosts, Bitmap

LEMMA ByteTypes ==
  /\ \A i \in Nat : AttentionByte(i) \in Byte
  /\ \A b \in Byte : ExpertByte(b) \in Byte
  /\ \A acc, b \in Byte : AggregateByte(acc, b) \in Byte
<1>1. \A n \in Nat : n % 256 \in Byte
  BY DEF Byte
<1>2. \A i \in Nat : i + ByteIndex \in Nat
  OBVIOUS
<1>3. \A b \in Byte : b * 2 \in Nat
  BY DEF Byte
<1>4. \A acc, b \in Byte : acc + b \in Nat
  BY DEF Byte
<1>. QED
  BY <1>1, <1>2, <1>3, <1>4 DEF AttentionByte, ExpertByte, AggregateByte

\* One more result in the sum.
LEMMA SumOfNext ==
  ASSUME NEW i \in Nat, NEW n \in Nat
  PROVE  AggregateByte(SumOf(i, n), ExpertByte(AttentionByte(i))) = SumOf(i, n + 1)
<1> DEFINE v == 2 * (i + ByteIndex)
           p == n * v
<1>1. v \in Nat /\ p \in Nat
  OBVIOUS
<1>2. (((i + ByteIndex) % 256) * 2) % 256 = v % 256
  OBVIOUS
<1>3. (n + 1) * v = p + v
  BY <1>1
<1>4. ASSUME NEW x \in Nat, NEW y \in Nat
      PROVE  ((x % 256) + (y % 256)) % 256 = (x + y) % 256
  OBVIOUS
<1>5. ((p % 256) + (v % 256)) % 256 = (p + v) % 256
  BY <1>1, <1>4
<1>. QED
  BY <1>2, <1>3, <1>5 DEF AggregateByte, SumOf, ExpertByte, AttentionByte

\* handle_dispatch_token makes a truthful slot.
\* Nobody is excused: the whole sum is owed.
LEMMA OwedExactly == \A chosen, i : Owed(chosen, i, {}) = {SumOver(chosen, i)}
<1>1. \A chosen : { S \in SUBSET chosen : chosen \ S \subseteq {} } = {chosen}
  OBVIOUS
<1>. QED
  BY <1>1 DEF Owed

LEMMA NewSlotTruthful ==
  ASSUME NEW i \in Tokens, NEW chosen, chosen[i] \in Bitmap, Cardinality(chosen[i]) > 0,
         NEW excused
  PROVE  TruthfulSlot(chosen, i, excused, NewSlot(chosen[i]))
<1>1. SumOver({}, i) = 0
  <2>1. Cardinality({}) = 0
    BY FS_EmptySet
  <2>. QED
    BY <2>1 DEF SumOver, SumOf, Tokens
<1>2. chosen[i] # {}
  BY FS_EmptySet
<1>3. 0 \in Owed({}, i, excused)
  BY <1>1 DEF Owed
<1>4. chosen[i] \ chosen[i] = {}
  OBVIOUS
<1>. QED
  BY <1>2, <1>3, <1>4 DEF NewSlot, TruthfulSlot

\* handle_expert_result keeps a slot truthful.
LEMMA AddResultTruthful ==
  ASSUME NEW i \in Tokens, NEW chosen, chosen[i] \in Bitmap, NEW excused,
         NEW slot \in QueueSlot, TruthfulSlot(chosen, i, excused, slot),
         NEW m \in Message, m.src \in slot.pending,
         m.data = ExpertByte(AttentionByte(i))
  PROVE  TruthfulSlot(chosen, i, excused, AddResult(slot, m))
<1> DEFINE rest == slot.pending \ {m.src}
           done == slot.expected \ slot.pending
           more == slot.expected \ rest
<1>1. more = done \cup {m.src} /\ m.src \notin done
  BY DEF TruthfulSlot
<1>2. PICK served \in SUBSET done : done \ served \subseteq excused /\ slot.data = SumOver(served, i)
  BY DEF TruthfulSlot, Owed
<1>3. IsFiniteSet(served) /\ Cardinality(served) \in Nat
  <2>1. IsFiniteSet(slot.expected)
    BY BitmapFinite DEF TruthfulSlot
  <2>. QED
    BY <2>1, FS_Subset, FS_CardinalityType
<1>4. Cardinality(served \cup {m.src}) = Cardinality(served) + 1
  BY <1>1, <1>3, FS_AddElement
<1>5. AggregateByte(slot.data, m.data) = SumOver(served \cup {m.src}, i)
  BY <1>2, <1>3, <1>4, SumOfNext DEF SumOver, Tokens
<1>6. AggregateByte(slot.data, m.data) \in Owed(more, i, excused)
  BY <1>1, <1>2, <1>5 DEF Owed
<1>7. /\ AddResult(slot, m).expected = slot.expected
      /\ AddResult(slot, m).pending = rest
      /\ AddResult(slot, m).ready = (slot.ready \/ rest = {})
      /\ AddResult(slot, m).data = AggregateByte(slot.data, m.data)
  BY DEF AddResult, QueueSlot
<1>8. rest \subseteq slot.expected /\ ~slot.ready
  BY DEF TruthfulSlot
<1>. QED
  BY <1>6, <1>7, <1>8 DEF TruthfulSlot

\* What handle_combine_pull_req hands out of a complete slot.
LEMMA ReadySlot ==
  ASSUME NEW i \in Tokens, NEW chosen, NEW excused, NEW slot,
         TruthfulSlot(chosen, i, excused, slot), slot.ready
  PROVE  slot.data \in Owed(chosen[i], i, excused)
<1>1. slot.expected \ slot.pending = chosen[i]
  BY DEF TruthfulSlot
<1>. QED
  BY <1>1 DEF TruthfulSlot
-----------------------------------------------------------------------------
(* Type correctness, which needs the invariant: a reader looks up a slot   *)
(* by the key of a message, and only a truthful one names a token.         *)

IInv(excused, lost) == TypeOK /\ TruthfulBut(excused, lost)

LEMMA HostMessageTypes ==
  ASSUME TypeOK, NEW h \in Hosts
  PROVE  /\ \A i \in Tokens : /\ LocalAttention(h, i) \in Task
                              /\ DispatchToken(h, i) \in Message
                              /\ CombinePullReq(h, i) \in Message
         /\ \A m \in Task : ExpertResult(h, m) \in Message
         /\ \A m \in Message : m.type = "EXPERT_INPUT" => m \in Task
         /\ HostFinish(h) \in Message
<1>1. 0 \in Hosts /\ 0 \in Byte /\ 0 \in Nat /\ {} \in Bitmap /\ Tokens \subseteq Nat
  BY DEF Hosts, Byte, Bitmap, Tokens
<1>2. \A i \in Tokens : workload[h][i] \in Bitmap
  BY DEF TypeOK, HostTypeOK
<1>3. \A m \in Task : ExpertResult(h, m) \in Message
  BY <1>1, ByteTypes DEF ExpertResult, Message, Task, Header, MsgType
<1>4. \A m \in Message : m.type = "EXPERT_INPUT" => m \in Task
  BY DEF Message, Task, Header, TaskType
<1>. QED
  BY <1>1, <1>2, <1>3, <1>4, ByteTypes
  DEF LocalAttention, DispatchToken, CombinePullReq, HostFinish, Message, Task, Header, MsgType, TaskType

LEMMA SwitchMessageTypes ==
  ASSUME NEW m \in Message
  PROVE  /\ ExpertInput(m) \in Message
         /\ SwitchAck(m) \in Message
         /\ NotReady(m) \in Message
         /\ \A slot \in QueueSlot : CombineResult(m, slot) \in Message
         /\ \A t \in Hosts : [m EXCEPT !.dst = t] \in Message
         /\ SwitchFinish \in Message
<1>1. 0 \in Hosts /\ 0 \in Byte /\ 0 \in Nat /\ {} \in Bitmap
  BY DEF Hosts, Byte, Bitmap
<1>. QED
  BY <1>1 DEF ExpertInput, SwitchAck, NotReady, CombineResult, SwitchFinish, Message, Header, MsgType, QueueSlot

LEMMA ControlThreadTypes ==
  ASSUME NEW excused, NEW lost, IInv(excused, lost),
         NEW h \in Hosts, ControlThread(h) \/ ControlTick(h), UNCHANGED switchVars
  PROVE  TypeOK'
<1> USE DEF switchVars, readerVars, linkVars, queueVars, tokenVars, windowVars, controlVars
<1>1. CASE AdmitToken(h)
  <2>1. nextToAdmit[h] \in Tokens
    BY <1>1 DEF AdmitToken, IInv, TypeOK, HostTypeOK, TruthfulBut, HostsTruthful, CanAdmit, Tokens
  <2>2. LocalAttention(h, nextToAdmit[h]) \in Task
    BY <2>1, HostMessageTypes DEF IInv
  <2>3. computeQueue' \in [Hosts -> Seq(Task)]
    BY <1>1, <2>2 DEF AdmitToken, IInv, TypeOK, HostTypeOK, Push
  <2>4. nextToAdmit' \in [Hosts -> 0 .. NumTokens] /\ admitting' \in [Hosts -> BOOLEAN]
    <3>1. nextToAdmit[h] + 1 \in 0 .. NumTokens
      BY <2>1, ConstantsAssumption DEF Tokens
    <3>2. CanAdmit(nextToAdmit[h] + 1, windowBase[h]) \in BOOLEAN
      BY DEF CanAdmit
    <3>. QED
      BY <1>1, <3>1, <3>2 DEF AdmitToken, IInv, TypeOK, HostTypeOK
  <2>. QED
    BY <1>1, <2>3, <2>4 DEF AdmitToken, IInv, TypeOK, LinksTypeOK, HostTypeOK, SwitchTypeOK
<1>2. CASE ControlTick(h)
  <2>1. PullableTokens(h) \subseteq Tokens
    BY DEF PullableTokens, IInv, TypeOK, HostTypeOK
  <2>. QED
    BY <1>2, <2>1 DEF ControlTick, IInv, TypeOK, LinksTypeOK, HostTypeOK, SwitchTypeOK, CanAdmit
<1>3. CASE EnqueuePull(h)
  <2>1. \A i \in needPull[h] : CombinePullReq(h, i) \in Message
    BY HostMessageTypes DEF IInv, TypeOK, HostTypeOK
  <2>2. sendQueue' \in [Hosts -> Seq(Message)] /\ needPull' \in [Hosts -> SUBSET Tokens]
    BY <1>3, <2>1 DEF EnqueuePull, IInv, TypeOK, HostTypeOK, Push
  <2>. QED
    BY <1>3, <2>2 DEF EnqueuePull, IInv, TypeOK, LinksTypeOK, HostTypeOK, SwitchTypeOK
<1>4. CASE EnqueueFinish(h)
  <2>1. HostFinish(h) \in Message
    BY HostMessageTypes DEF IInv
  <2>. QED
    BY <1>4, <2>1 DEF EnqueueFinish, IInv, TypeOK, LinksTypeOK, HostTypeOK, SwitchTypeOK, Push
<1>. QED
  BY <1>1, <1>2, <1>3, <1>4 DEF ControlThread
LEMMA ComputeThreadTypes ==
  ASSUME NEW excused, NEW lost, IInv(excused, lost),
         NEW h \in Hosts, ComputeThread(h) \/ BackOffExpires(h), UNCHANGED switchVars
  PROVE  TypeOK'
<1> USE DEF switchVars, readerVars, linkVars, queueVars, tokenVars, windowVars, controlVars
<1>1. CASE ComputePop(h)
  BY <1>1 DEF ComputePop, IInv, TypeOK, LinksTypeOK, HostTypeOK, SwitchTypeOK
<1>2. CASE ProcessLocalAttention(h)
  <2>1. computing[h].idx \in Tokens
    BY <1>2 DEF ProcessLocalAttention, IInv, TruthfulBut, TaskPathTruthful, TruthfulTask
  <2>2. DispatchToken(h, computing[h].idx) \in Message
    BY <2>1, HostMessageTypes DEF IInv
  <2>. QED
    BY <1>2, <2>1, <2>2
    DEF ProcessLocalAttention, IInv, TypeOK, LinksTypeOK, HostTypeOK, SwitchTypeOK, Push
<1>3. CASE ProcessExpertMlp(h)
  <2>1. ExpertResult(h, computing[h]) \in Message
    BY <1>3, HostMessageTypes DEF ProcessExpertMlp, IInv, TypeOK, HostTypeOK
  <2>. QED
    BY <1>3, <2>1 DEF ProcessExpertMlp, IInv, TypeOK, LinksTypeOK, HostTypeOK, SwitchTypeOK, Push
<1>4. CASE BackOffExpires(h)
  BY <1>4 DEF BackOffExpires, IInv, TypeOK, LinksTypeOK, HostTypeOK, SwitchTypeOK
<1>. QED
  BY <1>1, <1>2, <1>3, <1>4 DEF ComputeThread

LEMMA SendThreadTypes ==
  ASSUME NEW excused, NEW lost, IInv(excused, lost),
         NEW h \in Hosts, SendThread(h) \/ HostExit(h), UNCHANGED switchVars
  PROVE  TypeOK'
<1> USE DEF switchVars, readerVars, linkVars, hostVars, queueVars, tokenVars, windowVars, controlVars
<1>1. CASE SendPop(h)
  BY <1>1 DEF SendPop, IInv, TypeOK, LinksTypeOK, HostTypeOK, SwitchTypeOK
<1>2. CASE SendWrite(h)
  BY <1>2 DEF SendWrite, WriteToSwitch, IInv, TypeOK, LinksTypeOK, HostTypeOK, SwitchTypeOK
<1>3. CASE HostExit(h)
  BY <1>3 DEF HostExit, IInv, TypeOK, LinksTypeOK, HostTypeOK, SwitchTypeOK
<1>. QED
  BY <1>1, <1>2, <1>3 DEF SendThread

LEMMA ReadMessageTypes ==
  ASSUME NEW excused, NEW lost, IInv(excused, lost),
         NEW h \in Hosts, ReadMessage(h), UNCHANGED switchVars
  PROVE  TypeOK'
<1> USE DEF ReadFromSwitch, TokenOf, switchVars, readerVars, linkVars, queueVars, tokenVars,
            windowVars, controlVars
<1>1. CASE RecvAck(h)
  BY <1>1 DEF RecvAck, IInv, TypeOK, LinksTypeOK, HostTypeOK, SwitchTypeOK
<1>2. CASE RecvExpertInput(h)
  <2>1. toHost[h] \in Task
    BY <1>2, HostMessageTypes DEF RecvExpertInput, IInv, TypeOK, LinksTypeOK
  <2>2. computeQueue' \in [Hosts -> Seq(Task)]
    BY <1>2, <2>1 DEF RecvExpertInput, IInv, TypeOK, HostTypeOK, Push
  <2>. QED
    BY <1>2, <2>2 DEF RecvExpertInput, IInv, TypeOK, LinksTypeOK, HostTypeOK, SwitchTypeOK
<1>3. CASE RecvNotReady(h)
  BY <1>3 DEF RecvNotReady, IInv, TypeOK, LinksTypeOK, HostTypeOK, SwitchTypeOK
<1>4. CASE RecvCombineResult(h)
  <2>1. toHost[h].data \in Byte
    BY <1>4 DEF RecvCombineResult, IInv, TypeOK, LinksTypeOK, Message, Header
  <2>. QED
    BY <1>4, <2>1 DEF RecvCombineResult, IInv, TypeOK, LinksTypeOK, HostTypeOK, SwitchTypeOK
<1>5. CASE RecvFinish(h)
  BY <1>5 DEF RecvFinish, IInv, TypeOK, LinksTypeOK, HostTypeOK, SwitchTypeOK
<1>. QED
  BY <1>1, <1>2, <1>3, <1>4, <1>5 DEF ReadMessage

\* What a reader finds in the slot of the message it has just read.
LEMMA SlotOfMessage ==
  ASSUME NEW excused, NEW lost, IInv(excused, lost),
         NEW r \in Hosts, toSwitch[r] # None, toSwitch[r].type # "FINISH"
  PROVE  /\ toSwitch[r] \in Message
         /\ TruthfulToSwitch(r, workload[r], combineDone[r], toSwitch[r])
         /\ toSwitch[r].idx \in Tokens
         /\ toSwitch[r].origin \in Hosts
         /\ MakeKey(toSwitch[r]) \in CombineKey
         /\ combineQueue[MakeKey(toSwitch[r])] # None =>
              /\ combineQueue[MakeKey(toSwitch[r])] \in QueueSlot
              /\ TruthfulSlot(workload[toSwitch[r].origin], toSwitch[r].idx, excused,
                              combineQueue[MakeKey(toSwitch[r])])
<1>1. toSwitch[r] \in Message /\ toSwitch[r].origin \in Hosts
  BY DEF IInv, TypeOK, LinksTypeOK, Message, Header
<1>2. TruthfulToSwitch(r, workload[r], combineDone[r], toSwitch[r])
  BY DEF IInv, TruthfulBut, SendPathTruthful
<1>3. toSwitch[r].idx \in Tokens
  BY <1>2 DEF TruthfulToSwitch
<1>4. MakeKey(toSwitch[r]) = <<toSwitch[r].origin, toSwitch[r].idx>>
  BY DEF MakeKey
<1>. QED
  BY <1>1, <1>2, <1>3, <1>4 DEF CombineKey, IInv, TypeOK, SwitchTypeOK, TruthfulBut, SlotsTruthful

LEMMA HandleDispatchTokenTypes ==
  ASSUME NEW excused, NEW lost, IInv(excused, lost),
         NEW r \in Hosts, HandleDispatchToken(r), UNCHANGED hostVars
  PROVE  TypeOK'
<1> DEFINE m == toSwitch[r]
           experts == DecodeExpertIds(m.bitmap) \cap ConnectedHosts
<1>1. m \in Message
  BY SlotOfMessage DEF HandleDispatchToken, ReadFromHost
<1>2. NewSlot(experts) \in QueueSlot /\ experts \in Bitmap
  BY DEF NewSlot, QueueSlot, Bitmap, ConnectedHosts, Byte
<1>3. ExpertInput(m) \in Message /\ SwitchAck(m) \in Message
  BY <1>1, SwitchMessageTypes
<1>. QED
  BY <1>1, <1>2, <1>3
  DEF HandleDispatchToken, ReadFromHost, Bitmap, IInv, TypeOK, LinksTypeOK, HostTypeOK, SwitchTypeOK,
      hostVars, queueVars, tokenVars, windowVars, controlVars

LEMMA ReaderHandleTypes ==
  ASSUME NEW excused, NEW lost, IInv(excused, lost),
         NEW r \in Hosts, ReaderHandle(r), UNCHANGED hostVars
  PROVE  TypeOK'
<1> USE DEF ReadFromHost, hostVars, readerVars, queueVars, tokenVars, windowVars, controlVars
<1> DEFINE m == toSwitch[r]
           slot == combineQueue[MakeKey(m)]
<1>1. CASE HandleDispatchToken(r)
  BY <1>1, HandleDispatchTokenTypes
<1>2. CASE HandleExpertResult(r)
  <2>1. /\ Accepts(m) => slot \in QueueSlot
        /\ m.data \in Byte
    BY <1>2, SlotOfMessage DEF HandleExpertResult, Accepts, Message, Header
  <2>2. Accepts(m) => AddResult(slot, m) \in QueueSlot
    BY <2>1, ByteTypes DEF AddResult, QueueSlot, Bitmap
  <2>. QED
    BY <1>2, <2>2 DEF HandleExpertResult, IInv, TypeOK, LinksTypeOK, HostTypeOK, SwitchTypeOK
<1>3. CASE HandlePullReady(r)
  <2>1. m \in Message /\ slot \in QueueSlot
    BY <1>3, SlotOfMessage DEF HandlePullReady, ReadyToCombine
  <2>2. CombineResult(m, slot) \in Message
    BY <2>1, SwitchMessageTypes
  <2>. QED
    BY <1>3, <2>2 DEF HandlePullReady, IInv, TypeOK, LinksTypeOK, HostTypeOK, SwitchTypeOK
<1>4. CASE HandlePullNotReady(r)
  <2>1. NotReady(m) \in Message
    BY <1>4, SlotOfMessage, SwitchMessageTypes DEF HandlePullNotReady
  <2>. QED
    BY <1>4, <2>1 DEF HandlePullNotReady, IInv, TypeOK, LinksTypeOK, HostTypeOK, SwitchTypeOK
<1>5. CASE HandleFinish(r)
  <2>1. SwitchFinish \in Message
    <3>1. m \in Message
      BY <1>5 DEF HandleFinish, IInv, TypeOK, LinksTypeOK
    <3>. QED
      BY <3>1, SwitchMessageTypes
  <2>2. LinksTypeOK' /\ HostTypeOK'
    BY <1>5 DEF HandleFinish, IInv, TypeOK, LinksTypeOK, HostTypeOK
  <2>3. fan' \in [Hosts -> Message \cup {None}] /\ targets' \in [Hosts -> SUBSET Hosts]
    BY <1>5, <2>1 DEF HandleFinish, ConnectedHosts, IInv, TypeOK, SwitchTypeOK
  <2>. QED
    BY <1>5, <2>2, <2>3 DEF HandleFinish, IInv, TypeOK, SwitchTypeOK
<1>6. CASE CloseAll(r)
  BY <1>6 DEF CloseAll, IInv, TypeOK, LinksTypeOK, HostTypeOK, SwitchTypeOK
<1>. QED
  BY <1>1, <1>2, <1>3, <1>4, <1>5, <1>6 DEF ReaderHandle

LEMMA ReaderSendTypes ==
  ASSUME NEW excused, NEW lost, IInv(excused, lost),
         NEW r \in Hosts, ReaderSend(r) \/ ReaderExit(r), UNCHANGED hostVars
  PROVE  TypeOK'
<1> USE DEF WriteToHost, linkVars, hostVars, queueVars, tokenVars, windowVars, controlVars
<1>1. CASE SendFan(r)
  <2>1. fan[r] \in Message
    BY <1>1 DEF SendFan, IInv, TruthfulBut, ReceivePathTruthful
  <2>2. \A t \in Hosts : [fan[r] EXCEPT !.dst = t] \in Message
    BY <2>1, SwitchMessageTypes
  <2>3. PICK t \in Hosts : /\ WriteToHost(t, [fan[r] EXCEPT !.dst = t])
                           /\ targets' = [targets EXCEPT ![r] = @ \ {t}]
    BY <1>1 DEF SendFan, IInv, TypeOK, SwitchTypeOK
  <2>4. toHost' \in [Hosts -> Message \cup {None}]
    BY <2>2, <2>3 DEF IInv, TypeOK, LinksTypeOK
  <2>. QED
    BY <1>1, <2>3, <2>4 DEF SendFan, IInv, TypeOK, LinksTypeOK, HostTypeOK, SwitchTypeOK
<1>2. CASE SendReply(r)
  BY <1>2 DEF SendReply, IInv, TypeOK, LinksTypeOK, HostTypeOK, SwitchTypeOK
<1>3. CASE ReaderExit(r)
  BY <1>3 DEF ReaderExit, IInv, TypeOK, LinksTypeOK, HostTypeOK, SwitchTypeOK
<1>. QED
  BY <1>1, <1>2, <1>3 DEF ReaderSend
-----------------------------------------------------------------------------
(* What a step does not touch stays truthful. *)

LEMMA SendPathFrame ==
  ASSUME SendPathTruthful, UNCHANGED <<workload, combineDone, sendQueue, sending, toSwitch>>
  PROVE  SendPathTruthful'
  BY DEF SendPathTruthful

LEMMA TaskPathFrame ==
  ASSUME TaskPathTruthful, UNCHANGED <<computeQueue, computing>>
  PROVE  TaskPathTruthful'
  BY DEF TaskPathTruthful

LEMMA ReceivePathFrame ==
  ASSUME NEW excused, ReceivePathTruthful(excused),
         UNCHANGED <<workload, combineDone, toHost, reply, fan, targets>>
  PROVE  ReceivePathTruthful(excused)'
  BY DEF ReceivePathTruthful, AllCombined

LEMMA SlotsFrame ==
  ASSUME NEW excused, SlotsTruthful(excused), UNCHANGED <<workload, combineQueue>>
  PROVE  SlotsTruthful(excused)'
  BY DEF SlotsTruthful

LEMMA HostsFrame ==
  ASSUME NEW lost, HostsTruthful(lost),
         UNCHANGED <<workload, windowBase, combineDone, admitting, nextToAdmit, sendFinish,
                     finishedHosts, running>>
  PROVE  HostsTruthful(lost)'
  BY DEF HostsTruthful, AllCombined

LEMMA ValuesFrame ==
  ASSUME NEW excused, ValuesTruthful(excused), UNCHANGED <<workload, combineDone, combinePayload>>
  PROVE  ValuesTruthful(excused)'
  BY DEF ValuesTruthful

\* BlockingQueue::push of a truthful message or task.
LEMMA PushSendTruthful ==
  ASSUME TypeOK, SendPathTruthful, NEW h \in Hosts, NEW m,
         TruthfulToSwitch(h, workload[h], combineDone[h], m),
         sendQueue' = Push(sendQueue, h, m),
         UNCHANGED <<workload, combineDone, sending, toSwitch>>
  PROVE  SendPathTruthful'
<1>1. ASSUME NEW g \in Hosts, NEW n \in 1 .. Len(sendQueue'[g])
      PROVE  TruthfulToSwitch(g, workload[g], combineDone[g], sendQueue'[g][n])
  BY <1>1 DEF SendPathTruthful, TypeOK, HostTypeOK, Push
<1>. QED
  BY <1>1 DEF SendPathTruthful

LEMMA PushTaskTruthful ==
  ASSUME TypeOK, TaskPathTruthful, NEW h \in Hosts, NEW m, TruthfulTask(m),
         computeQueue' = Push(computeQueue, h, m), UNCHANGED computing
  PROVE  TaskPathTruthful'
<1>1. ASSUME NEW g \in Hosts, NEW n \in 1 .. Len(computeQueue'[g])
      PROVE  TruthfulTask(computeQueue'[g][n])
  BY <1>1 DEF TaskPathTruthful, TypeOK, HostTypeOK, Push
<1>. QED
  BY <1>1 DEF TaskPathTruthful

-----------------------------------------------------------------------------
(* Every step keeps every message truthful. *)

LEMMA ControlThreadTruthful ==
  ASSUME NEW excused, NEW lost, IInv(excused, lost),
         NEW h \in Hosts, ControlThread(h) \/ ControlTick(h), UNCHANGED switchVars
  PROVE  TruthfulBut(excused, lost)'
<1> USE DEF switchVars, readerVars, linkVars, queueVars, tokenVars, windowVars, controlVars
<1>1. CASE AdmitToken(h)
  <2>1. nextToAdmit[h] \in Tokens
    BY <1>1 DEF AdmitToken, IInv, TypeOK, HostTypeOK, TruthfulBut, HostsTruthful, CanAdmit, Tokens
  <2>2. TaskPathTruthful'
    <3>1. TruthfulTask(LocalAttention(h, nextToAdmit[h]))
      BY <2>1 DEF TruthfulTask, LocalAttention, TaskType
    <3>. QED
      BY <1>1, <3>1, PushTaskTruthful DEF AdmitToken, IInv, TruthfulBut
  <2>3. HostsTruthful(lost)'
    BY <1>1 DEF AdmitToken, IInv, TruthfulBut, TypeOK, HostTypeOK, HostsTruthful, AllCombined
  <2>. QED
    BY <1>1, <2>2, <2>3, SendPathFrame, ReceivePathFrame, SlotsFrame, ValuesFrame
    DEF AdmitToken, IInv, TruthfulBut
<1>2. CASE ControlTick(h)
  <2>1. PICK base \in windowBase[h] .. NumTokens :
          /\ \A i \in windowBase[h] .. base - 1 : i \in combineDone[h]
          /\ windowBase' = [windowBase EXCEPT ![h] = base]
          /\ admitting' = [admitting EXCEPT ![h] =
                             base # windowBase[h] /\ CanAdmit(nextToAdmit[h], base)]
          /\ sendFinish' = [sendFinish EXCEPT ![h] = ~finishEnqueued[h] /\ base >= NumTokens]
    BY <1>2 DEF ControlTick, SlidesTo
  <2>2. \A i \in Tokens : i < base => i \in combineDone[h]
    BY <2>1 DEF IInv, TruthfulBut, HostsTruthful, TypeOK, HostTypeOK, Tokens
  <2>3. base >= NumTokens => combineDone[h] = Tokens
    <3>1. combineDone[h] \subseteq Tokens /\ windowBase[h] \in Int
      BY DEF IInv, TypeOK, HostTypeOK
    <3>2. base >= NumTokens => \A i \in Tokens : i < base
      BY <3>1 DEF Tokens
    <3>. QED
      BY <2>2, <3>1, <3>2
  <2>4. HostsTruthful(lost)'
    BY <1>2, <2>1, <2>2, <2>3
    DEF ControlTick, IInv, TruthfulBut, TypeOK, HostTypeOK, HostsTruthful, AllCombined
  <2>. QED
    BY <1>2, <2>4, SendPathFrame, TaskPathFrame, ReceivePathFrame, SlotsFrame, ValuesFrame
    DEF ControlTick, IInv, TruthfulBut
<1>3. CASE EnqueuePull(h)
  <2>1. PICK i \in needPull[h] :
          /\ sendQueue' = Push(sendQueue, h, CombinePullReq(h, i))
          /\ UNCHANGED <<linkVars, workload, sending, computeQueue, computing, combineDone>>
    BY <1>3 DEF EnqueuePull
  <2>2. TruthfulToSwitch(h, workload[h], combineDone[h], CombinePullReq(h, i))
    BY <2>1 DEF TruthfulToSwitch, CombinePullReq, IInv, TypeOK, HostTypeOK
  <2>3. SendPathTruthful'
    BY <2>1, <2>2, PushSendTruthful DEF IInv, TruthfulBut
  <2>. QED
    BY <1>3, <2>3, TaskPathFrame, ReceivePathFrame, SlotsFrame, HostsFrame, ValuesFrame
    DEF EnqueuePull, IInv, TruthfulBut
<1>4. CASE EnqueueFinish(h)
  <2>1. TruthfulToSwitch(h, workload[h], combineDone[h], HostFinish(h))
    BY <1>4 DEF EnqueueFinish, TruthfulToSwitch, HostFinish, IInv, TruthfulBut, HostsTruthful
  <2>2. SendPathTruthful'
    BY <1>4, <2>1, PushSendTruthful DEF EnqueueFinish, IInv, TruthfulBut
  <2>3. HostsTruthful(lost)'
    BY <1>4 DEF EnqueueFinish, IInv, TruthfulBut, TypeOK, HostTypeOK, HostsTruthful, AllCombined
  <2>. QED
    BY <1>4, <2>2, <2>3, TaskPathFrame, ReceivePathFrame, SlotsFrame, ValuesFrame
    DEF EnqueueFinish, IInv, TruthfulBut
<1>. QED
  BY <1>1, <1>2, <1>3, <1>4 DEF ControlThread
LEMMA ComputeThreadTruthful ==
  ASSUME NEW excused, NEW lost, IInv(excused, lost),
         NEW h \in Hosts, ComputeThread(h) \/ BackOffExpires(h), UNCHANGED switchVars
  PROVE  TruthfulBut(excused, lost)'
<1> USE DEF switchVars, readerVars, linkVars, queueVars, tokenVars, windowVars, controlVars
<1>1. CASE ComputePop(h)
  <2>1. TaskPathTruthful'
    <3>1. ASSUME NEW g \in Hosts, NEW n \in 1 .. Len(computeQueue'[g])
          PROVE  TruthfulTask(computeQueue'[g][n])
      BY <1>1, <3>1 DEF ComputePop, IInv, TruthfulBut, TypeOK, HostTypeOK, TaskPathTruthful
    <3>2. TruthfulTask(Head(computeQueue[h]))
      BY <1>1 DEF ComputePop, IInv, TruthfulBut, TypeOK, HostTypeOK, TaskPathTruthful
    <3>. QED
      BY <1>1, <3>1, <3>2
      DEF ComputePop, IInv, TruthfulBut, TypeOK, HostTypeOK, TaskPathTruthful
  <2>. QED
    BY <1>1, <2>1, SendPathFrame, ReceivePathFrame, SlotsFrame, HostsFrame, ValuesFrame
    DEF ComputePop, IInv, TruthfulBut
<1>2. CASE ProcessLocalAttention(h)
  <2>1. computing[h].idx \in Tokens
    BY <1>2 DEF ProcessLocalAttention, IInv, TruthfulBut, TaskPathTruthful, TruthfulTask
  <2>2. TruthfulToSwitch(h, workload[h], combineDone[h], DispatchToken(h, computing[h].idx))
    BY <2>1 DEF TruthfulToSwitch, DispatchToken
  <2>3. SendPathTruthful'
    BY <1>2, <2>2, PushSendTruthful DEF ProcessLocalAttention, IInv, TruthfulBut
  <2>4. TaskPathTruthful'
    BY <1>2 DEF ProcessLocalAttention, IInv, TruthfulBut, TypeOK, HostTypeOK, TaskPathTruthful
  <2>. QED
    BY <1>2, <2>3, <2>4, ReceivePathFrame, SlotsFrame, HostsFrame, ValuesFrame
    DEF ProcessLocalAttention, IInv, TruthfulBut
<1>3. CASE ProcessExpertMlp(h)
  <2>1. /\ computing[h] \in Task
        /\ computing[h].idx \in Tokens
        /\ computing[h].data = AttentionByte(computing[h].idx)
    BY <1>3 DEF ProcessExpertMlp, IInv, TruthfulBut, TaskPathTruthful, TruthfulTask, TypeOK, HostTypeOK
  <2>2. TruthfulToSwitch(h, workload[h], combineDone[h], ExpertResult(h, computing[h]))
    BY <2>1 DEF TruthfulToSwitch, ExpertResult, Task, Header
  <2>3. SendPathTruthful'
    BY <1>3, <2>2, PushSendTruthful DEF ProcessExpertMlp, IInv, TruthfulBut
  <2>4. TaskPathTruthful'
    BY <1>3 DEF ProcessExpertMlp, IInv, TruthfulBut, TypeOK, HostTypeOK, TaskPathTruthful
  <2>. QED
    BY <1>3, <2>3, <2>4, ReceivePathFrame, SlotsFrame, HostsFrame, ValuesFrame
    DEF ProcessExpertMlp, IInv, TruthfulBut
<1>4. CASE BackOffExpires(h)
  BY <1>4, SendPathFrame, TaskPathFrame, ReceivePathFrame, SlotsFrame, HostsFrame, ValuesFrame
  DEF BackOffExpires, IInv, TruthfulBut
<1>. QED
  BY <1>1, <1>2, <1>3, <1>4 DEF ComputeThread

LEMMA SendThreadTruthful ==
  ASSUME NEW excused, NEW lost, IInv(excused, lost),
         NEW h \in Hosts, SendThread(h) \/ HostExit(h), UNCHANGED switchVars
  PROVE  TruthfulBut(excused, lost)'
<1> USE DEF switchVars, readerVars, linkVars, hostVars, queueVars, tokenVars, windowVars, controlVars
<1>1. CASE SendPop(h)
  <2>1. SendPathTruthful'
    <3>1. ASSUME NEW g \in Hosts, NEW n \in 1 .. Len(sendQueue'[g])
          PROVE  TruthfulToSwitch(g, workload[g], combineDone[g], sendQueue'[g][n])
      BY <1>1, <3>1 DEF SendPop, IInv, TruthfulBut, TypeOK, HostTypeOK, SendPathTruthful
    <3>2. TruthfulToSwitch(h, workload[h], combineDone[h], Head(sendQueue[h]))
      BY <1>1 DEF SendPop, IInv, TruthfulBut, TypeOK, HostTypeOK, SendPathTruthful
    <3>. QED
      BY <1>1, <3>1, <3>2 DEF SendPop, IInv, TruthfulBut, TypeOK, HostTypeOK, SendPathTruthful
  <2>. QED
    BY <1>1, <2>1, TaskPathFrame, ReceivePathFrame, SlotsFrame, HostsFrame, ValuesFrame
    DEF SendPop, IInv, TruthfulBut
<1>2. CASE SendWrite(h)
  <2>1. SendPathTruthful'
    BY <1>2 DEF SendWrite, WriteToSwitch, IInv, TruthfulBut, TypeOK, LinksTypeOK, HostTypeOK, SendPathTruthful
  <2>. QED
    BY <1>2, <2>1, TaskPathFrame, ReceivePathFrame, SlotsFrame, HostsFrame, ValuesFrame
    DEF SendWrite, WriteToSwitch, IInv, TruthfulBut
<1>3. CASE HostExit(h)
  BY <1>3, SendPathFrame, TaskPathFrame, ReceivePathFrame, SlotsFrame, HostsFrame, ValuesFrame
  DEF HostExit, IInv, TruthfulBut
<1>. QED
  BY <1>1, <1>2, <1>3 DEF SendThread

\* Taking a message out of a host's buffer.
LEMMA ReadReceivePath ==
  ASSUME NEW excused, TypeOK, ReceivePathTruthful(excused), NEW h \in Hosts, NEW type, ReadFromSwitch(h, type),
         UNCHANGED <<workload, combineDone, reply, fan, targets>>
  PROVE  ReceivePathTruthful(excused)'
  BY DEF ReadFromSwitch, ReceivePathTruthful, AllCombined, TypeOK, LinksTypeOK

LEMMA ReadMessageTruthful ==
  ASSUME NEW excused, NEW lost, IInv(excused, lost),
         NEW h \in Hosts, ReadMessage(h), UNCHANGED switchVars
  PROVE  TruthfulBut(excused, lost)'
<1> USE DEF switchVars, readerVars, linkVars, queueVars, tokenVars, windowVars, controlVars
<1>1. CASE RecvAck(h)
  BY <1>1, ReadReceivePath, SendPathFrame, TaskPathFrame, SlotsFrame, HostsFrame, ValuesFrame
  DEF RecvAck, ReadFromSwitch, IInv, TruthfulBut
<1>2. CASE RecvExpertInput(h)
  <2>1. TruthfulTask(toHost[h])
    BY <1>2 DEF RecvExpertInput, ReadFromSwitch, IInv, TruthfulBut, ReceivePathTruthful,
                TruthfulToHost, TruthfulTask, TaskType
  <2>2. TaskPathTruthful'
    BY <1>2, <2>1, PushTaskTruthful DEF RecvExpertInput, IInv, TruthfulBut
  <2>. QED
    BY <1>2, <2>2, ReadReceivePath, SendPathFrame, SlotsFrame, HostsFrame, ValuesFrame
    DEF RecvExpertInput, ReadFromSwitch, IInv, TruthfulBut
<1>3. CASE RecvNotReady(h)
  BY <1>3, ReadReceivePath, SendPathFrame, TaskPathFrame, SlotsFrame, HostsFrame, ValuesFrame
  DEF RecvNotReady, ReadFromSwitch, IInv, TruthfulBut
<1>4. CASE RecvCombineResult(h)
  <2> DEFINE m == toHost[h]
  <2>1. /\ TokenOf(m) = {m.idx} /\ m.idx \in Tokens
        /\ m.data \in Owed(workload[h][m.idx], m.idx, excused)
    BY <1>4 DEF RecvCombineResult, ReadFromSwitch, TokenOf, IInv, TruthfulBut, ReceivePathTruthful,
                TruthfulToHost
  <2>2. \A g \in Hosts : combineDone[g] \subseteq combineDone'[g] /\ combineDone'[g] \subseteq Tokens
    BY <1>4, <2>1 DEF RecvCombineResult, IInv, TypeOK, HostTypeOK
  <2>3. \A g \in Hosts : combineDone[g] = Tokens => combineDone'[g] = Tokens
    BY <2>2
  <2>4. AllCombined => AllCombined'
    BY <2>3 DEF AllCombined
  <2>5. SendPathTruthful'
    <3>1. \A g \in Hosts : \A x : TruthfulToSwitch(g, workload[g], combineDone[g], x)
                               => TruthfulToSwitch(g, workload[g], combineDone'[g], x)
      BY <2>3 DEF TruthfulToSwitch
    <3>. QED
      BY <1>4, <3>1 DEF RecvCombineResult, ReadFromSwitch, IInv, TruthfulBut, SendPathTruthful
  <2>6. ReceivePathTruthful(excused)'
    <3>1. \A chosen, x : TruthfulToHost(chosen, excused, AllCombined, x)
                        => TruthfulToHost(chosen, excused, AllCombined', x)
      BY <2>4 DEF TruthfulToHost
    <3>2. \A x : TruthfulFan(AllCombined, x) => TruthfulFan(AllCombined', x)
      BY <2>4 DEF TruthfulFan
    <3>. QED
      BY <1>4, <3>1, <3>2
      DEF RecvCombineResult, ReadFromSwitch, IInv, TruthfulBut, TypeOK, LinksTypeOK, ReceivePathTruthful
  <2>7. HostsTruthful(lost)'
    BY <1>4, <2>2, <2>3, <2>4 DEF RecvCombineResult, ReadFromSwitch, IInv, TruthfulBut, HostsTruthful
  <2>8. ValuesTruthful(excused)'
    BY <1>4, <2>1 DEF RecvCombineResult, IInv, TruthfulBut, TypeOK, HostTypeOK, ValuesTruthful
  <2>. QED
    BY <1>4, <2>5, <2>6, <2>7, <2>8, TaskPathFrame, SlotsFrame
    DEF RecvCombineResult, ReadFromSwitch, IInv, TruthfulBut
<1>5. CASE RecvFinish(h)
  <2>1. AllCombined
    BY <1>5 DEF RecvFinish, ReadFromSwitch, IInv, TruthfulBut, ReceivePathTruthful, TruthfulToHost
  <2>2. HostsTruthful(lost)'
    BY <1>5, <2>1 DEF RecvFinish, ReadFromSwitch, IInv, TruthfulBut, HostsTruthful, AllCombined
  <2>. QED
    BY <1>5, <2>2, ReadReceivePath, SendPathFrame, TaskPathFrame, SlotsFrame, ValuesFrame
    DEF RecvFinish, ReadFromSwitch, IInv, TruthfulBut
<1>. QED
  BY <1>1, <1>2, <1>3, <1>4, <1>5 DEF ReadMessage
\* Taking a message out of the switch's buffer for a host.
LEMMA ReadSendPath ==
  ASSUME TypeOK, SendPathTruthful, NEW r \in Hosts, NEW type, ReadFromHost(r, type),
         UNCHANGED <<workload, combineDone, sendQueue, sending>>
  PROVE  SendPathTruthful'
  BY DEF ReadFromHost, SendPathTruthful, TypeOK, LinksTypeOK

LEMMA HandleDispatchTokenTruthful ==
  ASSUME NEW excused, NEW lost, IInv(excused, lost),
         NEW r \in Hosts, HandleDispatchToken(r), UNCHANGED hostVars
  PROVE  TruthfulBut(excused, lost)'
<1> USE DEF ReadFromHost, hostVars, readerVars, queueVars, tokenVars, windowVars, controlVars
<1> DEFINE m == toSwitch[r]
           experts == DecodeExpertIds(m.bitmap) \cap ConnectedHosts
<1>1. /\ m \in Message /\ m.idx \in Tokens /\ m.origin = r
      /\ m.bitmap = workload[r][m.idx] /\ m.data = AttentionByte(m.idx)
  BY SlotOfMessage DEF HandleDispatchToken, TruthfulToSwitch
<1>2. workload[r][m.idx] \in Bitmap /\ Cardinality(workload[r][m.idx]) > 0
  BY <1>1 DEF IInv, TypeOK, HostTypeOK, TruthfulBut, HostsTruthful
<1>3. experts = workload[r][m.idx]
  BY <1>1, <1>2, DecodeChosen
<1>4. TruthfulSlot(workload[r], m.idx, excused, NewSlot(experts))
  BY <1>1, <1>2, <1>3, NewSlotTruthful
<1>5. SlotsTruthful(excused)'
  <2>1. MakeKey(m) = <<r, m.idx>>
    BY <1>1 DEF MakeKey
  <2>2. combineQueue' = [combineQueue EXCEPT ![<<r, m.idx>>] = NewSlot(experts)]
    BY <2>1 DEF HandleDispatchToken
  <2>. QED
    BY <1>1, <1>4, <2>2 DEF IInv, TruthfulBut, SlotsTruthful, TypeOK, SwitchTypeOK, CombineKey
<1>6. ReceivePathTruthful(excused)'
  <2>1. ExpertInput(m) \in Message /\ TruthfulFan(AllCombined, ExpertInput(m))
    BY <1>1, SwitchMessageTypes DEF TruthfulFan, ExpertInput, Message, Header
  <2>2. TruthfulToHost(workload[r], excused, AllCombined, SwitchAck(m))
    BY <1>1 DEF TruthfulToHost, SwitchAck, Message, Header
  <2>. QED
    BY <2>1, <2>2 DEF HandleDispatchToken, IInv, TruthfulBut, TypeOK, SwitchTypeOK, ReceivePathTruthful,
                      AllCombined
<1>. QED
  BY <1>5, <1>6, ReadSendPath, TaskPathFrame, HostsFrame, ValuesFrame
  DEF HandleDispatchToken, IInv, TruthfulBut

LEMMA HandleExpertResultTruthful ==
  ASSUME NEW excused, NEW lost, IInv(excused, lost),
         NEW r \in Hosts, HandleExpertResult(r), UNCHANGED hostVars
  PROVE  TruthfulBut(excused, lost)'
<1> USE DEF ReadFromHost, hostVars, readerVars, queueVars, tokenVars, windowVars, controlVars
<1> DEFINE m == toSwitch[r]
           slot == combineQueue[MakeKey(m)]
<1>1. /\ m \in Message /\ m.idx \in Tokens /\ m.origin \in Hosts
      /\ m.data = ExpertByte(AttentionByte(m.idx))
  BY SlotOfMessage DEF HandleExpertResult, TruthfulToSwitch
<1>2. SlotsTruthful(excused)'
  <2>1. CASE Accepts(m)
    <3>1. slot \in QueueSlot /\ TruthfulSlot(workload[m.origin], m.idx, excused, slot)
      BY <2>1, SlotOfMessage DEF HandleExpertResult, Accepts
    <3>2. workload[m.origin][m.idx] \in Bitmap
      BY <1>1 DEF IInv, TypeOK, HostTypeOK
    <3>3. TruthfulSlot(workload[m.origin], m.idx, excused, AddResult(slot, m))
      BY <1>1, <2>1, <3>1, <3>2, AddResultTruthful DEF Accepts
    <3>4. MakeKey(m) = <<m.origin, m.idx>>
      BY DEF MakeKey
    <3>5. combineQueue' = [combineQueue EXCEPT ![<<m.origin, m.idx>>] = AddResult(slot, m)]
      BY <2>1, <3>4 DEF HandleExpertResult
    <3>. QED
      BY <1>1, <3>3, <3>5 DEF IInv, TruthfulBut, SlotsTruthful, TypeOK, SwitchTypeOK, CombineKey
  <2>2. CASE ~Accepts(m)
    BY <2>2, SlotsFrame DEF HandleExpertResult, IInv, TruthfulBut
  <2>. QED
    BY <2>1, <2>2
<1>. QED
  BY <1>2, ReadSendPath, TaskPathFrame, ReceivePathFrame, HostsFrame, ValuesFrame
  DEF HandleExpertResult, IInv, TruthfulBut

LEMMA HandlePullTruthful ==
  ASSUME NEW excused, NEW lost, IInv(excused, lost),
         NEW r \in Hosts, HandlePullReady(r) \/ HandlePullNotReady(r), UNCHANGED hostVars
  PROVE  TruthfulBut(excused, lost)'
<1> USE DEF ReadFromHost, hostVars, readerVars, queueVars, tokenVars, windowVars, controlVars
<1> DEFINE m == toSwitch[r]
           slot == combineQueue[MakeKey(m)]
<1>1. m \in Message /\ m.idx \in Tokens /\ m.origin = r
  BY SlotOfMessage DEF HandlePullReady, HandlePullNotReady, TruthfulToSwitch
<1>2. MakeKey(m) = <<r, m.idx>>
  BY <1>1 DEF MakeKey
<1>3. CASE HandlePullReady(r)
  <2>1. slot \in QueueSlot /\ TruthfulSlot(workload[r], m.idx, excused, slot) /\ slot.ready
    BY <1>1, <1>3, SlotOfMessage DEF HandlePullReady, ReadyToCombine
  <2>2. slot.data \in Owed(workload[r][m.idx], m.idx, excused)
    BY <1>1, <2>1, ReadySlot
  <2>3. TruthfulToHost(workload[r], excused, AllCombined, CombineResult(m, slot))
    BY <1>1, <2>2 DEF TruthfulToHost, CombineResult, Message, Header
  <2>4. ReceivePathTruthful(excused)'
    BY <1>3, <2>3 DEF HandlePullReady, IInv, TruthfulBut, TypeOK, SwitchTypeOK, ReceivePathTruthful,
                      AllCombined
  <2>5. SlotsTruthful(excused)'
    <3>1. combineQueue' = [combineQueue EXCEPT ![<<r, m.idx>>] = None]
      BY <1>2, <1>3 DEF HandlePullReady
    <3>. QED
      BY <1>1, <1>3, <3>1
      DEF HandlePullReady, IInv, TruthfulBut, SlotsTruthful, TypeOK, SwitchTypeOK, CombineKey
  <2>. QED
    BY <1>3, <2>4, <2>5, ReadSendPath, TaskPathFrame, HostsFrame, ValuesFrame
    DEF HandlePullReady, IInv, TruthfulBut
<1>4. CASE HandlePullNotReady(r)
  <2>1. TruthfulToHost(workload[r], excused, AllCombined, NotReady(m))
    BY <1>1 DEF TruthfulToHost, NotReady, Message, Header
  <2>2. ReceivePathTruthful(excused)'
    BY <1>4, <2>1 DEF HandlePullNotReady, IInv, TruthfulBut, TypeOK, SwitchTypeOK, ReceivePathTruthful,
                      AllCombined
  <2>. QED
    BY <1>4, <2>2, ReadSendPath, TaskPathFrame, SlotsFrame, HostsFrame, ValuesFrame
    DEF HandlePullNotReady, IInv, TruthfulBut
<1>. QED
  BY <1>3, <1>4

LEMMA HandleFinishTruthful ==
  ASSUME NEW excused, NEW lost, IInv(excused, lost),
         NEW r \in Hosts, HandleFinish(r), UNCHANGED hostVars
  PROVE  TruthfulBut(excused, lost)'
<1> USE DEF ReadFromHost, hostVars, readerVars, queueVars, tokenVars, windowVars, controlVars
<1>1. combineDone[r] = Tokens
  BY DEF HandleFinish, IInv, TruthfulBut, SendPathTruthful, TruthfulToSwitch
<1>2. HostsTruthful(lost)'
  BY <1>1 DEF HandleFinish, IInv, TruthfulBut, HostsTruthful, AllCombined
<1>3. ReceivePathTruthful(excused)'
  <2>1. CASE AllFinished(finishedHosts')
    <3>1. finishedHosts' = Hosts
      BY <2>1, AllFinishedIsEveryHost DEF HandleFinish, IInv, TypeOK, SwitchTypeOK
    <3>2. AllCombined
      BY <1>1, <3>1 DEF HandleFinish, IInv, TruthfulBut, HostsTruthful, AllCombined
    <3>3. SwitchFinish \in Message
      BY SwitchMessageTypes DEF HandleFinish, IInv, TypeOK, LinksTypeOK
    <3>4. TruthfulFan(AllCombined, SwitchFinish)
      BY <3>2 DEF TruthfulFan, SwitchFinish
    <3>. QED
      BY <2>1, <3>3, <3>4
      DEF HandleFinish, IInv, TruthfulBut, TypeOK, SwitchTypeOK, ReceivePathTruthful, AllCombined
  <2>2. CASE ~AllFinished(finishedHosts')
    BY <2>2, ReceivePathFrame DEF HandleFinish, IInv, TruthfulBut
  <2>. QED
    BY <2>1, <2>2
<1>. QED
  BY <1>2, <1>3, ReadSendPath, TaskPathFrame, SlotsFrame, ValuesFrame
  DEF HandleFinish, IInv, TruthfulBut

LEMMA ReaderSendTruthful ==
  ASSUME NEW excused, NEW lost, IInv(excused, lost),
         NEW r \in Hosts, ReaderSend(r) \/ ReaderExit(r) \/ CloseAll(r), UNCHANGED hostVars
  PROVE  TruthfulBut(excused, lost)'
<1> USE DEF WriteToHost, linkVars, hostVars, readerVars, queueVars, tokenVars, windowVars, controlVars
<1>1. CASE SendFan(r)
  <2>1. PICK t \in targets[r] : /\ toHost' = [toHost EXCEPT ![t] = [fan[r] EXCEPT !.dst = t]]
                               /\ targets' = [targets EXCEPT ![r] = @ \ {t}]
    BY <1>1 DEF SendFan
  <2>2. t \in Hosts /\ fan[r] \in Message /\ TruthfulFan(AllCombined, fan[r])
    BY <2>1 DEF IInv, TypeOK, SwitchTypeOK, TruthfulBut, ReceivePathTruthful
  <2>3. TruthfulToHost(workload[t], excused, AllCombined, [fan[r] EXCEPT !.dst = t])
    BY <2>2 DEF TruthfulToHost, TruthfulFan, Message, Header
  <2>4. ReceivePathTruthful(excused)'
    <3>1. \A g \in Hosts : /\ toHost'[g] = IF g = t THEN [fan[r] EXCEPT !.dst = t] ELSE toHost[g]
                           /\ targets'[g] \subseteq targets[g]
      BY <2>1, <2>2 DEF IInv, TypeOK, LinksTypeOK, SwitchTypeOK
    <3>2. UNCHANGED <<reply, fan, workload, combineDone>>
      BY <1>1 DEF SendFan
    <3>3. AllCombined' <=> AllCombined
      BY <3>2 DEF AllCombined
    <3>. QED
      BY <2>3, <3>1, <3>2, <3>3 DEF IInv, TruthfulBut, ReceivePathTruthful
  <2>. QED
    BY <1>1, <2>4, SendPathFrame, TaskPathFrame, SlotsFrame, HostsFrame, ValuesFrame
    DEF SendFan, IInv, TruthfulBut
<1>2. CASE SendReply(r)
  <2>1. ReceivePathTruthful(excused)'
    BY <1>2 DEF SendReply, IInv, TruthfulBut, TypeOK, LinksTypeOK, SwitchTypeOK, ReceivePathTruthful,
                AllCombined
  <2>. QED
    BY <1>2, <2>1, SendPathFrame, TaskPathFrame, SlotsFrame, HostsFrame, ValuesFrame
    DEF SendReply, IInv, TruthfulBut
<1>3. CASE ReaderExit(r)
  BY <1>3, SendPathFrame, TaskPathFrame, ReceivePathFrame, SlotsFrame, HostsFrame, ValuesFrame
  DEF ReaderExit, IInv, TruthfulBut
<1>4. CASE CloseAll(r)
  <2>1. ReceivePathTruthful(excused)'
    BY <1>4 DEF CloseAll, IInv, TruthfulBut, TypeOK, SwitchTypeOK, ReceivePathTruthful, AllCombined
  <2>. QED
    BY <1>4, <2>1, SendPathFrame, TaskPathFrame, SlotsFrame, HostsFrame, ValuesFrame
    DEF CloseAll, IInv, TruthfulBut
<1>. QED
  BY <1>1, <1>2, <1>3, <1>4 DEF ReaderSend
-----------------------------------------------------------------------------
(* The invariant, and what follows from it *)

LEMMA InitIInv ==
  ASSUME Init, NEW excused, NEW lost
  PROVE  IInv(excused, lost)
<1> USE DEF Init, LinksInit, HostInit, SwitchInit
<1>1. workload \in [Hosts -> [Tokens -> Bitmap]]
  BY DEF MakeWorkload, ChooseTopkBitmap
<1>2. TypeOK
  <2>1. LinksTypeOK
    BY DEF LinksTypeOK
  <2>2. HostTypeOK
    <3>1. \A T : << >> \in Seq(T)
      OBVIOUS
    <3>2. 0 \in Byte /\ 0 \in 0 .. NumTokens
      BY DEF Byte
    <3>3. CanAdmit(0, 0) \in BOOLEAN
      BY DEF CanAdmit
    <3>. QED
      BY <1>1, <3>1, <3>2, <3>3 DEF HostTypeOK
  <2>3. SwitchTypeOK
    BY DEF SwitchTypeOK
  <2>. QED
    BY <2>1, <2>2, <2>3 DEF TypeOK
<1>3. HostsTruthful(lost)
  <2>1. \A h \in Hosts, i \in Tokens : Cardinality(workload[h][i]) > 0
    BY ChosenExperts DEF MakeWorkload
  <2>. QED
    BY <2>1 DEF HostsTruthful, Tokens
<1>4. SendPathTruthful /\ TaskPathTruthful
  BY DEF SendPathTruthful, TaskPathTruthful
<1>5. ReceivePathTruthful(excused) /\ SlotsTruthful(excused) /\ ValuesTruthful(excused)
  BY DEF ReceivePathTruthful, SlotsTruthful, CombineKey, ValuesTruthful
<1>. QED
  BY <1>2, <1>3, <1>4, <1>5 DEF IInv, TruthfulBut

LEMMA StutterIInv ==
  ASSUME NEW excused, NEW lost, IInv(excused, lost), UNCHANGED vars
  PROVE  IInv(excused, lost)'
<1> USE DEF vars, linkVars, hostVars, switchVars, readerVars, queueVars, tokenVars, windowVars, controlVars
<1>1. TypeOK'
  BY DEF IInv, TypeOK, LinksTypeOK, HostTypeOK, SwitchTypeOK
<1>2. TruthfulBut(excused, lost)'
  BY SendPathFrame, TaskPathFrame, ReceivePathFrame, SlotsFrame, HostsFrame, ValuesFrame
  DEF IInv, TruthfulBut
<1>. QED
  BY <1>1, <1>2 DEF IInv

\* A step of a host, with or without its threads' tests of running.
HostTurn(h) == HostStep(h) \/ ControlTick(h) \/ ReadMessage(h)

LEMMA HostStepIInv ==
  ASSUME NEW excused, NEW lost, IInv(excused, lost),
         NEW h \in Hosts, HostTurn(h), UNCHANGED switchVars
  PROVE  IInv(excused, lost)'
<1>1. CASE ControlThread(h) \/ ControlTick(h)
  BY <1>1, ControlThreadTypes, ControlThreadTruthful DEF IInv
<1>2. CASE ComputeThread(h) \/ BackOffExpires(h)
  BY <1>2, ComputeThreadTypes, ComputeThreadTruthful DEF IInv
<1>3. CASE SendThread(h) \/ HostExit(h)
  BY <1>3, SendThreadTypes, SendThreadTruthful DEF IInv
<1>4. CASE ReadMessage(h)
  BY <1>4, ReadMessageTypes, ReadMessageTruthful DEF IInv
<1>. QED
  BY <1>1, <1>2, <1>3, <1>4 DEF HostTurn, HostStep, HostThreads, ReadThread

LEMMA SwitchStepIInv ==
  ASSUME NEW excused, NEW lost, IInv(excused, lost),
         NEW r \in Hosts, SwitchStep(r), UNCHANGED hostVars
  PROVE  IInv(excused, lost)'
<1>1. CASE ReaderHandle(r)
  <2>1. TypeOK'
    BY <1>1, ReaderHandleTypes
  <2>2. TruthfulBut(excused, lost)'
    BY <1>1, HandleDispatchTokenTruthful, HandleExpertResultTruthful, HandlePullTruthful,
       HandleFinishTruthful, ReaderSendTruthful
    DEF ReaderHandle
  <2>. QED
    BY <2>1, <2>2 DEF IInv
<1>2. CASE ReaderSend(r) \/ ReaderExit(r)
  BY <1>2, ReaderSendTypes, ReaderSendTruthful DEF IInv
<1>. QED
  BY <1>1, <1>2 DEF SwitchStep

LEMMA NextIInv ==
  ASSUME NEW excused, NEW lost, IInv(excused, lost), [Next]_vars
  PROVE  IInv(excused, lost)'
  BY StutterIInv, HostStepIInv, SwitchStepIInv DEF Next, HostTurn

\* Every reachable state is well typed and every message, task and slot in
\* it is truthful.
THEOREM Invariance == Spec => []IInv({}, FALSE)
<1>1. Init => IInv({}, FALSE)
  BY InitIInv
<1>2. IInv({}, FALSE) /\ [Next]_vars => IInv({}, FALSE)'
  BY NextIInv
<1>. QED
  BY <1>1, <1>2, PTL DEF Spec

\* No variable ever leaves its type.
THEOREM TypeCorrect == Spec => []TypeOK
<1>1. IInv({}, FALSE) => TypeOK
  BY DEF IInv
<1>. QED
  BY <1>1, Invariance, PTL

\* What every queue, thread, buffer, slot and handler holds agrees with the
\* workload of the token's owner: the strengthening that carries the rest.
THEOREM TruthfulAlways == Spec => []Truthful
<1>1. IInv({}, FALSE) => Truthful
  BY DEF IInv, Truthful
<1>. QED
  BY <1>1, Invariance, PTL

\* Every combined result a host holds is the exact sum over the experts it
\* chose for the token.
THEOREM CombineExactAlways == Spec => []CombineExact
<1>1. IInv({}, FALSE) => CombineExact
  BY OwedExactly DEF IInv, TruthfulBut, ValuesTruthful, CombineExact
<1>. QED
  BY <1>1, Invariance, PTL

-----------------------------------------------------------------------------
(* Refinement: the hosts, the switch and the connections together do what  *)
(* CombineService promises.                                                *)

\* A step that leaves the workload, the results and running alone.
LEMMA StepWithoutService ==
  ASSUME UNCHANGED <<workload, combineDone, combinePayload, running>>
  PROVE  UNCHANGED Service!serviceVars
  BY DEF Service!serviceVars

\* Only a COMBINE_RESULT and a FINISH change what the service shows.
LEMMA HostStepImplements ==
  ASSUME IInv({}, FALSE), NEW h \in Hosts, HostStep(h), UNCHANGED switchVars
  PROVE  [Service!Next]_Service!serviceVars
<1> USE DEF linkVars, hostVars, queueVars, tokenVars, windowVars, controlVars
<1> DEFINE m == toHost[h]
<1>1. CASE running[h] /\ RecvCombineResult(h)
  <2>1. /\ TokenOf(m) = {m.idx} /\ m.idx \in Tokens
        /\ m.data = SumOver(workload[h][m.idx], m.idx)
    BY <1>1, OwedExactly DEF RecvCombineResult, ReadFromSwitch, TokenOf, IInv, TruthfulBut,
                             ReceivePathTruthful, TruthfulToHost
  <2>2. /\ combineDone' = [combineDone EXCEPT ![h] = @ \cup {m.idx}]
        /\ combinePayload' = [combinePayload EXCEPT ![h] = [@ EXCEPT ![m.idx] = m.data]]
        /\ UNCHANGED <<workload, running>>
        /\ h \notin {g \in Hosts : ~running[g]}
    <3>1. combinePayload[h] \in [Tokens -> Byte] /\ combinePayload \in [Hosts -> [Tokens -> Byte]]
      BY DEF IInv, TypeOK, HostTypeOK
    <3>2. [i \in Tokens |-> IF i \in TokenOf(m) THEN m.data ELSE combinePayload[h][i]]
            = [combinePayload[h] EXCEPT ![m.idx] = m.data]
      BY <2>1, <3>1
    <3>. QED
      BY <1>1, <2>1, <3>1, <3>2 DEF RecvCombineResult
  <2>3. CASE m.idx \in combineDone[h]
    <3>1. combinePayload[h][m.idx] = m.data
      BY <2>1, <2>3, OwedExactly DEF IInv, TruthfulBut, ValuesTruthful
    <3>2. UNCHANGED <<workload, combineDone, combinePayload, running>>
      BY <2>1, <2>2, <2>3, <3>1 DEF IInv, TypeOK, HostTypeOK
    <3>. QED
      BY <3>2, StepWithoutService
  <2>4. CASE m.idx \notin combineDone[h]
    <3>1. Service!Combine(h, m.idx)
      BY <2>1, <2>2, <2>4 DEF Service!Combine, IInv, TypeOK, HostTypeOK
    <3>. QED
      BY <2>1, <3>1 DEF Service!Next
  <2>. QED
    BY <2>3, <2>4
<1>2. CASE running[h] /\ RecvFinish(h)
  <2>1. AllCombined /\ running[h]
    BY <1>2 DEF RecvFinish, ReadFromSwitch, IInv, TruthfulBut, ReceivePathTruthful, TruthfulToHost
  <2>2. {g \in Hosts : ~running'[g]} = {g \in Hosts : ~running[g]} \cup {h}
    BY <1>2 DEF RecvFinish, IInv, TypeOK, HostTypeOK
  <2>3. Service!Stop(h)
    BY <1>2, <2>1, <2>2 DEF RecvFinish, AllCombined, Service!Stop
  <2>. QED
    BY <2>3 DEF Service!Next
<1>3. CASE ControlThread(h)
  BY <1>3, StepWithoutService DEF ControlThread, AdmitToken, ControlTick, EnqueuePull, EnqueueFinish
<1>4. CASE ComputeThread(h) \/ BackOffExpires(h)
  BY <1>4, StepWithoutService
  DEF ComputeThread, ComputePop, ProcessLocalAttention, ProcessExpertMlp, BackOffExpires
<1>5. CASE SendThread(h) \/ HostExit(h)
  BY <1>5, StepWithoutService DEF SendThread, SendPop, SendWrite, HostExit
<1>6. CASE RecvAck(h) \/ RecvExpertInput(h) \/ RecvNotReady(h)
  BY <1>6, StepWithoutService DEF RecvAck, RecvExpertInput, RecvNotReady
<1>. QED
  BY <1>1, <1>2, <1>3, <1>4, <1>5, <1>6 DEF HostStep, HostThreads, ReadThread, ReadMessage

LEMMA InitImplements ==
  ASSUME Init
  PROVE  Service!Init
<1>1. {h \in Hosts : ~running[h]} = {}
  BY DEF Init, HostInit
<1>. QED
  BY <1>1 DEF Init, HostInit, Service!Init

LEMMA NextImplements ==
  ASSUME IInv({}, FALSE), [Next]_vars
  PROVE  [Service!Next]_Service!serviceVars
<1>1. ASSUME NEW h \in Hosts, HostStep(h), UNCHANGED switchVars
      PROVE  [Service!Next]_Service!serviceVars
  BY <1>1, HostStepImplements
<1>2. CASE UNCHANGED hostVars
  BY <1>2, StepWithoutService DEF hostVars, tokenVars
<1>. QED
  BY <1>1, <1>2 DEF Next, vars

\* The safety part of the refinement: a token is combined at most once and
\* with the exact sum, and no host stops before every host has every token.
THEOREM Implementation == Spec => ImplementsService
<1>1. Init => Service!Init
  BY InitImplements
<1>2. IInv({}, FALSE) /\ [Next]_vars => [Service!Next]_Service!serviceVars
  BY NextImplements
<1>. QED
  BY <1>1, <1>2, Invariance, PTL DEF Spec, ImplementsService, Service!Spec
=============================================================================
