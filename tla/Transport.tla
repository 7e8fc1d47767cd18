----------------------------- MODULE Transport ------------------------------
(***************************************************************************)
(* One direction of a connection in detail: the threads that send take     *)
(* turns under write_mutex, fill the one send buffer, post it and poll for *)
(* its completion; the adapter moves it into the one receive buffer once   *)
(* that is posted, and retries for ever until then (rnr_retry_count = 7);  *)
(* one thread reads with sr_read or sr_read_for.                           *)
(***************************************************************************)
EXTENDS WireFormat, FiniteSets, SequencesExt

CONSTANTS
  Writers,      \* the threads that send on the connection
  Payloads,     \* the payloads they send, sequences of bytes
  BufSize,      \* buf_size: SR_MAX_MSG_SIZE
  MaxMessages,  \* the number of messages written in a behaviour
  None

ASSUME TransportAssumption ==
  /\ BufSize \in Nat
  /\ MaxMessages \in Nat
  /\ Payloads \subseteq Seq(Byte)
  /\ None \notin Writers

\* What is given to sr_write.
Message ==
  [ header : [ type : Seq(Nat), payload_len : Seq(Nat), global_idx : Seq(Nat) ],
    payload : Seq(Nat) ]

\* What a direction of a connection holds, seen from Links.
LinkMessage == [ type : Seq(Nat), content : Message ]

\* An empty buffer is not taken for a message.
ASSUME NoneAssumption == None \notin LinkMessage

VARIABLES
  holder,      \* the thread that holds write_mutex, or None
  stage,       \* [Writers -> how far the thread is in send_to_host and sr_write]
  writing,     \* [Writers -> the message it is sending, or None]
  sendBuf,     \* send_buf
  sendQueue,   \* lengths of the posted sends that have not been delivered
  unacked,     \* sends delivered whose acknowledgement has not come back
  sendCq,      \* send completions to be polled
  recvPosted,  \* the flag recv_posted
  recvQueue,   \* posted receives, all of them into recv_buf
  recvBuf,     \* recv_buf
  recvCq,      \* byte_len of the receive completions to be polled
  reader,      \* how far the reading thread is in sr_read or sr_read_for
  byteLen,     \* its local byte_len
  sent,        \* history: the messages given to sr_write, in the order of the mutex
  received     \* history: messages that sr_read has returned, in order

writerVars == <<holder, stage, writing, sendBuf, sent>>
sendVars == <<sendQueue, unacked, sendCq>>
recvVars == <<recvPosted, recvQueue, recvBuf, recvCq>>
readerVars == <<reader, byteLen, received>>
vars == <<writerVars, sendVars, recvVars, readerVars>>

\* sizeof(MsgHeader), for the three fields of WireFormat.
HeaderLen == 14

\* The bytes of a length, least significant first.
LengthField(n) == <<n % 256, (n \div 256) % 256, (n \div 65536) % 256, n \div 16777216>>

LengthOf(b) == b[1] + 256 * b[2] + 65536 * b[3] + 16777216 * b[4]

\* The n-th message of the direction.  Its number is in two bytes of
\* global_idx, one in each half.
MessageOf(n, payload) ==
  [ header |-> [ type |-> <<n % 256, 0>>,
                 payload_len |-> LengthField(Len(payload)),
                 global_idx |-> <<n % 256, 0, 0, 0, 0, 255 - (n % 256), 0, 0>> ],
    payload |-> payload ]

\* memcpy: the front of the buffer is overwritten, the rest keeps its bytes.
Overlay(buf, bytes) ==
  [ k \in 1 .. BufSize |-> IF k <= Len(bytes) THEN bytes[k] ELSE buf[k] ]

\* What sr_write puts into send_buf.
WireBytes(m) ==
  LET wire == HeaderToWire(m.header)
  IN  wire.type \o wire.payload_len \o wire.global_idx \o m.payload

\* header_from_wire of the front of recv_buf.
ReceivedHeader(buf) ==
  HeaderFromWire([ type |-> SubSeq(buf, 1, 2),
                   payload_len |-> SubSeq(buf, 3, 6),
                   global_idx |-> SubSeq(buf, 7, 14) ])

\* The message sr_read makes of its buffer.
ReceivedMessage(buf) ==
  [ header |-> ReceivedHeader(buf),
    payload |-> SubSeq(buf, HeaderLen + 1,
                       HeaderLen + LengthOf(ReceivedHeader(buf).payload_len)) ]

Init ==
  /\ holder = None
  /\ stage = [w \in Writers |-> "idle"]
  /\ writing = [w \in Writers |-> None]
  /\ sendBuf = [k \in 1 .. BufSize |-> 0]
  /\ sendQueue = << >>
  /\ unacked = 0
  /\ sendCq = 0
  /\ recvPosted = TRUE
  /\ recvQueue = 1
  /\ recvBuf = [k \in 1 .. BufSize |-> 0]
  /\ recvCq = << >>
  /\ reader = "idle"
  /\ byteLen = 0
  /\ sent = << >>
  /\ received = << >>

-----------------------------------------------------------------------------
(* send_to_host and sr_write *)

\* Seeded fault: write_mutex is not taken.
NoLock == TRUE

\* lock_guard on write_mutex.
LockFree == holder = None

\* The mutex is free, and the message fits into the buffer: it is the next
\* message of this direction.
BeginWrite(w, payload) ==
  /\ stage[w] = "idle"
  /\ LockFree
  /\ Len(sent) < MaxMessages
  /\ HeaderLen + Len(payload) <= BufSize
  /\ holder' = w
  /\ stage' = [stage EXCEPT ![w] = "begun"]
  /\ writing' = [writing EXCEPT ![w] = MessageOf(Len(sent) + 1, payload)]
  /\ sent' = Append(sent, writing'[w])
  /\ UNCHANGED <<sendBuf, sendVars, recvVars, readerVars>>

FillSendBuffer(w) ==
  /\ stage[w] = "begun"
  /\ stage' = [stage EXCEPT ![w] = "filled"]
  /\ sendBuf' = Overlay(sendBuf, WireBytes(writing[w]))
  /\ UNCHANGED <<holder, writing, sent, sendVars, recvVars, readerVars>>

PostSend(w) ==
  /\ stage[w] = "filled"
  /\ stage' = [stage EXCEPT ![w] = "posted"]
  /\ sendQueue' = Append(sendQueue, HeaderLen + Len(writing[w].payload))
  /\ UNCHANGED <<holder, writing, sendBuf, sent, unacked, sendCq, recvVars, readerVars>>

\* Seeded fault: sr_write does not wait for the completion.
NoWait == TRUE

\* What wait_cq on the send queue waits for.
SendCompleted == sendCq > 0

EndWrite(w) ==
  /\ stage[w] = "posted"
  /\ SendCompleted
  /\ sendCq' = sendCq - 1
  /\ stage' = [stage EXCEPT ![w] = "idle"]
  /\ writing' = [writing EXCEPT ![w] = None]
  /\ holder' = None
  /\ UNCHANGED <<sendBuf, sent, sendQueue, unacked, recvVars, readerVars>>

-----------------------------------------------------------------------------
(* The adapters *)

\* The oldest send reads send_buf now, not when it was posted, and lands in
\* recv_buf if a receive is posted.
Deliver ==
  /\ sendQueue # << >> /\ recvQueue > 0
  /\ recvBuf' = Overlay(recvBuf, SubSeq(sendBuf, 1, Head(sendQueue)))
  /\ recvCq' = Append(recvCq, Head(sendQueue))
  /\ recvQueue' = recvQueue - 1
  /\ sendQueue' = Tail(sendQueue)
  /\ unacked' = unacked + 1
  /\ UNCHANGED <<writerVars, sendCq, recvPosted, readerVars>>

\* The acknowledgement arrives; until then the adapter may repeat the send,
\* and the receiver's adapter drops the repetition.
Acknowledge ==
  /\ unacked > 0
  /\ unacked' = unacked - 1
  /\ sendCq' = sendCq + 1
  /\ UNCHANGED <<writerVars, sendQueue, recvVars, readerVars>>

-----------------------------------------------------------------------------
(* sr_read and sr_read_for *)

\* Seeded fault: a receive is posted whether or not one is there.
AlwaysPost == TRUE

\* Whether a read has to post a receive before it polls.
MustPost == ~recvPosted

BeginRead(call) ==
  /\ reader = "idle"
  /\ reader' = call
  /\ IF MustPost
     THEN recvPosted' = TRUE /\ recvQueue' = recvQueue + 1
     ELSE UNCHANGED <<recvPosted, recvQueue>>
  /\ UNCHANGED <<byteLen, received, writerVars, sendVars, recvBuf, recvCq>>

\* A completion is there; recv_posted is cleared.
PollCompletion ==
  /\ reader \in {"sr_read", "sr_read_for"}
  /\ recvCq # << >>
  /\ reader' = "polled"
  /\ byteLen' = Head(recvCq)
  /\ recvCq' = Tail(recvCq)
  /\ recvPosted' = FALSE
  /\ UNCHANGED <<received, writerVars, sendVars, recvQueue, recvBuf>>

\* sr_read_for gives up when there is no completion: its receive stays posted.
ReadTimeout ==
  /\ reader = "sr_read_for"
  /\ recvCq = << >>
  /\ reader' = "idle"
  /\ UNCHANGED <<byteLen, received, writerVars, sendVars, recvVars>>

\* The message is shorter than a header, or than its header says.
Truncated ==
  \/ byteLen < HeaderLen
  \/ byteLen < HeaderLen + LengthOf(ReceivedHeader(recvBuf).payload_len)

\* Copy header and payload out of recv_buf, or fail.
CopyMessage ==
  /\ reader = "polled"
  /\ IF Truncated
     THEN reader' = "failed" /\ UNCHANGED received
     ELSE reader' = "copied" /\ received' = Append(received, ReceivedMessage(recvBuf))
  /\ UNCHANGED <<byteLen, writerVars, sendVars, recvVars>>

\* Seeded fault: the receive for the next message is forgotten.
NotReposted == recvQueue

\* post_recv at the end of a read.
Reposted == recvQueue + 1

\* Post the receive for the next message, and return this one.
EndRead ==
  /\ reader = "copied"
  /\ reader' = "idle"
  /\ recvPosted' = TRUE
  /\ recvQueue' = Reposted
  /\ UNCHANGED <<byteLen, received, writerVars, sendVars, recvBuf, recvCq>>

-----------------------------------------------------------------------------
Write(w) == FillSendBuffer(w) \/ PostSend(w) \/ EndWrite(w)

Adapter == Deliver \/ Acknowledge

Read ==
  \/ \E call \in {"sr_read", "sr_read_for"} : BeginRead(call)
  \/ PollCompletion \/ CopyMessage \/ EndRead

Next ==
  \/ \E w \in Writers : Write(w) \/ \E payload \in Payloads : BeginWrite(w, payload)
  \/ Adapter \/ Read \/ ReadTimeout

Spec == Init /\ [][Next]_vars

\* The writers, the adapters and the reader go on; nobody has to begin a write,
\* and sr_read_for need not time out.
FairSpec == Spec /\ (\A w \in Writers : WF_vars(Write(w))) /\ WF_vars(Adapter) /\ WF_vars(Read)

-----------------------------------------------------------------------------
(* Properties *)

\* What sr_read returns is what was written, byte for byte and in the order of
\* write_mutex: no message is lost, repeated, or mixed with another one or with
\* what is left of it in a buffer, and no read fails.
ReadInOrder == IsPrefix(received, sent) /\ reader # "failed"

\* Both ends use one buffer for all messages, although the queues have room for
\* 16: one receive is posted or not yet read, and at most one send is under
\* way, so the adapters never write to or read from a buffer in use.
OneBufferInUse ==
  /\ recvQueue + Len(recvCq) + (IF reader \in {"polled", "copied", "failed"} THEN 1 ELSE 0) = 1
  /\ Len(sendQueue) + unacked + sendCq <= 1
  /\ \A w \in Writers : stage[w] = "begun" => Len(sendQueue) + unacked + sendCq = 0

\* A header on the wire is big-endian, whatever the width of the field.
WireIsBigEndian ==
  sendQueue # << >> =>
    LET h == Last(sent).header
    IN  SubSeq(sendBuf, 1, HeaderLen)
          = BigEndian(h.type) \o BigEndian(h.payload_len) \o BigEndian(h.global_idx)

\* A message as Links sees it: a record with a type.
AsLinkMessage(m) == [type |-> m.header.type, content |-> m]

\* The message that has arrived and that sr_read has not copied.
Unread ==
  IF recvCq # << >> \/ reader = "polled" THEN AsLinkMessage(ReceivedMessage(recvBuf)) ELSE None

\* A connection of Links with one host.
Link == INSTANCE Links WITH
  NumHosts <- 1, NumTokens <- 1, WindowSize <- 1, TopK <- 1, ByteIndex <- 0,
  toSwitch <- [h \in {0} |-> Unread],
  toHost <- [h \in {0} |-> None],
  hostEnd <- [h \in {0} |-> TRUE],
  switchEnd <- [h \in {0} |-> TRUE]

\* The threads, buffers and completions of this module come to what the models
\* of the hosts and the switch take for granted: a one-message buffer that
\* WriteToSwitch fills, when it is empty, with the next message given to
\* sr_write, and that ReadFromHost empties.
ImplementsLinks ==
  /\ Link!LinksInit
  /\ [][\/ /\ Len(received) < Len(sent)
           /\ Link!WriteToSwitch(0, AsLinkMessage(sent[Len(received) + 1]))
        \/ Link!ReadFromHost(0, Unread.type)]_Unread

\* Every write returns in the end, as long as the peer goes on reading.
WritesReturn == \A w \in Writers : stage[w] # "idle" ~> stage[w] = "idle"
=============================================================================
