--------------------------- MODULE Transport_proof ---------------------------
(***************************************************************************)
(* Proofs about Transport for any number of writers and messages, any      *)
(* payloads and any size of the buffers, and about WireFormat for every    *)
(* header.                                                                 *)
(***************************************************************************)
EXTENDS Transport, SequenceTheorems, TLAPS

USE TransportAssumption

-----------------------------------------------------------------------------
(* The byte order of fields and headers *)

\* A 64-bit field is turned as a whole, although it is turned by halves.
LEMMA HostToNetworkIsBigEndian ==
  ASSUME NEW b \in Field(8)
  PROVE  /\ HostToNetworkU64(b) = <<b[8], b[7], b[6], b[5], b[4], b[3], b[2], b[1]>>
         /\ HostToNetworkU64(b) \in Field(8)
<1>1. HostToNetworkU64(b) = <<b[8], b[7], b[6], b[5], b[4], b[3], b[2], b[1]>>
  BY DEF HostToNetworkU64, Join, Htonl, Lo, Hi
<1>. QED
  BY <1>1 DEF Field

\* What one end turns, the other turns back, whatever the width.
LEMMA FieldRoundTrip ==
  /\ \A b \in Field(2) : Htons(Htons(b)) = b
  /\ \A b \in Field(4) : Htonl(Htonl(b)) = b
  /\ \A b \in Field(8) : NetworkToHostU64(HostToNetworkU64(b)) = b
<1>1. ASSUME NEW b \in Field(2) PROVE Htons(Htons(b)) = b
  BY DEF Field, Htons
<1>2. ASSUME NEW b \in Field(4) PROVE Htonl(Htonl(b)) = b
  BY DEF Field, Htonl
<1>3. ASSUME NEW b \in Field(8) PROVE NetworkToHostU64(HostToNetworkU64(b)) = b
  <2>1. NetworkToHostU64(HostToNetworkU64(b)) = <<b[1], b[2], b[3], b[4], b[5], b[6], b[7], b[8]>>
    <3>1. HostToNetworkU64(b) = <<b[8], b[7], b[6], b[5], b[4], b[3], b[2], b[1]>>
      BY HostToNetworkIsBigEndian
    <3>. QED
      BY <3>1 DEF NetworkToHostU64, Join, Htonl, Lo, Hi
  <2>. QED
    BY <2>1 DEF Field
<1>. QED
  BY <1>1, <1>2, <1>3

\* header_from_wire undoes header_to_wire: the receiver of a message sees every
\* field as the sender has set it.
THEOREM HeaderRoundTrip ==
  ASSUME NEW h \in HeaderFields
  PROVE  HeaderFromWire(HeaderToWire(h)) = h
<1>1. h.type \in Field(2) /\ h.payload_len \in Field(4) /\ h.global_idx \in Field(8)
  BY DEF HeaderFields
<1>2. HeaderFromWire(HeaderToWire(h))
        = [ type |-> h.type, payload_len |-> h.payload_len, global_idx |-> h.global_idx ]
  BY <1>1, FieldRoundTrip DEF HeaderFromWire, HeaderToWire
<1>. QED
  BY <1>2 DEF HeaderFields

-----------------------------------------------------------------------------
(* What the bytes of a message are, and what a reader makes of them *)

\* A concatenation, position by position.
LEMMA Concat ==
  ASSUME NEW a \in Seq(Nat), NEW b \in Seq(Nat)
  PROVE  /\ a \o b \in Seq(Nat)
         /\ Len(a \o b) = Len(a) + Len(b)
         /\ \A k \in Int : 1 <= k /\ k <= Len(a) => (a \o b)[k] = a[k]
         /\ \A k \in Int : Len(a) < k /\ k <= Len(a) + Len(b) => (a \o b)[k] = b[k - Len(a)]
<1>1. a \o b \in Seq(Nat)
  OBVIOUS
<1>2. Len(a \o b) = Len(a) + Len(b)
  OBVIOUS
<1>3. ASSUME NEW k \in Int, 1 <= k, k <= Len(a) PROVE (a \o b)[k] = a[k]
  <2>1. ASSUME NEW j \in 1 .. Len(a) PROVE (a \o b)[j] = a[j]
    OBVIOUS
  <2>2. k \in 1 .. Len(a)
    BY <1>3
  <2>. QED
    BY <2>1, <2>2
<1>4. ASSUME NEW k \in Int, Len(a) < k, k <= Len(a) + Len(b) PROVE (a \o b)[k] = b[k - Len(a)]
  <2>1. ASSUME NEW j \in 1 .. Len(b) PROVE (a \o b)[Len(a) + j] = b[j]
    OBVIOUS
  <2>2. k - Len(a) \in 1 .. Len(b) /\ Len(a) + (k - Len(a)) = k
    BY <1>4
  <2>. QED
    BY <2>1, <2>2
<1>5. \A k \in Int : 1 <= k /\ k <= Len(a) => (a \o b)[k] = a[k]
  BY <1>3, Zenon
<1>6. \A k \in Int : Len(a) < k /\ k <= Len(a) + Len(b) => (a \o b)[k] = b[k - Len(a)]
  BY <1>4, Zenon
<1>. QED
  BY <1>1, <1>2, <1>5, <1>6, Zenon

\* The fields of a header have their widths.
HeaderOk(h) ==
  /\ h.type \in Seq(Nat) /\ Len(h.type) = 2
  /\ h.payload_len \in Seq(Nat) /\ Len(h.payload_len) = 4
  /\ h.global_idx \in Seq(Nat) /\ Len(h.global_idx) = 8
  /\ h = [ type |-> h.type, payload_len |-> h.payload_len, global_idx |-> h.global_idx ]

\* The header as sr_write lays it out.
Turned(h) == HeaderToWire(h).type \o HeaderToWire(h).payload_len \o HeaderToWire(h).global_idx

\* Each field lies at its place with its most significant byte first.
LEMMA TurnedHeader ==
  ASSUME NEW h, HeaderOk(h)
  PROVE  /\ Turned(h) \in Seq(Nat) /\ Len(Turned(h)) = HeaderLen
         /\ \A k \in 1 .. 2 : Turned(h)[k] = h.type[3 - k]
         /\ \A k \in 1 .. 4 : Turned(h)[2 + k] = h.payload_len[5 - k]
         /\ \A k \in 1 .. 8 : Turned(h)[6 + k] = h.global_idx[9 - k]
<1> DEFINE a == HeaderToWire(h).type
           b == HeaderToWire(h).payload_len
           c == HeaderToWire(h).global_idx
<1>1. /\ a \in Seq(Nat) /\ Len(a) = 2
      /\ \A k \in 1 .. 2 : a[k] = h.type[3 - k]
  BY DEF HeaderOk, HeaderToWire, Htons
<1>2. /\ b \in Seq(Nat) /\ Len(b) = 4
      /\ \A k \in 1 .. 4 : b[k] = h.payload_len[5 - k]
  BY SMTT(30) DEF HeaderOk, HeaderToWire, Htonl
<1>3. /\ c \in Seq(Nat) /\ Len(c) = 8
      /\ \A k \in 1 .. 8 : c[k] = h.global_idx[9 - k]
  <2> DEFINE g == h.global_idx
  <2>1. c = <<g[8], g[7], g[6], g[5], g[4], g[3], g[2], g[1]>>
    BY DEF HeaderToWire, HostToNetworkU64, Htonl, Join, Lo, Hi
  <2>2. g \in Seq(Nat) /\ Len(g) = 8
    BY DEF HeaderOk
  <2> HIDE DEF g, c
  <2>3. \A k \in 1 .. 8 : g[k] \in Nat
    BY <2>2, ElementOfSeq
  <2>4. c \in Seq(Nat) /\ Len(c) = 8
    BY <2>1, <2>3
  <2>5. \A k \in 1 .. 8 : c[k] = g[9 - k]
    BY <2>1
  <2>. QED
    BY <2>4, <2>5 DEF g
<1> HIDE DEF a, b, c
<1> DEFINE ab == a \o b
           s == ab \o c
<1>4. /\ ab \in Seq(Nat) /\ Len(ab) = 6
      /\ \A k \in Int : 1 <= k /\ k <= 2 => ab[k] = a[k]
      /\ \A k \in Int : 2 < k /\ k <= 6 => ab[k] = b[k - 2]
  <2> HIDE DEF ab
  <2>1. /\ ab \in Seq(Nat) /\ Len(ab) = Len(a) + Len(b)
        /\ \A k \in Int : 1 <= k /\ k <= Len(a) => ab[k] = a[k]
        /\ \A k \in Int : Len(a) < k /\ k <= Len(a) + Len(b)
             => ab[k] = b[k - Len(a)]
    BY <1>1, <1>2, Concat, Zenon DEF ab
  <2>. QED
    BY <1>1, <1>2, <2>1
<1> HIDE DEF ab
<1>5. /\ s \in Seq(Nat) /\ Len(s) = 14
      /\ \A k \in Int : 1 <= k /\ k <= 6 => s[k] = ab[k]
      /\ \A k \in Int : 6 < k /\ k <= 14 => s[k] = c[k - 6]
  <2> HIDE DEF s
  <2>1. /\ s \in Seq(Nat) /\ Len(s) = Len(ab) + Len(c)
        /\ \A k \in Int : 1 <= k /\ k <= Len(ab) => s[k] = ab[k]
        /\ \A k \in Int : Len(ab) < k /\ k <= Len(ab) + Len(c)
             => s[k] = c[k - Len(ab)]
    BY <1>3, <1>4, Concat, Zenon DEF s
  <2>. QED
    BY <1>3, <1>4, <2>1
<1> HIDE DEF s
<1>6. \A k \in 1 .. 2 : s[k] = h.type[3 - k]
  BY <1>1, <1>4, <1>5
<1>7. \A k \in 1 .. 4 : s[2 + k] = h.payload_len[5 - k]
  <2>. TAKE k \in 1 .. 4
  <2>1. 2 + k \in Int /\ 2 < 2 + k /\ 2 + k <= 6 /\ (2 + k) - 2 = k
    OBVIOUS
  <2>2. s[2 + k] = ab[2 + k]
    BY <1>5
  <2>3. ab[2 + k] = b[k]
    BY <1>4, <2>1
  <2>. QED
    BY <1>2, <2>2, <2>3
<1>8. \A k \in 1 .. 8 : s[6 + k] = h.global_idx[9 - k]
  <2>. TAKE k \in 1 .. 8
  <2>1. 6 + k \in Int /\ 6 < 6 + k /\ 6 + k <= 14 /\ (6 + k) - 6 = k
    OBVIOUS
  <2>2. s[6 + k] = c[(6 + k) - 6]
    BY <1>5, <2>1
  <2>. QED
    BY <1>3, <2>1, <2>2
<1>. QED
  BY <1>5, <1>6, <1>7, <1>8 DEF Turned, s, ab, a, b, c, HeaderLen

\* The length that sr_write posts.
WireLength(m) == HeaderLen + Len(m.payload)

\* The front of a buffer is that message as sr_write lays it out.
Holds(buf, m) == \A k \in 1 .. WireLength(m) : buf[k] = WireBytes(m)[k]

\* A message whose header tells its length, and that fits into a buffer.
MessageOk(m) ==
  /\ HeaderOk(m.header)
  /\ m.payload \in Seq(Nat)
  /\ m = [header |-> m.header, payload |-> m.payload]
  /\ LengthOf(m.header.payload_len) = Len(m.payload)
  /\ WireLength(m) <= BufSize

\* The header comes first, the payload behind it.
LEMMA MessageBytes ==
  ASSUME NEW m, MessageOk(m)
  PROVE  /\ WireBytes(m) \in Seq(Nat) /\ Len(WireBytes(m)) = WireLength(m)
         /\ \A k \in 1 .. 14 : WireBytes(m)[k] = Turned(m.header)[k]
         /\ \A k \in 1 .. Len(m.payload) : WireBytes(m)[14 + k] = m.payload[k]
<1> DEFINE t == Turned(m.header)
           p == m.payload
           s == t \o p
<1>1. /\ t \in Seq(Nat) /\ Len(t) = 14 /\ p \in Seq(Nat) /\ Len(p) \in Nat
  BY TurnedHeader, LenProperties DEF MessageOk, HeaderLen
<1>2. s = WireBytes(m)
  BY DEF WireBytes, Turned
<1>3. WireLength(m) = 14 + Len(p)
  BY DEF WireLength, HeaderLen
<1> HIDE DEF t, p
<1>4. /\ s \in Seq(Nat) /\ Len(s) = Len(t) + Len(p)
      /\ \A k \in Int : 1 <= k /\ k <= Len(t) => s[k] = t[k]
      /\ \A k \in Int : Len(t) < k /\ k <= Len(t) + Len(p) => s[k] = p[k - Len(t)]
  <2> HIDE DEF s
  <2>. QED
    BY <1>1, Concat, Zenon DEF s
<1> HIDE DEF s
<1>5. \A k \in 1 .. 14 : s[k] = t[k]
  BY <1>1, <1>4
<1>6. ASSUME NEW k \in 1 .. Len(p) PROVE s[14 + k] = p[k]
  <2>1. 14 + k \in Int /\ 14 < 14 + k /\ 14 + k <= 14 + Len(p) /\ (14 + k) - 14 = k
    BY <1>1
  <2>. QED
    BY <1>1, <1>4, <2>1
<1>. QED
  BY <1>1, <1>2, <1>3, <1>4, <1>5, <1>6 DEF t, p

\* send_buf and recv_buf.
Buffer == [1 .. BufSize -> Nat]

\* The front of a buffer as a sequence.
LEMMA PartOfBuffer ==
  ASSUME NEW buf \in Buffer, NEW i \in Nat, NEW j \in Nat,
         1 <= i, i <= j + 1, j <= BufSize
  PROVE  /\ SubSeq(buf, i, j) \in Seq(Nat)
         /\ Len(SubSeq(buf, i, j)) = j - i + 1
         /\ \A k \in 1 .. j - i + 1 : SubSeq(buf, i, j)[k] = buf[i + k - 1]
<1>1. \A k \in i .. j : buf[k] \in Nat
  BY DEF Buffer
<1>. QED
  BY <1>1, SubSeqProperties

\* memcpy to the front of a buffer.
LEMMA OverlayProperties ==
  ASSUME NEW buf \in Buffer, NEW bytes \in Seq(Nat), Len(bytes) <= BufSize
  PROVE  /\ Overlay(buf, bytes) \in Buffer
         /\ \A k \in 1 .. Len(bytes) : Overlay(buf, bytes)[k] = bytes[k]
<1>1. Len(bytes) \in Nat /\ \A k \in 1 .. Len(bytes) : bytes[k] \in Nat
  BY LenProperties, ElementOfSeq
<1>2. \A k \in 1 .. BufSize : k <= Len(bytes) => k \in 1 .. Len(bytes)
  BY <1>1
<1>3. \A k \in 1 .. Len(bytes) : k \in 1 .. BufSize /\ k <= Len(bytes)
  BY <1>1
<1>. QED
  BY <1>1, <1>2, <1>3 DEF Buffer, Overlay

\* FillSendBuffer puts the message into the buffer.
LEMMA Filled ==
  ASSUME NEW m, MessageOk(m), NEW buf \in Buffer
  PROVE  /\ Overlay(buf, WireBytes(m)) \in Buffer
         /\ Holds(Overlay(buf, WireBytes(m)), m)
<1>1. WireBytes(m) \in Seq(Nat) /\ Len(WireBytes(m)) = WireLength(m) /\ WireLength(m) <= BufSize
  BY MessageBytes DEF MessageOk
<1>. QED
  BY <1>1, OverlayProperties DEF Holds

\* A message is as long as sr_write says, and fits.
LEMMA LengthOfWire ==
  ASSUME NEW m, MessageOk(m)
  PROVE  /\ Len(m.payload) \in Nat /\ WireLength(m) = 14 + Len(m.payload)
         /\ WireLength(m) \in Nat /\ WireLength(m) <= BufSize
<1>1. Len(m.payload) \in Nat
  BY LenProperties DEF MessageOk
<1>. QED
  BY <1>1 DEF MessageOk, WireLength, HeaderLen

\* The adapters copy the message from one buffer to the other.
LEMMA Delivered ==
  ASSUME NEW m, MessageOk(m), NEW from \in Buffer, Holds(from, m), NEW to \in Buffer
  PROVE  /\ Overlay(to, SubSeq(from, 1, WireLength(m))) \in Buffer
         /\ Holds(Overlay(to, SubSeq(from, 1, WireLength(m))), m)
<1> DEFINE n == WireLength(m)
           bytes == SubSeq(from, 1, n)
<1>1. n \in Nat /\ n <= BufSize
  BY LengthOfWire
<1>2. \A k \in 1 .. n : from[k] = WireBytes(m)[k]
  BY DEF Holds
<1> HIDE DEF n
<1>3. bytes \in Seq(Nat) /\ Len(bytes) = n /\ \A k \in 1 .. n : bytes[k] = from[k]
  <2>1. /\ bytes \in Seq(Nat) /\ Len(bytes) = n - 1 + 1
        /\ \A k \in 1 .. n - 1 + 1 : bytes[k] = from[1 + k - 1]
    <3>1. 1 \in Nat /\ 1 <= 1 /\ 1 <= n + 1
      BY <1>1
    <3>. QED
      BY <1>1, <3>1, PartOfBuffer, ZenonT(30)
  <2>. QED
    BY <2>1, <1>1
<1> HIDE DEF bytes
<1>4. /\ Overlay(to, bytes) \in Buffer
      /\ \A k \in 1 .. n : Overlay(to, bytes)[k] = WireBytes(m)[k]
  BY <1>1, <1>2, <1>3, OverlayProperties
<1>. QED
  BY <1>4 DEF Holds, bytes, n


\* header_from_wire of the front of a buffer that holds a message, and the
\* payload of the length that is found there.
LEMMA ReadBack ==
  ASSUME NEW m, MessageOk(m), NEW buf \in Buffer, Holds(buf, m)
  PROVE  ReceivedMessage(buf) = m
<1> DEFINE h == m.header
           p == m.payload
<1>1. /\ h.type \in Seq(Nat) /\ Len(h.type) = 2
      /\ h.payload_len \in Seq(Nat) /\ Len(h.payload_len) = 4
      /\ h.global_idx \in Seq(Nat) /\ Len(h.global_idx) = 8
  BY DEF MessageOk, HeaderOk
<1>2. Len(p) \in Nat /\ 14 + Len(p) <= BufSize /\ WireLength(m) = 14 + Len(p)
  BY LengthOfWire
<1>3. /\ \A k \in 1 .. 14 : buf[k] = Turned(h)[k]
      /\ \A k \in 1 .. Len(p) : buf[14 + k] = p[k]
  <2>1. \A k \in 1 .. 14 + Len(p) : buf[k] = WireBytes(m)[k]
    BY <1>2 DEF Holds
  <2>2. \A k \in 1 .. 14 : k \in 1 .. 14 + Len(p)
    BY <1>2
  <2>3. \A k \in 1 .. Len(p) : 14 + k \in 1 .. 14 + Len(p)
    BY <1>2
  <2> DEFINE s == WireBytes(m)
             t == Turned(h)
  <2>4. /\ \A k \in 1 .. 14 : s[k] = t[k]
        /\ \A k \in 1 .. Len(p) : s[14 + k] = p[k]
    BY MessageBytes
  <2> HIDE DEF s, t
  <2>5. \A k \in 1 .. 14 + Len(p) : buf[k] = s[k]
    BY <2>1 DEF s
  <2>6. /\ \A k \in 1 .. 14 : buf[k] = t[k]
        /\ \A k \in 1 .. Len(p) : buf[14 + k] = p[k]
    BY <2>2, <2>3, <2>4, <2>5
  <2>. QED
    BY <2>6 DEF t
<1>4. /\ buf[1] = h.type[2] /\ buf[2] = h.type[1]
      /\ buf[3] = h.payload_len[4] /\ buf[4] = h.payload_len[3]
      /\ buf[5] = h.payload_len[2] /\ buf[6] = h.payload_len[1]
      /\ buf[7] = h.global_idx[8] /\ buf[8] = h.global_idx[7]
      /\ buf[9] = h.global_idx[6] /\ buf[10] = h.global_idx[5]
      /\ buf[11] = h.global_idx[4] /\ buf[12] = h.global_idx[3]
      /\ buf[13] = h.global_idx[2] /\ buf[14] = h.global_idx[1]
  <2> DEFINE t == Turned(h)
  <2>1. /\ \A k \in 1 .. 2 : t[k] = h.type[3 - k]
        /\ \A k \in 1 .. 4 : t[2 + k] = h.payload_len[5 - k]
        /\ \A k \in 1 .. 8 : t[6 + k] = h.global_idx[9 - k]
    BY TurnedHeader DEF MessageOk
  <2> HIDE DEF t, h
  <2>2. /\ t[1] = h.type[3 - 1] /\ t[2] = h.type[3 - 2]
        /\ t[2 + 1] = h.payload_len[5 - 1] /\ t[2 + 2] = h.payload_len[5 - 2]
        /\ t[2 + 3] = h.payload_len[5 - 3] /\ t[2 + 4] = h.payload_len[5 - 4]
    BY <2>1
  <2>3. /\ t[6 + 1] = h.global_idx[9 - 1] /\ t[6 + 2] = h.global_idx[9 - 2]
        /\ t[6 + 3] = h.global_idx[9 - 3] /\ t[6 + 4] = h.global_idx[9 - 4]
        /\ t[6 + 5] = h.global_idx[9 - 5] /\ t[6 + 6] = h.global_idx[9 - 6]
        /\ t[6 + 7] = h.global_idx[9 - 7] /\ t[6 + 8] = h.global_idx[9 - 8]
    BY <2>1
  <2>4. \A k \in 1 .. 14 : buf[k] = t[k]
    BY <1>3 DEF t
  <2>. QED
    BY <2>2, <2>3, <2>4
<1> HIDE DEF h, p
<1>5. ReceivedHeader(buf)
        = [ type |-> <<buf[2], buf[1]>>,
            payload_len |-> <<buf[6], buf[5], buf[4], buf[3]>>,
            global_idx |-> << buf[14], buf[13], buf[12], buf[11], buf[10], buf[9], buf[8], buf[7] >> ]
  <2> DEFINE a == SubSeq(buf, 1, 2)
             b == SubSeq(buf, 3, 6)
             c == SubSeq(buf, 7, 14)
  <2>1. a[1] = buf[1] /\ a[2] = buf[2]
    BY <1>2, PartOfBuffer
  <2>2. b[1] = buf[3] /\ b[2] = buf[4] /\ b[3] = buf[5] /\ b[4] = buf[6]
    BY <1>2, PartOfBuffer
  <2>3. /\ c[1] = buf[7] /\ c[2] = buf[8] /\ c[3] = buf[9] /\ c[4] = buf[10]
        /\ c[5] = buf[11] /\ c[6] = buf[12] /\ c[7] = buf[13] /\ c[8] = buf[14]
    BY <1>2, PartOfBuffer
  <2>4. ReceivedHeader(buf)
          = [ type |-> Htons(a), payload_len |-> Htonl(b), global_idx |-> NetworkToHostU64(c) ]
    BY DEF ReceivedHeader, HeaderFromWire
  <2> HIDE DEF a, b, c
  <2>5. Htons(a) = <<buf[2], buf[1]>> /\ Htonl(b) = <<buf[6], buf[5], buf[4], buf[3]>>
    BY <2>1, <2>2 DEF Htons, Htonl
  <2>6. NetworkToHostU64(c)
          = << buf[14], buf[13], buf[12], buf[11], buf[10], buf[9], buf[8], buf[7] >>
    BY <2>3 DEF NetworkToHostU64, Join, Htonl, Lo, Hi
  <2>. QED
    BY <2>4, <2>5, <2>6
<1>6. ReceivedHeader(buf) = h
  <2>1. h.type = <<h.type[1], h.type[2]>>
    BY <1>1
  <2>2. h.payload_len
          = <<h.payload_len[1], h.payload_len[2], h.payload_len[3], h.payload_len[4]>>
    BY <1>1
  <2>3. h.global_idx
          = << h.global_idx[1], h.global_idx[2], h.global_idx[3], h.global_idx[4],
               h.global_idx[5], h.global_idx[6], h.global_idx[7], h.global_idx[8] >>
    <3> DEFINE g == h.global_idx
               t == <<g[1], g[2], g[3], g[4], g[5], g[6], g[7], g[8]>>
    <3>1. g \in Seq(Nat) /\ Len(g) = 8
      BY <1>1
    <3> HIDE DEF g
    <3>2. \A k \in 1 .. 8 : g[k] \in Nat
      BY <3>1, ElementOfSeq
    <3>3. t \in Seq(Nat) /\ Len(t) = 8
      BY <3>2
    <3>4. \A k \in 1 .. 8 : g[k] = t[k]
      OBVIOUS
    <3> HIDE DEF t
    <3>. QED
      BY <3>1, <3>3, <3>4, SeqEqual DEF g, t
  <2>4. h = [ type |-> h.type, payload_len |-> h.payload_len, global_idx |-> h.global_idx ]
    BY DEF h, MessageOk, HeaderOk
  <2>. QED
    BY <1>4, <1>5, <2>1, <2>2, <2>3, <2>4
<1>7. SubSeq(buf, 15, 14 + Len(p)) = p
  <2> DEFINE q == SubSeq(buf, 15, 14 + Len(p))
  <2>1. /\ q \in Seq(Nat) /\ Len(q) = (14 + Len(p)) - 15 + 1
        /\ \A k \in 1 .. (14 + Len(p)) - 15 + 1 : q[k] = buf[15 + k - 1]
    <3>1. /\ 15 \in Nat /\ 14 + Len(p) \in Nat /\ 1 <= 15
          /\ 15 <= (14 + Len(p)) + 1 /\ 14 + Len(p) <= BufSize
      BY <1>2
    <3>. QED
      BY <3>1, PartOfBuffer, ZenonT(30)
  <2> HIDE DEF q
  <2>2. Len(q) = Len(p) /\ \A k \in 1 .. Len(p) : q[k] = p[k]
    <3>1. (14 + Len(p)) - 15 + 1 = Len(p) /\ \A k \in 1 .. Len(p) : 15 + k - 1 = 14 + k
      BY <1>2
    <3>. QED
      BY <1>3, <2>1, <3>1
  <2>3. p \in Seq(Nat)
    BY DEF p, MessageOk
  <2>. QED
    BY <2>1, <2>2, <2>3, SeqEqual DEF q
<1>8. LengthOf(h.payload_len) = Len(p) /\ m = [header |-> h, payload |-> p]
  BY DEF MessageOk, h, p
<1>. QED
  BY <1>6, <1>7, <1>8 DEF ReceivedMessage, HeaderLen

\* The bytes of a length make it up again.
LEMMA LengthRoundTrip ==
  ASSUME NEW n \in Nat
  PROVE  /\ LengthOf(LengthField(n)) = n
         /\ LengthField(n) \in Seq(Nat) /\ Len(LengthField(n)) = 4
<1> DEFINE b == n \div 256
           c == n \div 65536
           d == n \div 16777216
<1>1. b \in Nat /\ c \in Nat /\ d \in Nat
  OBVIOUS
<1>2. n % 256 = n - 256 * b /\ n % 256 \in Nat
  OBVIOUS
<1>3. b % 256 = b - 256 * c /\ b % 256 \in Nat
  <2>1. b \div 256 = c
    OBVIOUS
  <2> HIDE DEF b
  <2>2. b % 256 = b - 256 * (b \div 256) /\ b % 256 \in Nat
    BY <1>1
  <2>. QED
    BY <2>1, <2>2
<1>4. c % 256 = c - 256 * d /\ c % 256 \in Nat
  <2>1. c \div 256 = d
    OBVIOUS
  <2> HIDE DEF c
  <2>2. c % 256 = c - 256 * (c \div 256) /\ c % 256 \in Nat
    BY <1>1
  <2>. QED
    BY <2>1, <2>2
<1>5. LengthField(n) = <<n % 256, b % 256, c % 256, d>>
  BY DEF LengthField
<1> HIDE DEF b, c, d
<1>6. LengthOf(LengthField(n)) = (n % 256) + 256 * (b % 256) + 65536 * (c % 256) + 16777216 * d
  BY <1>5 DEF LengthOf
<1>7. LengthOf(LengthField(n)) = n
  <2>1. 256 * (b % 256) = 256 * b - 65536 * c
    BY <1>1, <1>3
  <2>2. 65536 * (c % 256) = 65536 * c - 16777216 * d
    BY <1>1, <1>4
  <2>. QED
    BY <1>1, <1>2, <1>6, <2>1, <2>2
<1>. QED
  BY <1>1, <1>2, <1>3, <1>4, <1>5, <1>7

\* What BeginWrite makes of a payload that fits is a message.
LEMMA MessageOfIsOk ==
  ASSUME NEW n \in Nat, NEW payload \in Payloads, HeaderLen + Len(payload) <= BufSize
  PROVE  MessageOk(MessageOf(n, payload))
<1> DEFINE m == MessageOf(n, payload)
           h == m.header
<1>1. payload \in Seq(Nat) /\ Len(payload) \in Nat
  <2>1. Byte \subseteq Nat
    BY DEF Byte
  <2>. QED
    BY <2>1, SeqMonotonic, LenProperties
<1>2. /\ h.type = <<n % 256, 0>>
      /\ h.payload_len = LengthField(Len(payload))
      /\ h.global_idx = <<n % 256, 0, 0, 0, 0, 255 - (n % 256), 0, 0>>
      /\ h = [ type |-> h.type, payload_len |-> h.payload_len, global_idx |-> h.global_idx ]
      /\ m = [ header |-> h, payload |-> m.payload ] /\ m.payload = payload
  BY DEF MessageOf
<1>3. n % 256 \in Nat /\ 255 - (n % 256) \in Nat
  OBVIOUS
<1> HIDE DEF m, h
<1>4. h.type \in Seq(Nat) /\ Len(h.type) = 2
  BY <1>2, <1>3
<1>5. h.payload_len \in Seq(Nat) /\ Len(h.payload_len) = 4 /\ LengthOf(h.payload_len) = Len(payload)
  <2>1. /\ LengthOf(LengthField(Len(payload))) = Len(payload)
        /\ LengthField(Len(payload)) \in Seq(Nat) /\ Len(LengthField(Len(payload))) = 4
    BY <1>1, LengthRoundTrip, Zenon
  <2>. QED
    BY <1>2, <2>1
<1>6. h.global_idx \in Seq(Nat) /\ Len(h.global_idx) = 8
  BY <1>2, <1>3
<1>7. HeaderOk(h)
  BY <1>2, <1>4, <1>5, <1>6 DEF HeaderOk
<1>. QED
  BY <1>1, <1>2, <1>5, <1>7 DEF MessageOk, WireLength, h, m

\* The messages that can be sent.
Sendable == { m \in Message : MessageOk(m) }

LEMMA OkIsSendable ==
  ASSUME NEW m
  PROVE  MessageOk(m) <=> m \in Sendable
<1>1. ASSUME MessageOk(m) PROVE m \in Message
  <2>1. m.header \in [ type : Seq(Nat), payload_len : Seq(Nat), global_idx : Seq(Nat) ]
    BY <1>1 DEF MessageOk, HeaderOk
  <2>. QED
    BY <1>1, <2>1 DEF MessageOk, Message
<1>. QED
  BY <1>1 DEF Sendable

\* A message seen from Links is not an empty buffer.
LEMMA MessageIsNotNone ==
  ASSUME NEW m \in Sendable
  PROVE  AsLinkMessage(m) # None
<1>1. AsLinkMessage(m) \in LinkMessage
  BY DEF Sendable, AsLinkMessage, LinkMessage, Message
<1>. QED
  BY <1>1, NoneAssumption

\* What is on the wire is big-endian.
LEMMA OnTheWire ==
  ASSUME NEW m, MessageOk(m), NEW buf \in Buffer, Holds(buf, m)
  PROVE  SubSeq(buf, 1, HeaderLen)
           = BigEndian(m.header.type) \o BigEndian(m.header.payload_len)
               \o BigEndian(m.header.global_idx)
<1> DEFINE h == m.header
<1>1. HeaderOk(h)
  BY DEF MessageOk
<1>2. BigEndian(h.type) = HeaderToWire(h).type
  BY <1>1 DEF HeaderOk, BigEndian, HeaderToWire, Htons
<1>3. BigEndian(h.payload_len) = HeaderToWire(h).payload_len
  BY <1>1 DEF HeaderOk, BigEndian, HeaderToWire, Htonl
<1>4. BigEndian(h.global_idx) = HeaderToWire(h).global_idx
  <2> DEFINE g == h.global_idx
  <2>1. Len(g) = 8
    BY <1>1 DEF HeaderOk
  <2>2. HeaderToWire(h).global_idx = <<g[8], g[7], g[6], g[5], g[4], g[3], g[2], g[1]>>
    BY DEF HeaderToWire, HostToNetworkU64, Htonl, Join, Lo, Hi
  <2>3. BigEndian(g) = [k \in 1 .. 8 |-> g[8 + 1 - k]]
    BY <2>1 DEF BigEndian
  <2> HIDE DEF g
  <2>4. [k \in 1 .. 8 |-> g[8 + 1 - k]] = <<g[8], g[7], g[6], g[5], g[4], g[3], g[2], g[1]>>
    OBVIOUS
  <2>. QED
    BY <2>2, <2>3, <2>4 DEF g
<1>5. /\ Turned(h) \in Seq(Nat) /\ Len(Turned(h)) = 14
      /\ \A k \in 1 .. 14 : WireBytes(m)[k] = Turned(h)[k]
  BY <1>1, TurnedHeader, MessageBytes DEF HeaderLen
<1>6. Len(m.payload) \in Nat /\ WireLength(m) = 14 + Len(m.payload) /\ WireLength(m) <= BufSize
  BY LengthOfWire
<1>7. /\ SubSeq(buf, 1, 14) \in Seq(Nat) /\ Len(SubSeq(buf, 1, 14)) = 14
      /\ \A k \in 1 .. 14 : SubSeq(buf, 1, 14)[k] = buf[k]
  <2>1. 1 \in Nat /\ 14 \in Nat /\ 1 <= 1 /\ 1 <= 14 + 1 /\ 14 <= BufSize
    BY <1>6
  <2>2. /\ SubSeq(buf, 1, 14) \in Seq(Nat) /\ Len(SubSeq(buf, 1, 14)) = 14 - 1 + 1
        /\ \A k \in 1 .. 14 - 1 + 1 : SubSeq(buf, 1, 14)[k] = buf[1 + k - 1]
    BY <2>1, PartOfBuffer, ZenonT(30)
  <2>. QED
    BY <2>2
<1>8. \A k \in 1 .. 14 : buf[k] = WireBytes(m)[k]
  <2>1. \A k \in 1 .. 14 : k \in 1 .. WireLength(m)
    BY <1>6
  <2>. QED
    BY <2>1, Zenon DEF Holds
<1>9. SubSeq(buf, 1, 14) = Turned(h)
  <2> DEFINE q == SubSeq(buf, 1, 14)
             t == Turned(h)
  <2>1. /\ t \in Seq(Nat) /\ Len(t) = 14 /\ q \in Seq(Nat) /\ Len(q) = 14
        /\ \A k \in 1 .. 14 : q[k] = t[k]
    BY <1>5, <1>7, <1>8
  <2> HIDE DEF q, t
  <2>2. q = t
    BY <2>1, SeqEqual
  <2>. QED
    BY <2>2 DEF q, t
<1>. QED
  BY <1>2, <1>3, <1>4, <1>9 DEF Turned, HeaderLen

-----------------------------------------------------------------------------
(* One buffer *)

\* Sends that have been posted and not been polled.
UnderWay == Len(sendQueue) + unacked + sendCq

ReaderState == { "idle", "sr_read", "sr_read_for", "polled", "copied", "failed" }

Types ==
  /\ holder \in Writers \cup {None}
  /\ stage \in [Writers -> {"idle", "begun", "filled", "posted"}]
  /\ \A w \in Writers : stage[w] # "idle" => Len(writing[w].payload) \in Nat
  /\ DOMAIN writing = Writers
  /\ sendQueue \in Seq(Nat) /\ unacked \in Nat /\ sendCq \in Nat
  /\ recvPosted \in BOOLEAN /\ recvQueue \in Nat /\ recvCq \in Seq(Nat)
  /\ reader \in ReaderState

\* The holder of write_mutex is the one thread inside sr_write, and a send is
\* under way exactly while it polls.
SendExact ==
  /\ \A w \in Writers : stage[w] # "idle" <=> holder = w
  /\ \A w \in Writers : stage[w] = "posted" => UnderWay = 1
  /\ (\A w \in Writers : stage[w] # "posted") => UnderWay = 0

\* recv_posted says whether the receive buffer is with the adapter.
RecvExact ==
  IF reader \in {"polled", "copied", "failed"}
  THEN recvQueue + Len(recvCq) = 0 /\ ~recvPosted
  ELSE recvQueue + Len(recvCq) = 1 /\ recvPosted

IInv == Types /\ SendExact /\ RecvExact

LEMMA InitHolds == Init => IInv
<1>. SUFFICES ASSUME Init PROVE IInv
  OBVIOUS
<1>1. << >> \in Seq(Nat) /\ Len(<< >>) = 0
  OBVIOUS
<1>2. Types
  BY <1>1 DEF Init, Types, ReaderState
<1>3. SendExact
  BY <1>1 DEF Init, SendExact, UnderWay
<1>4. RecvExact
  BY <1>1 DEF Init, RecvExact
<1>. QED
  BY <1>2, <1>3, <1>4 DEF IInv

\* The steps of a writer.
LEMMA WriterStep ==
  ASSUME IInv, NEW w \in Writers,
         Write(w) \/ \E payload \in Payloads : BeginWrite(w, payload)
  PROVE  IInv'
<1>. USE DEF IInv, Types
<1>1. ASSUME NEW payload \in Payloads, BeginWrite(w, payload) PROVE IInv'
  <2>1. Len(payload) \in Nat
    OBVIOUS
  <2>2. writing' = [writing EXCEPT ![w] = MessageOf(Len(sent) + 1, payload)]
    BY <1>1 DEF BeginWrite
  <2>3. writing'[w].payload = payload /\ \A v \in Writers \ {w} : writing'[v] = writing[v]
    BY <2>2 DEF MessageOf
  <2>4. DOMAIN writing' = Writers
    BY <2>2
  <2>5. \A v \in Writers : stage'[v] # "idle" => Len(writing'[v].payload) \in Nat
    BY <1>1, <2>1, <2>3 DEF BeginWrite
  <2>6. Types'
    BY <1>1, <2>4, <2>5 DEF BeginWrite, sendVars, recvVars, readerVars
  <2>7. SendExact'
    BY <1>1 DEF BeginWrite, LockFree, SendExact, UnderWay, sendVars
  <2>. QED
    BY <1>1, <2>6, <2>7 DEF BeginWrite, RecvExact, recvVars, readerVars
<1>2. CASE FillSendBuffer(w)
  BY <1>2 DEF FillSendBuffer, SendExact, UnderWay, RecvExact, sendVars, recvVars, readerVars
<1>3. CASE PostSend(w)
  <2>1. HeaderLen + Len(writing[w].payload) \in Nat
    BY <1>3 DEF PostSend, HeaderLen
  <2>2. /\ Append(sendQueue, HeaderLen + Len(writing[w].payload)) \in Seq(Nat)
        /\ Len(Append(sendQueue, HeaderLen + Len(writing[w].payload))) = Len(sendQueue) + 1
    BY <2>1
  <2>3. \A v \in Writers : stage[v] # "posted"
    BY <1>3 DEF PostSend, SendExact
  <2>4. Types'
    BY <1>3, <2>2 DEF PostSend, recvVars, readerVars
  <2>5. UnderWay = 0 /\ UnderWay' = 1
    <3>1. UnderWay = 0
      BY <2>3 DEF SendExact
    <3>2. Len(sendQueue') = Len(sendQueue) + 1 /\ unacked' = unacked /\ sendCq' = sendCq
      BY <1>3, <2>2 DEF PostSend
    <3>. QED
      BY <3>1, <3>2 DEF UnderWay
  <2>6. SendExact'
    BY <1>3, <2>5 DEF PostSend, SendExact
  <2>7. RecvExact'
    BY <1>3 DEF PostSend, RecvExact, recvVars, readerVars
  <2>. QED
    BY <2>4, <2>6, <2>7
<1>4. CASE EndWrite(w)
  BY <1>4 DEF EndWrite, SendCompleted, SendExact, UnderWay, RecvExact, recvVars, readerVars
<1>. QED
  BY <1>1, <1>2, <1>3, <1>4 DEF Write

\* The steps of the adapters.
LEMMA AdapterStep ==
  ASSUME IInv, Adapter
  PROVE  IInv'
<1>. USE DEF IInv, Types
<1>1. CASE Deliver
  <2>1. /\ Head(sendQueue) \in Nat /\ Tail(sendQueue) \in Seq(Nat)
        /\ Len(Tail(sendQueue)) = Len(sendQueue) - 1
    BY <1>1 DEF Deliver
  <2>2. /\ Append(recvCq, Head(sendQueue)) \in Seq(Nat)
        /\ Len(Append(recvCq, Head(sendQueue))) = Len(recvCq) + 1
    BY <2>1
  <2>3. Types'
    BY <1>1, <2>1, <2>2 DEF Deliver, writerVars, readerVars
  <2>4. UnderWay' = UnderWay /\ recvQueue' + Len(recvCq') = recvQueue + Len(recvCq)
    BY <1>1, <2>1, <2>2 DEF Deliver, UnderWay
  <2>. QED
    BY <1>1, <2>3, <2>4 DEF Deliver, SendExact, RecvExact, writerVars, readerVars
<1>2. CASE Acknowledge
  BY <1>2 DEF Acknowledge, SendExact, UnderWay, RecvExact, writerVars, recvVars, readerVars
<1>. QED
  BY <1>1, <1>2 DEF Adapter

\* The steps of the reader.
LEMMA ReaderStep ==
  ASSUME IInv, Read \/ ReadTimeout
  PROVE  IInv'
<1>. USE DEF IInv, Types, ReaderState
<1>1. ASSUME NEW call \in {"sr_read", "sr_read_for"}, BeginRead(call) PROVE IInv'
  BY <1>1 DEF BeginRead, MustPost, SendExact, UnderWay, RecvExact, writerVars, sendVars
<1>2. CASE PollCompletion
  <2>1. Tail(recvCq) \in Seq(Nat) /\ Len(Tail(recvCq)) = Len(recvCq) - 1
    BY <1>2 DEF PollCompletion
  <2>2. Len(recvCq) \in Nat \ {0}
    BY <1>2 DEF PollCompletion
  <2>3. Types'
    BY <1>2, <2>1 DEF PollCompletion, writerVars, sendVars
  <2>4. SendExact'
    BY <1>2 DEF PollCompletion, SendExact, UnderWay, writerVars, sendVars
  <2>5. RecvExact'
    BY <1>2, <2>1, <2>2 DEF PollCompletion, RecvExact
  <2>. QED
    BY <2>3, <2>4, <2>5
<1>3. CASE CopyMessage \/ ReadTimeout
  BY <1>3 DEF CopyMessage, ReadTimeout, SendExact, UnderWay, RecvExact, writerVars, sendVars, recvVars
<1>4. CASE EndRead
  BY <1>4 DEF EndRead, Reposted, SendExact, UnderWay, RecvExact, writerVars, sendVars
<1>. QED
  BY <1>1, <1>2, <1>3, <1>4 DEF Read

THEOREM Inductive == Spec => []IInv
<1>1. IInv /\ UNCHANGED vars => IInv'
  BY DEF IInv, Types, SendExact, UnderWay, RecvExact, vars, writerVars, sendVars, recvVars, readerVars
<1>2. IInv /\ [Next]_vars => IInv'
  BY <1>1, WriterStep, AdapterStep, ReaderStep DEF Next
<1>. QED
  BY <1>2, InitHolds, PTL DEF Spec

\* Each end uses its one buffer for one message at a time (send_buf under
\* write_mutex, recv_buf by recv_posted).
THEOREM OneBufferInUseAlways == Spec => []OneBufferInUse
<1>1. IInv => OneBufferInUse
  <2>. SUFFICES ASSUME IInv PROVE OneBufferInUse
    OBVIOUS
  <2>1. UnderWay <= 1
    BY DEF IInv, SendExact
  <2>2. \A w \in Writers : stage[w] = "begun" => UnderWay = 0
    BY DEF IInv, SendExact
  <2>. QED
    BY <2>1, <2>2 DEF IInv, Types, RecvExact, OneBufferInUse, UnderWay
<1>. QED
  BY <1>1, Inductive, PTL

-----------------------------------------------------------------------------
(* What is in the buffers *)

\* Messages given to sr_write that the adapter has not delivered.
Unsent == IF \E w \in Writers : stage[w] \in {"begun", "filled"} THEN 1 ELSE Len(sendQueue)

\* Messages delivered that sr_read has not copied.
Arrived == Len(recvCq) + (IF reader = "polled" THEN 1 ELSE 0)

\* The message that the reader gets next.
NextMessage == sent[Len(received) + 1]

BuffersTyped ==
  /\ sent \in Seq(Sendable) /\ received \in Seq(Sendable)
  /\ sendBuf \in Buffer /\ recvBuf \in Buffer

\* A thread inside sr_write is sending the last message of all.
WritesLast ==
  \A w \in Writers : stage[w] # "idle" => writing[w] = Last(sent)

\* From FillSendBuffer to the delivery, send_buf holds the last message.
SendBufExact ==
  /\ \A w \in Writers : stage[w] = "filled" => Holds(sendBuf, Last(sent))
  /\ sendQueue # << >> =>
       Holds(sendBuf, Last(sent)) /\ Head(sendQueue) = WireLength(Last(sent))

\* Every message is where it can be read, or on its way there.
NoneLost == Len(sent) = Len(received) + Arrived + Unsent

\* From the delivery until it is copied, recv_buf holds the next message.
RecvBufExact ==
  /\ recvCq # << >> => Holds(recvBuf, NextMessage) /\ Head(recvCq) = WireLength(NextMessage)
  /\ reader = "polled" => Holds(recvBuf, NextMessage) /\ byteLen = WireLength(NextMessage)

ReadExact ==
  /\ \A k \in 1 .. Len(received) : received[k] = sent[k]
  /\ reader # "failed"

Contents == BuffersTyped /\ WritesLast /\ SendBufExact /\ NoneLost /\ RecvBufExact /\ ReadExact

\* What SendExact and RecvExact say of these numbers.
LEMMA Numbers ==
  ASSUME IInv, Contents
  PROVE  /\ Len(sent) \in Nat /\ Len(received) \in Nat
         /\ Len(sendQueue) \in Nat /\ Len(recvCq) \in Nat /\ Arrived \in Nat /\ Unsent \in Nat
         /\ sendQueue # << >> => Len(sendQueue) = 1 /\ Unsent = 1
         /\ \A w \in Writers : stage[w] \in {"begun", "filled"} =>
              Len(sendQueue) = 0 /\ Unsent = 1
         /\ (\A w \in Writers : stage[w] \notin {"begun", "filled"}) => Unsent = Len(sendQueue)
         /\ Arrived # 0 => NextMessage \in Sendable /\ Len(received) < Len(sent)
         /\ Unsent # 0 => Last(sent) \in Sendable /\ Len(sent) > 0
<1>1. Len(sent) \in Nat /\ Len(received) \in Nat
  BY LenProperties DEF Contents, BuffersTyped
<1>2. Len(sendQueue) \in Nat /\ Len(recvCq) \in Nat /\ unacked \in Nat /\ sendCq \in Nat
  BY LenProperties DEF IInv, Types
<1>3. sendQueue # << >> => Len(sendQueue) # 0
  BY <1>2, EmptySeq DEF IInv, Types
<1>4. UnderWay <= 1 /\ Len(sendQueue) <= UnderWay
  BY <1>2 DEF IInv, SendExact, UnderWay
<1>5. ASSUME NEW w \in Writers, stage[w] \in {"begun", "filled"}
      PROVE  Len(sendQueue) = 0 /\ Unsent = 1
  <2>1. \A v \in Writers : stage[v] # "posted"
    BY <1>5 DEF IInv, SendExact
  <2>2. UnderWay = 0
    BY <2>1 DEF IInv, SendExact
  <2>. QED
    BY <1>2, <1>4, <1>5, <2>2 DEF Unsent
<1>6. Arrived \in Nat /\ Unsent \in Nat
  BY <1>2 DEF Arrived, Unsent
<1>7. (\A w \in Writers : stage[w] \notin {"begun", "filled"}) => Unsent = Len(sendQueue)
  BY DEF Unsent
<1>8. sendQueue # << >> => Len(sendQueue) = 1 /\ Unsent = 1
  <2>1. sendQueue # << >> => Len(sendQueue) = 1
    BY <1>2, <1>3, <1>4 DEF UnderWay
  <2>2. (\E w \in Writers : stage[w] \in {"begun", "filled"}) => Unsent = 1
    BY DEF Unsent
  <2>. QED
    BY <1>7, <2>1, <2>2
<1>9. Len(sent) = Len(received) + Arrived + Unsent
  BY DEF Contents, NoneLost
<1>10. Arrived # 0 => NextMessage \in Sendable /\ Len(received) < Len(sent)
  <2>. SUFFICES ASSUME Arrived # 0 PROVE NextMessage \in Sendable /\ Len(received) < Len(sent)
    OBVIOUS
  <2>1. Len(received) + 1 \in 1 .. Len(sent) /\ Len(received) < Len(sent)
    BY <1>1, <1>6, <1>9
  <2>. QED
    BY <2>1, ElementOfSeq DEF Contents, BuffersTyped, NextMessage
<1>11. Unsent # 0 => Last(sent) \in Sendable /\ Len(sent) > 0
  <2>. SUFFICES ASSUME Unsent # 0 PROVE Last(sent) \in Sendable /\ Len(sent) > 0
    OBVIOUS
  <2>1. Len(sent) \in 1 .. Len(sent) /\ Len(sent) > 0
    BY <1>1, <1>6, <1>9
  <2>. QED
    BY <2>1, ElementOfSeq DEF Contents, BuffersTyped, Last
<1>. QED
  BY <1>1, <1>2, <1>5, <1>6, <1>7, <1>8, <1>10, <1>11

LEMMA InitContents == Init => Contents
<1>. SUFFICES ASSUME Init PROVE Contents
  OBVIOUS
<1>1. << >> \in Seq(Sendable) /\ Len(<< >>) = 0
  BY EmptySeq
<1>2. BuffersTyped
  BY <1>1 DEF Init, BuffersTyped, Buffer
<1>3. WritesLast /\ SendBufExact /\ RecvBufExact
  BY DEF Init, WritesLast, SendBufExact, RecvBufExact
<1>4. NoneLost
  BY <1>1 DEF Init, NoneLost, Arrived, Unsent
<1>5. ReadExact
  BY <1>1 DEF Init, ReadExact
<1>. QED
  BY <1>2, <1>3, <1>4, <1>5 DEF Contents

\* Arrived and Unsent are functions of what they count.
LEMMA SameArrived ==
  ASSUME UNCHANGED <<recvCq, reader>>
  PROVE  Arrived' = Arrived
  BY DEF Arrived

\* What has arrived stays where it is when a further message is sent.
LEMMA ReceiveSideStays ==
  ASSUME IInv, Contents, UNCHANGED <<recvVars, readerVars>>,
         sent' = sent \/ \E m \in Sendable : sent' = Append(sent, m)
  PROVE  /\ RecvBufExact' /\ ReadExact' /\ Arrived' = Arrived
         /\ \A k \in 1 .. Len(sent) : sent'[k] = sent[k]
         /\ sent' \in Seq(Sendable)
<1>1. Len(sent) \in Nat /\ Len(received) \in Nat /\ Arrived \in Nat /\ Unsent \in Nat
  BY Numbers
<1>2. sent' \in Seq(Sendable) /\ \A k \in 1 .. Len(sent) : sent'[k] = sent[k]
  <2>1. sent \in Seq(Sendable)
    BY DEF Contents, BuffersTyped
  <2>2. ASSUME NEW m \in Sendable
        PROVE  /\ Append(sent, m) \in Seq(Sendable)
               /\ \A k \in 1 .. Len(sent) : Append(sent, m)[k] = sent[k]
    BY <2>1, AppendProperties
  <2>. QED
    BY <2>1, <2>2
<1>3. Arrived' = Arrived
  BY SameArrived DEF recvVars, readerVars
<1>4. Len(received) <= Len(sent)
  BY <1>1 DEF Contents, NoneLost
<1>5. Arrived # 0 => NextMessage' = NextMessage
  <2>. SUFFICES ASSUME Arrived # 0 PROVE NextMessage' = NextMessage
    OBVIOUS
  <2>1. Len(received) + 1 \in 1 .. Len(sent)
    BY <1>1, Numbers
  <2>. QED
    BY <1>2, <2>1 DEF NextMessage, readerVars
<1>6. recvCq # << >> \/ reader = "polled" => Arrived # 0
  <2>1. recvCq # << >> => Len(recvCq) \in Nat \ {0}
    BY EmptySeq DEF IInv, Types
  <2>2. Len(recvCq) \in Nat
    BY Numbers
  <2>. QED
    BY <2>1, <2>2 DEF Arrived
<1>7. RecvBufExact'
  BY <1>5, <1>6 DEF Contents, RecvBufExact, recvVars, readerVars, Holds
<1>8. ReadExact'
  <2>1. \A k \in 1 .. Len(received) : k \in 1 .. Len(sent)
    BY <1>1, <1>4
  <2>. QED
    BY <1>2, <2>1 DEF Contents, ReadExact, readerVars
<1>. QED
  BY <1>2, <1>3, <1>7, <1>8

\* The steps of a writer.
LEMMA WriterContents ==
  ASSUME IInv, Contents, NEW w \in Writers,
         Write(w) \/ \E payload \in Payloads : BeginWrite(w, payload)
  PROVE  Contents'
<1>. USE DEF IInv, Types
<1>1. ASSUME NEW payload \in Payloads, BeginWrite(w, payload) PROVE Contents'
  <2> DEFINE m == MessageOf(Len(sent) + 1, payload)
  <2>1. Len(sent) \in Nat /\ Len(received) \in Nat /\ Arrived \in Nat
    BY Numbers
  <2>2. m \in Sendable
    BY <1>1, <2>1, MessageOfIsOk, OkIsSendable DEF BeginWrite
  <2> HIDE DEF m
  <2>3. /\ writing' = [writing EXCEPT ![w] = m] /\ sent' = Append(sent, writing'[w])
        /\ stage' = [stage EXCEPT ![w] = "begun"] /\ UNCHANGED sendVars
    BY <1>1 DEF BeginWrite, m
  <2>4. writing'[w] = m /\ sent' = Append(sent, m)
    BY <2>3
  <2>5. /\ RecvBufExact' /\ ReadExact' /\ Arrived' = Arrived
        /\ sent' \in Seq(Sendable)
    BY <1>1, <2>2, <2>4, ReceiveSideStays DEF BeginWrite
  <2>6. Last(sent') = m /\ Len(sent') = Len(sent) + 1
    BY <2>2, <2>4, AppendProperties DEF Contents, BuffersTyped, Last
  <2>7. \A v \in Writers : stage[v] = "idle"
    BY <1>1 DEF BeginWrite, LockFree, SendExact
  <2>8. Unsent = 0 /\ sendQueue = << >>
    BY <2>7, Numbers DEF SendExact, UnderWay
  <2>9. stage'[w] = "begun" /\ \A v \in Writers \ {w} : stage'[v] = "idle"
    BY <2>3, <2>7
  <2>10. Unsent' = 1
    BY <2>9 DEF Unsent
  <2>11. NoneLost'
    BY <1>1, <2>1, <2>5, <2>6, <2>8, <2>10 DEF BeginWrite, readerVars, Contents, NoneLost
  <2>12. WritesLast'
    BY <2>4, <2>6, <2>9 DEF WritesLast
  <2>13. SendBufExact'
    BY <2>3, <2>8, <2>9 DEF SendBufExact, sendVars
  <2>14. BuffersTyped'
    BY <1>1, <2>5 DEF BeginWrite, Contents, BuffersTyped, recvVars, readerVars
  <2>. QED
    BY <2>5, <2>11, <2>12, <2>13, <2>14 DEF Contents
<1>2. CASE FillSendBuffer(w)
  <2>1. /\ Unsent = 1 /\ Len(sendQueue) = 0 /\ Last(sent) \in Sendable
        /\ (sendQueue # << >> => Len(sendQueue) = 1)
    BY <1>2, Numbers DEF FillSendBuffer
  <2>2. writing[w] = Last(sent)
    BY <1>2 DEF FillSendBuffer, Contents, WritesLast
  <2>3. sendBuf' \in Buffer /\ Holds(sendBuf', Last(sent))
    BY <1>2, <2>1, <2>2, Filled, OkIsSendable DEF FillSendBuffer, Contents, BuffersTyped
  <2>4. /\ RecvBufExact' /\ ReadExact' /\ Arrived' = Arrived
    BY <1>2, ReceiveSideStays DEF FillSendBuffer
  <2>5. stage'[w] = "filled" /\ Unsent' = 1
    BY <1>2 DEF FillSendBuffer, Unsent
  <2>6. NoneLost'
    BY <1>2, <2>1, <2>4, <2>5 DEF FillSendBuffer, readerVars, Contents, NoneLost
  <2>7. WritesLast'
    BY <1>2 DEF FillSendBuffer, Contents, WritesLast
  <2>8. SendBufExact'
    BY <1>2, <2>1, <2>3 DEF FillSendBuffer, sendVars, SendBufExact
  <2>9. BuffersTyped'
    BY <1>2, <2>3 DEF FillSendBuffer, Contents, BuffersTyped, recvVars, readerVars
  <2>. QED
    BY <2>4, <2>6, <2>7, <2>8, <2>9 DEF Contents
<1>3. CASE PostSend(w)
  <2> DEFINE n == HeaderLen + Len(writing[w].payload)
  <2>1. /\ Unsent = 1 /\ Len(sendQueue) = 0 /\ Last(sent) \in Sendable
        /\ (sendQueue # << >> => Len(sendQueue) = 1)
    BY <1>3, Numbers DEF PostSend
  <2>2. writing[w] = Last(sent) /\ n = WireLength(Last(sent)) /\ Holds(sendBuf, Last(sent))
    BY <1>3 DEF PostSend, Contents, WritesLast, SendBufExact, WireLength
  <2>3. sendQueue' = <<n>>
    BY <1>3, <2>1 DEF PostSend
  <2> HIDE DEF n
  <2>4. Len(sendQueue') = 1 /\ Head(sendQueue') = n
    BY <2>3
  <2>5. \A v \in Writers : stage[v] # "idle" => v = w
    BY <1>3 DEF PostSend, SendExact
  <2>6. stage'[w] = "posted" /\ \A v \in Writers \ {w} : stage'[v] = "idle"
    BY <1>3, <2>5 DEF PostSend
  <2>7. Unsent' = 1
    BY <2>4, <2>6 DEF Unsent
  <2>8. RecvBufExact' /\ ReadExact' /\ Arrived' = Arrived
    BY <1>3, ReceiveSideStays DEF PostSend
  <2>9. NoneLost'
    BY <1>3, <2>1, <2>7, <2>8 DEF PostSend, readerVars, Contents, NoneLost
  <2>10. WritesLast'
    BY <1>3 DEF PostSend, Contents, WritesLast
  <2>11. SendBufExact'
    BY <1>3, <2>2, <2>4, <2>6 DEF PostSend, SendBufExact
  <2>12. BuffersTyped'
    BY <1>3 DEF PostSend, Contents, BuffersTyped, recvVars, readerVars
  <2>. QED
    BY <2>8, <2>9, <2>10, <2>11, <2>12 DEF Contents
<1>4. CASE EndWrite(w)
  <2>1. \A v \in Writers : stage[v] # "idle" => v = w
    BY <1>4 DEF EndWrite, SendExact
  <2>2. stage[w] = "posted" /\ \A v \in Writers : stage'[v] = "idle"
    BY <1>4, <2>1 DEF EndWrite
  <2>3. UnderWay = 1 /\ sendCq > 0 /\ Len(sendQueue) \in Nat
    BY <1>4, Numbers DEF EndWrite, SendCompleted, SendExact
  <2>4. Len(sendQueue) = 0
    BY <2>3 DEF UnderWay
  <2>5. sendQueue = << >>
    BY <2>4, Numbers
  <2>6. \A v \in Writers : stage[v] \notin {"begun", "filled"}
    BY <2>1, <2>2
  <2>7. Unsent = 0 /\ Unsent' = 0
    BY <1>4, <2>2, <2>4, <2>6 DEF Unsent, EndWrite
  <2>8. RecvBufExact' /\ ReadExact' /\ Arrived' = Arrived
    BY <1>4, ReceiveSideStays DEF EndWrite
  <2>9. NoneLost'
    BY <1>4, <2>7, <2>8 DEF EndWrite, readerVars, Contents, NoneLost
  <2>10. WritesLast' /\ SendBufExact'
    BY <1>4, <2>2, <2>5 DEF EndWrite, WritesLast, SendBufExact
  <2>11. BuffersTyped'
    BY <1>4 DEF EndWrite, Contents, BuffersTyped, recvVars, readerVars
  <2>. QED
    BY <2>8, <2>9, <2>10, <2>11 DEF Contents
<1>. QED
  BY <1>1, <1>2, <1>3, <1>4 DEF Write

\* What has been posted stays where it is while the reader goes on.
LEMMA SendSideStays ==
  ASSUME Contents, UNCHANGED <<writerVars, sendVars>>
  PROVE  /\ WritesLast' /\ SendBufExact' /\ Unsent' = Unsent
         /\ sent' = sent /\ sendBuf' = sendBuf
  BY DEF Contents, WritesLast, SendBufExact, Unsent, Holds, writerVars, sendVars

\* The steps of the adapters.
LEMMA AdapterContents ==
  ASSUME IInv, Contents, Adapter
  PROVE  Contents'
<1>. USE DEF IInv, Types
<1>1. CASE Deliver
  <2>1. sendQueue # << >> /\ recvQueue > 0
    BY <1>1 DEF Deliver
  <2>2. Len(recvCq) = 0 /\ reader \notin {"polled", "copied", "failed"}
    BY <2>1, Numbers DEF RecvExact
  <2>3. Arrived = 0 /\ recvCq = << >>
    BY <2>2, Numbers, EmptySeq DEF Arrived
  <2>4. Len(sendQueue) = 1 /\ Unsent = 1 /\ Last(sent) \in Sendable
    BY <2>1, Numbers
  <2>5. \A w \in Writers : stage[w] \notin {"begun", "filled"}
    BY <2>4, Numbers
  <2>6. Len(sent) = Len(received) + 1 /\ Len(sent) \in Nat /\ Len(received) \in Nat
    BY <2>3, <2>4, Numbers DEF Contents, NoneLost
  <2>7. NextMessage = Last(sent)
    BY <2>6 DEF NextMessage, Last
  <2>8. Holds(sendBuf, NextMessage) /\ Head(sendQueue) = WireLength(NextMessage)
    BY <2>1, <2>7 DEF Contents, SendBufExact
  <2>9. recvBuf' \in Buffer /\ Holds(recvBuf', NextMessage)
    BY <1>1, <2>4, <2>7, <2>8, Delivered, OkIsSendable DEF Deliver, Contents, BuffersTyped
  <2>10. recvCq' = <<Head(sendQueue)>> /\ reader' = reader
    BY <1>1, <2>3 DEF Deliver, readerVars
  <2>11. Len(recvCq') = 1 /\ Head(recvCq') = WireLength(NextMessage)
    BY <2>8, <2>10
  <2>12. sendQueue' = << >> /\ Len(sendQueue') = 0
    <3>1. Tail(sendQueue) \in Seq(Nat) /\ Len(Tail(sendQueue)) = 0
      BY <2>1, <2>4, HeadTailProperties
    <3>2. Tail(sendQueue) = << >>
      BY <3>1, EmptySeq
    <3>. QED
      BY <1>1, <3>1, <3>2 DEF Deliver
  <2>13. Unsent' = 0 /\ Arrived' = 1
    BY <1>1, <2>2, <2>5, <2>10, <2>11, <2>12 DEF Unsent, Arrived, Deliver, writerVars
  <2>14. NextMessage' = NextMessage
    BY <1>1 DEF Deliver, NextMessage, writerVars, readerVars
  <2>15. NoneLost'
    BY <1>1, <2>6, <2>13 DEF Deliver, NoneLost, writerVars, readerVars
  <2>16. RecvBufExact'
    BY <2>2, <2>9, <2>10, <2>11, <2>14 DEF RecvBufExact
  <2>17. WritesLast' /\ ReadExact'
    BY <1>1 DEF Deliver, Contents, WritesLast, ReadExact, writerVars, readerVars
  <2>18. SendBufExact'
    BY <1>1, <2>5, <2>12 DEF Deliver, SendBufExact, writerVars
  <2>19. BuffersTyped'
    BY <1>1, <2>9 DEF Deliver, Contents, BuffersTyped, writerVars, readerVars
  <2>. QED
    BY <2>15, <2>16, <2>17, <2>18, <2>19 DEF Contents
<1>2. CASE Acknowledge
  <2>1. RecvBufExact' /\ ReadExact' /\ Arrived' = Arrived
    BY <1>2, ReceiveSideStays DEF Acknowledge, writerVars
  <2>2. WritesLast' /\ SendBufExact' /\ Unsent' = Unsent
    BY <1>2 DEF Acknowledge, Contents, WritesLast, SendBufExact, Unsent, Holds, writerVars
  <2>3. NoneLost'
    BY <1>2, <2>1, <2>2 DEF Acknowledge, Contents, NoneLost, writerVars, readerVars
  <2>4. BuffersTyped'
    BY <1>2 DEF Acknowledge, Contents, BuffersTyped, writerVars, recvVars, readerVars
  <2>. QED
    BY <2>1, <2>2, <2>3, <2>4 DEF Contents
<1>. QED
  BY <1>1, <1>2 DEF Adapter

\* A polled message is complete, and what sr_read makes of it is what was sent.
LEMMA PolledMessage ==
  ASSUME IInv, Contents, reader = "polled"
  PROVE  /\ ~Truncated /\ NextMessage \in Sendable
         /\ ReceivedMessage(recvBuf) = NextMessage
<1>1. Arrived # 0
  BY Numbers DEF Arrived
<1>2. MessageOk(NextMessage) /\ NextMessage \in Sendable
  BY <1>1, Numbers, OkIsSendable
<1>3. Holds(recvBuf, NextMessage) /\ byteLen = WireLength(NextMessage)
  BY DEF Contents, RecvBufExact
<1>4. ReceivedMessage(recvBuf) = NextMessage
  BY <1>2, <1>3, ReadBack DEF Contents, BuffersTyped
<1>5. ReceivedHeader(recvBuf) = NextMessage.header
  <2>1. ReceivedMessage(recvBuf).header = ReceivedHeader(recvBuf)
    BY DEF ReceivedMessage
  <2>. QED
    BY <1>4, <2>1
<1>6. LengthOf(ReceivedHeader(recvBuf).payload_len) = Len(NextMessage.payload)
  BY <1>2, <1>5 DEF MessageOk
<1>7. byteLen = 14 + Len(NextMessage.payload) /\ Len(NextMessage.payload) \in Nat
  BY <1>2, <1>3, LengthOfWire
<1>8. ~Truncated
  BY <1>6, <1>7 DEF Truncated, HeaderLen
<1>. QED
  BY <1>2, <1>4, <1>8

\* The steps of the reader.
LEMMA ReaderContents ==
  ASSUME IInv, Contents, Read \/ ReadTimeout
  PROVE  Contents'
<1>. USE DEF IInv, Types
<1>1. UNCHANGED <<writerVars, sendVars, recvBuf>>
  BY DEF Read, ReadTimeout, BeginRead, PollCompletion, CopyMessage, EndRead, recvVars
<1>2. WritesLast' /\ SendBufExact' /\ Unsent' = Unsent /\ sent' = sent /\ sendBuf' = sendBuf
  BY <1>1, SendSideStays
<1>3. Len(sent) = Len(received) + Arrived + Unsent
  BY DEF Contents, NoneLost
<1>4. ASSUME received' = received, Arrived' = Arrived, RecvBufExact', reader' # "failed"
      PROVE  Contents'
  <2>1. NoneLost'
    BY <1>2, <1>3, <1>4 DEF NoneLost
  <2>2. ReadExact'
    BY <1>2, <1>4 DEF Contents, ReadExact
  <2>3. BuffersTyped'
    BY <1>1, <1>2, <1>4 DEF Contents, BuffersTyped
  <2>. QED
    BY <1>2, <1>4, <2>1, <2>2, <2>3 DEF Contents
<1>5. received' = received => NextMessage' = NextMessage
  BY <1>2 DEF NextMessage
<1>6. ASSUME NEW call \in {"sr_read", "sr_read_for"}, BeginRead(call) PROVE Contents'
  <2>1. received' = received /\ recvCq' = recvCq /\ reader = "idle" /\ reader' = call
    BY <1>6 DEF BeginRead
  <2>2. Arrived' = Arrived /\ RecvBufExact'
    BY <1>1, <1>5, <2>1 DEF Arrived, Contents, RecvBufExact, Holds
  <2>. QED
    BY <1>4, <2>1, <2>2
<1>7. CASE ReadTimeout \/ EndRead
  <2>1. /\ received' = received /\ recvCq' = recvCq
        /\ reader \in {"sr_read_for", "copied"} /\ reader' = "idle"
    BY <1>7 DEF ReadTimeout, EndRead, recvVars
  <2>2. Arrived' = Arrived /\ RecvBufExact'
    BY <1>1, <1>5, <2>1 DEF Arrived, Contents, RecvBufExact, Holds
  <2>. QED
    BY <1>4, <2>1, <2>2
<1>8. CASE PollCompletion
  <2>1. /\ received' = received /\ recvCq # << >> /\ recvCq' = Tail(recvCq)
        /\ reader \in {"sr_read", "sr_read_for"} /\ reader' = "polled"
        /\ byteLen' = Head(recvCq)
    BY <1>8 DEF PollCompletion
  <2>2. Len(recvCq) = 1
    <3>1. Len(recvCq) \in Nat /\ Len(recvCq) # 0
      BY <2>1, EmptySeq
    <3>2. recvQueue + Len(recvCq) = 1 /\ recvQueue \in Nat
      BY <2>1 DEF RecvExact
    <3> DEFINE n == Len(recvCq)
    <3> HIDE DEF n
    <3>3. n \in Nat /\ n # 0 /\ recvQueue + n = 1
      BY <3>1, <3>2 DEF n
    <3>4. n = 1
      BY <3>2, <3>3
    <3>. QED
      BY <3>4 DEF n
  <2>3. Len(recvCq') = 0 /\ recvCq' = << >>
    BY <2>1, <2>2, HeadTailProperties, EmptySeq
  <2>4. Arrived' = Arrived
    BY <2>1, <2>2, <2>3 DEF Arrived
  <2>5. RecvBufExact'
    BY <1>1, <1>5, <2>1, <2>3 DEF Contents, RecvBufExact, Holds
  <2>. QED
    BY <1>4, <2>1, <2>4, <2>5
<1>9. CASE CopyMessage
  <2>1. /\ reader = "polled" /\ ~Truncated /\ NextMessage \in Sendable
        /\ ReceivedMessage(recvBuf) = NextMessage
    BY <1>9, PolledMessage DEF CopyMessage
  <2>2. reader' = "copied" /\ received' = Append(received, NextMessage) /\ recvCq' = recvCq
    BY <1>9, <2>1 DEF CopyMessage, recvVars
  <2>3. received \in Seq(Sendable) /\ Len(received) \in Nat /\ Len(recvCq) \in Nat
    BY Numbers DEF Contents, BuffersTyped
  <2>4. /\ received' \in Seq(Sendable) /\ Len(received') = Len(received) + 1
        /\ \A k \in 1 .. Len(received) : received'[k] = received[k]
        /\ received'[Len(received) + 1] = NextMessage
    BY <2>1, <2>2, <2>3, AppendProperties
  <2>5. Len(recvCq) = 0 /\ recvCq = << >>
    BY <2>1, <2>3, EmptySeq DEF RecvExact
  <2>6. Arrived = 1 /\ Arrived' = 0
    BY <2>1, <2>2, <2>5 DEF Arrived
  <2>7. NoneLost'
    BY <1>2, <1>3, <2>3, <2>4, <2>6, Numbers DEF NoneLost
  <2>8. RecvBufExact'
    BY <2>2, <2>5 DEF RecvBufExact
  <2>9. ASSUME NEW k \in 1 .. Len(received') PROVE received'[k] = sent'[k]
    <3>1. k \in 1 .. Len(received) \/ k = Len(received) + 1
      BY <2>3, <2>4
    <3>2. CASE k \in 1 .. Len(received)
      BY <1>2, <2>4, <3>2 DEF Contents, ReadExact
    <3>3. CASE k = Len(received) + 1
      BY <1>2, <2>4, <3>3 DEF NextMessage
    <3>. QED
      BY <3>1, <3>2, <3>3
  <2>10. ReadExact'
    BY <2>2, <2>9 DEF ReadExact
  <2>11. BuffersTyped'
    BY <1>1, <1>2, <2>4 DEF Contents, BuffersTyped
  <2>. QED
    BY <1>2, <2>7, <2>8, <2>10, <2>11 DEF Contents
<1>. QED
  BY <1>6, <1>7, <1>8, <1>9 DEF Read

\* The contents of the buffers are what they have to be in every state.
THEOREM ContentsAlways == Spec => []Contents
<1>1. IInv /\ Contents /\ UNCHANGED vars => Contents'
  <2>. SUFFICES ASSUME IInv, Contents, UNCHANGED vars PROVE Contents'
    OBVIOUS
  <2>1. UNCHANGED <<writerVars, sendVars, recvVars, readerVars>>
    BY DEF vars
  <2>2. RecvBufExact' /\ ReadExact' /\ Arrived' = Arrived
    BY <2>1, ReceiveSideStays DEF writerVars
  <2>3. WritesLast' /\ SendBufExact' /\ Unsent' = Unsent
    BY <2>1, SendSideStays
  <2>4. NoneLost'
    BY <2>1, <2>2, <2>3 DEF Contents, NoneLost, writerVars, readerVars
  <2>5. BuffersTyped'
    BY <2>1 DEF Contents, BuffersTyped, writerVars, recvVars, readerVars
  <2>. QED
    BY <2>2, <2>3, <2>4, <2>5 DEF Contents
<1>2. IInv /\ Contents /\ [Next]_vars => Contents'
  BY <1>1, WriterContents, AdapterContents, ReaderContents DEF Next
<1>. QED
  BY <1>2, InitContents, Inductive, PTL DEF Spec

\* For any number of writers and messages, any payloads and any size of the
\* buffers, sr_read returns what was given to sr_write, in that order, each
\* message once and none of them mixed with another.
THEOREM ReadInOrderAlways == Spec => []ReadInOrder
<1>1. IInv /\ Contents => ReadInOrder
  <2>. SUFFICES ASSUME IInv, Contents PROVE ReadInOrder
    OBVIOUS
  <2> DEFINE n == Len(received)
  <2>1. n \in Nat /\ Len(sent) \in Nat /\ n <= Len(sent)
    BY Numbers DEF Contents, NoneLost
  <2>2. \A k \in 1 .. n : received[k] = sent[k] /\ sent[k] \in Sendable
    <3>1. \A k \in 1 .. n : k \in 1 .. Len(sent)
      BY <2>1
    <3>. QED
      BY <3>1, ElementOfSeq DEF Contents, BuffersTyped, ReadExact
  <2>3. /\ SubSeq(received, 1, n) \in Seq(Sendable) /\ SubSeq(sent, 1, n) \in Seq(Sendable)
        /\ Len(SubSeq(received, 1, n)) = n /\ Len(SubSeq(sent, 1, n)) = n
        /\ \A k \in 1 .. n : SubSeq(received, 1, n)[k] = SubSeq(sent, 1, n)[k]
    <3> HIDE DEF n
    <3>1. \A k \in 1 .. n : received[k] \in Sendable /\ sent[k] \in Sendable
      BY <2>2
    <3>2. /\ SubSeq(received, 1, n) \in Seq(Sendable)
          /\ Len(SubSeq(received, 1, n)) = IF 1 <= n THEN n - 1 + 1 ELSE 0
          /\ \A k \in 1 .. n - 1 + 1 : SubSeq(received, 1, n)[k] = received[1 + k - 1]
      BY <2>1, <3>1, SubSeqProperties
    <3>3. /\ SubSeq(sent, 1, n) \in Seq(Sendable)
          /\ Len(SubSeq(sent, 1, n)) = IF 1 <= n THEN n - 1 + 1 ELSE 0
          /\ \A k \in 1 .. n - 1 + 1 : SubSeq(sent, 1, n)[k] = sent[1 + k - 1]
      BY <2>1, <3>1, SubSeqProperties
    <3>4. n - 1 + 1 = n /\ \A k \in 1 .. n : 1 + k - 1 = k
      BY <2>1
    <3>. QED
      BY <2>1, <2>2, <3>2, <3>3, <3>4
  <2>4. SubSeq(received, 1, n) = SubSeq(sent, 1, n)
    BY <2>3, SeqEqual
  <2>. QED
    BY <2>1, <2>4 DEF ReadInOrder, IsPrefix, Contents, ReadExact
<1>. QED
  BY <1>1, Inductive, ContentsAlways, PTL

\* A header that has been posted is big-endian, whatever the width of the
\* field, although header_to_wire turns 64-bit fields by halves.
THEOREM WireIsBigEndianAlways == Spec => []WireIsBigEndian
<1>1. IInv /\ Contents => WireIsBigEndian
  <2>. SUFFICES ASSUME IInv, Contents, sendQueue # << >>
                PROVE  LET h == Last(sent).header
                       IN  SubSeq(sendBuf, 1, HeaderLen)
                             = BigEndian(h.type) \o BigEndian(h.payload_len) \o BigEndian(h.global_idx)
    BY DEF WireIsBigEndian
  <2>1. MessageOk(Last(sent))
    BY Numbers, OkIsSendable
  <2>2. Holds(sendBuf, Last(sent)) /\ sendBuf \in Buffer
    BY DEF Contents, SendBufExact, BuffersTyped
  <2>. QED
    BY <2>1, <2>2, OnTheWire
<1>. QED
  BY <1>1, Inductive, ContentsAlways, PTL

-----------------------------------------------------------------------------
(* The refinement of Links *)

LEMMA UnreadMessage ==
  ASSUME IInv, Contents
  PROVE  Unread = IF Arrived = 0 THEN None ELSE AsLinkMessage(NextMessage)
<1>1. recvCq # << >> \/ reader = "polled" <=> Arrived # 0
  <2>1. Len(recvCq) \in Nat /\ (recvCq # << >> <=> Len(recvCq) # 0)
    BY Numbers, EmptySeq DEF IInv, Types
  <2>. QED
    BY <2>1 DEF Arrived
<1>2. CASE Arrived = 0
  BY <1>1, <1>2 DEF Unread
<1>3. CASE Arrived # 0
  <2>1. MessageOk(NextMessage)
    BY <1>3, Numbers, OkIsSendable
  <2>2. Holds(recvBuf, NextMessage)
    BY <1>1, <1>3 DEF Contents, RecvBufExact
  <2>3. ReceivedMessage(recvBuf) = NextMessage
    BY <2>1, <2>2, ReadBack DEF Contents, BuffersTyped
  <2>. QED
    BY <1>1, <1>3, <2>3 DEF Unread
<1>. QED
  BY <1>2, <1>3

\* A step of Links, with the direction that is modelled here and the others
\* as they are.
LinkStep ==
  \/ /\ Len(received) < Len(sent)
     /\ Link!WriteToSwitch(0, AsLinkMessage(sent[Len(received) + 1]))
  \/ Link!ReadFromHost(0, Unread.type)

LEMMA LinkActions ==
  /\ Unread = None => Link!LinksInit
  /\ \A m : Unread = None /\ Unread' = m => Link!WriteToSwitch(0, m)
  /\ \A t : Unread # None /\ Unread.type = t /\ Unread' = None => Link!ReadFromHost(0, t)
<1>1. 0 .. 1 - 1 = {0}
  OBVIOUS
<1>2. Unread = None => Link!LinksInit
  BY <1>1 DEF Link!LinksInit, Link!Hosts
<1>3. ASSUME NEW m, Unread = None, Unread' = m PROVE Link!WriteToSwitch(0, m)
  BY <1>3 DEF Link!WriteToSwitch
<1>4. ASSUME NEW t, Unread # None, Unread.type = t, Unread' = None PROVE Link!ReadFromHost(0, t)
  BY <1>4 DEF Link!ReadFromHost
<1>. QED
  BY <1>2, <1>3, <1>4

\* The delivery of a message is a write of Links, its copying a read, and
\* every other step leaves the buffer of Links alone.
LEMMA StepMaps ==
  ASSUME IInv, Contents, Contents', [Next]_vars
  PROVE  LinkStep \/ UNCHANGED Unread
<1>1. Unread = IF Arrived = 0 THEN None ELSE AsLinkMessage(NextMessage)
  BY UnreadMessage
<1>2. CASE Deliver
  <2>1. sendQueue # << >> /\ recvQueue > 0 /\ recvCq' = Append(recvCq, Head(sendQueue))
    BY <1>2 DEF Deliver
  <2>2. Len(recvCq) = 0 /\ reader \notin {"polled", "copied", "failed"}
    BY <2>1, Numbers DEF IInv, Types, RecvExact
  <2>3. Arrived = 0
    BY <2>2 DEF Arrived
  <2>4. Unsent = 1 /\ Last(sent) \in Sendable
    BY <2>1, Numbers
  <2>5. Len(sent) = Len(received) + 1 /\ Len(sent) \in Nat /\ Len(received) \in Nat
    BY <2>3, <2>4, Numbers DEF Contents, NoneLost
  <2>6. NextMessage = Last(sent) /\ Len(received) < Len(sent)
    BY <2>5 DEF NextMessage, Last
  <2>7. NextMessage' = NextMessage
    BY <1>2 DEF Deliver, NextMessage, writerVars, readerVars
  <2>8. recvCq' # << >>
    <3>1. Head(sendQueue) \in Nat /\ recvCq \in Seq(Nat)
      BY <2>1, HeadTailProperties DEF IInv, Types
    <3>. QED
      BY <2>1, <3>1, AppendProperties
  <2>9. Holds(recvBuf', NextMessage) /\ recvBuf' \in Buffer
    BY <2>7, <2>8 DEF Contents, RecvBufExact, BuffersTyped, Holds
  <2>10. ReceivedMessage(recvBuf') = NextMessage
    BY <2>4, <2>6, <2>9, OkIsSendable, ReadBack
  <2>11. Unread' = AsLinkMessage(ReceivedMessage(recvBuf'))
    BY <2>8 DEF Unread, AsLinkMessage, ReceivedMessage, ReceivedHeader
  <2>12. Unread = None /\ Unread' = AsLinkMessage(NextMessage)
    BY <1>1, <2>3, <2>10, <2>11
  <2>. QED
    BY <2>6, <2>12, LinkActions DEF LinkStep, NextMessage
<1>3. CASE CopyMessage
  <2>1. reader = "polled" /\ recvCq' = recvCq
    BY <1>3 DEF CopyMessage, recvVars
  <2>2. Arrived # 0 /\ NextMessage \in Sendable
    BY <2>1, Numbers DEF Arrived
  <2>3. Unread # None
    BY <1>1, <2>2, MessageIsNotNone
  <2>4. Len(recvCq) = 0 /\ recvCq = << >>
    BY <2>1, Numbers, EmptySeq DEF IInv, Types, RecvExact
  <2>5. reader' # "polled"
    BY <1>3 DEF CopyMessage
  <2>6. Unread' = None
    BY <2>1, <2>4, <2>5 DEF Unread
  <2>. QED
    BY <2>3, <2>6, LinkActions DEF LinkStep
<1>4. CASE PollCompletion
  <2>1. recvCq # << >> /\ reader' = "polled" /\ recvBuf' = recvBuf
    BY <1>4 DEF PollCompletion
  <2>. QED
    BY <2>1 DEF Unread, AsLinkMessage, ReceivedMessage, ReceivedHeader
<1>5. ASSUME UNCHANGED <<recvCq, recvBuf>>, reader # "polled", reader' # "polled"
      PROVE  UNCHANGED Unread
  BY <1>5 DEF Unread, AsLinkMessage, ReceivedMessage, ReceivedHeader
<1>6. ASSUME UNCHANGED <<recvCq, recvBuf, reader>>
      PROVE  UNCHANGED Unread
  BY <1>6 DEF Unread, AsLinkMessage, ReceivedMessage, ReceivedHeader
<1>7. ASSUME NEW call \in {"sr_read", "sr_read_for"}, BeginRead(call)
      PROVE  UNCHANGED Unread
  BY <1>5, <1>7 DEF BeginRead
<1>8. CASE EndRead \/ ReadTimeout
  BY <1>5, <1>8 DEF EndRead, ReadTimeout, recvVars
<1>9. ASSUME NEW w \in Writers, Write(w) \/ \E payload \in Payloads : BeginWrite(w, payload)
      PROVE  UNCHANGED Unread
  BY <1>6, <1>9 DEF Write, BeginWrite, FillSendBuffer, PostSend, EndWrite, recvVars, readerVars
<1>10. CASE Acknowledge \/ UNCHANGED vars
  BY <1>6, <1>10 DEF Acknowledge, vars, recvVars, readerVars
<1>. QED
  BY <1>2, <1>3, <1>4, <1>7, <1>8, <1>9, <1>10 DEF Next, Adapter, Read

\* The threads, buffers and completions of one direction implement the
\* one-message buffer that the models of the hosts and the switch are built
\* on: it takes the messages in the order of sr_write, one at a time, and
\* gives each of them to sr_read once.
THEOREM TransportImplementsLinks == Spec => ImplementsLinks
<1>1. Init => Link!LinksInit
  <2>. SUFFICES ASSUME Init PROVE Link!LinksInit
    OBVIOUS
  <2>1. Unread = None
    BY DEF Init, Unread
  <2>. QED
    BY <2>1, LinkActions
<1>2. IInv /\ Contents /\ Contents' /\ [Next]_vars => [LinkStep]_Unread
  BY StepMaps
<1>3. ImplementsLinks <=> Link!LinksInit /\ [][LinkStep]_Unread
  BY DEF ImplementsLinks, LinkStep
<1>. QED
  BY <1>1, <1>2, <1>3, Inductive, ContentsAlways, PTL DEF Spec
=============================================================================
