----------------------------- MODULE WireFormat -----------------------------
(***************************************************************************)
(* The byte order of a header on the wire.  A field is the tuple of its    *)
(* bytes as they lie in the memory of a little-endian machine, the least   *)
(* significant byte first; 64-bit fields are turned by two 32-bit htonl,   *)
(* one for each half, and an exchange of the halves.                       *)
(***************************************************************************)
EXTENDS Integers, Sequences

Byte == 0 .. 255

\* The memory of an unsigned field of n bytes.
Field(n) == [1 .. n -> Byte]

\* htons, htonl and their inverses: the bytes in the opposite order.
Htons(b) == <<b[2], b[1]>>

Htonl(b) == <<b[4], b[3], b[2], b[1]>>

\* The low and the high 32 bits of a 64-bit field.
Lo(b) == <<b[1], b[2], b[3], b[4]>>

Hi(b) == <<b[5], b[6], b[7], b[8]>>

\* (high << 32) | low
Join(low, high) == <<low[1], low[2], low[3], low[4], high[1], high[2], high[3], high[4]>>

\* Seeded fault: the halves stay where they are.
HostToNetworkInPlace(b) == Join(Htonl(Lo(b)), Htonl(Hi(b)))

\* host_to_network_u64 on a little-endian machine: (lo << 32) | hi
HostToNetworkU64(b) == Join(Htonl(Hi(b)), Htonl(Lo(b)))

\* network_to_host_u64
NetworkToHostU64(b) == Join(Htonl(Hi(b)), Htonl(Lo(b)))

\* The value of a field read as big-endian: the most significant byte first.
BigEndian(b) == [k \in 1 .. Len(b) |-> b[Len(b) + 1 - k]]

\* A header, by one field of each width that occurs in it: type (16 bits),
\* payload_len (32 bits) and global_idx (64 bits).
HeaderFields == [ type : Field(2), payload_len : Field(4), global_idx : Field(8) ]

HeaderToWire(h) ==
  [ type |-> Htons(h.type),
    payload_len |-> Htonl(h.payload_len),
    global_idx |-> HostToNetworkU64(h.global_idx) ]

HeaderFromWire(h) ==
  [ type |-> Htons(h.type),
    payload_len |-> Htonl(h.payload_len),
    global_idx |-> NetworkToHostU64(h.global_idx) ]
=============================================================================
