------------------------------ MODULE Protocol ------------------------------
(***************************************************************************)
(* The messages that hosts and the switch exchange, and the parameters of  *)
(* a run.  A token is named by the rank of the host that owns it and by    *)
(* its index in that host's workload: the program derives run_id,          *)
(* microbatch_id, token_id and global_idx of a header from those two, so   *)
(* the pair stands for all five fields of a CombineKey.                    *)
(***************************************************************************)
EXTENDS Integers, FiniteSets

CONSTANTS
  NumHosts,    \* num_hosts of the command lines: hosts, and also experts
  NumTokens,   \* num_tokens: length of every host's workload
  WindowSize,  \* window_size: tokens a host may have between admission and release
  TopK,        \* topk, before main clamps it to 1 .. num_hosts
  ByteIndex,   \* the position in the payload of the one byte the model follows
  None         \* an empty receive buffer, an idle thread, a missing slot

Hosts == 0 .. NumHosts - 1

Tokens == 0 .. NumTokens - 1

Byte == 0 .. 255

\* expert_bitmap: the set of the positions of the bits that are set.
Bitmap == SUBSET Hosts

MsgType == { "DISPATCH_TOKEN", "EXPERT_INPUT", "EXPERT_RESULT",
             "COMBINE_PULL_REQ", "COMBINE_RESULT", "NOT_READY", "ACK", "FINISH" }

\* A compute task is either a token of the host itself, awaiting attention,
\* or an EXPERT_INPUT to push through the expert.
TaskType == { "LOCAL_ATTENTION", "EXPERT_INPUT" }

\* MsgHeader with its payload, restricted to the given types.
Header(types) == [ type : types, src : Hosts, dst : Hosts, origin : Hosts,
                   idx : Nat, bitmap : Bitmap, data : Byte ]

Message == Header(MsgType)

Task == Header(TaskType)

ASSUME ConstantsAssumption ==
  /\ NumHosts \in 1 .. 64
  /\ NumTokens \in Nat
  /\ WindowSize \in Int
  /\ TopK \in Int
  /\ ByteIndex \in Nat

\* An empty place is not taken for a message.
ASSUME NoneAssumption == None \notin Header(MsgType \cup TaskType)

-----------------------------------------------------------------------------
(* Workload *)

\* choose_topk_bitmap shuffles the experts and takes the first topk of them
\* after clamping: any set of that size may come out.
ChooseTopkBitmap ==
  LET topk == IF TopK <= 0 THEN 1 ELSE IF TopK > NumHosts THEN NumHosts ELSE TopK
  IN  { b \in Bitmap : Cardinality(b) = topk }

\* make_workload: the expert_bitmap of every token of one host.
MakeWorkload == [ Tokens -> ChooseTopkBitmap ]

-----------------------------------------------------------------------------
(* What happens to one byte of a token's payload. *)

\* process_local_attention: payload[ByteIndex] of token idx.
AttentionByte(idx) == (idx + ByteIndex) % 256

\* process_expert_mlp: the byte an expert returns.
ExpertByte(b) == (b * 2) % 256

\* Seeded fault: the sum is not cut to the width of a byte.
AggregateWide(acc, b) == acc + b

\* handle_expert_result: the byte a slot holds after adding one result.
AggregateByte(acc, b) == (acc + b) % 256
=============================================================================
