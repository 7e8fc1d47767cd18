---------------------------- MODULE MCTransport -----------------------------
(***************************************************************************)
(* Payloads of different lengths, so that the buffers keep the tail of an  *)
(* earlier message behind a shorter one, and one that does not fit.        *)
(***************************************************************************)
EXTENDS Transport

MCPayloads == { << >>, <<7>>, <<8, 9>>, <<1, 2, 3>> }
=============================================================================
