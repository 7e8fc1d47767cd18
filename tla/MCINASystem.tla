---------------------------- MODULE MCINASystem -----------------------------
(***************************************************************************)
(* Instances of INASystem for TLC in which the random choice of experts is *)
(* fixed, so that there is room for more tokens and more hosts.            *)
(***************************************************************************)
EXTENDS INASystem

\* Every token is sent to the next host of the ring: all experts' work
\* crosses the switch, and every host serves exactly one other host.
RingInit ==
  /\ Init
  /\ \A h \in Hosts, i \in Tokens : workload[h][i] = {(h + 1) % NumHosts}

RingSpec == RingInit /\ [][Next]_vars
=============================================================================
