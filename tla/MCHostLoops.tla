----------------------------- MODULE MCHostLoops -----------------------------
(***************************************************************************)
(* Instances of HostLoops for TLC in which all hosts are started with the  *)
(* same loop mode.  Of two choices of experts that only exchange hosts 0   *)
(* and 1, one is enough.                                                   *)
(***************************************************************************)
EXTENDS HostLoops

UniformInit ==
  /\ LoopInit
  /\ \A g, h \in Hosts : loopMode[g] = loopMode[h]
  /\ \A i \in Tokens : 1 \in workload[1][i] => 0 \in workload[0][i]

FairUniformSpec == UniformInit /\ [][LoopNext]_allVars /\ LoopFairness
=============================================================================
