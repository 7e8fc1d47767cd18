--------------------------- MODULE CombineService ---------------------------
(***************************************************************************)
(* What the hosts and the switch promise together, with no queue, thread   *)
(* or message in it: every token of every host is combined exactly once,   *)
(* with the sum over its chosen experts of what each expert makes of the   *)
(* token, and no host is stopped before every host has all of its tokens.  *)
(***************************************************************************)
CONSTANTS
  Hosts,
  Tokens,           \* the tokens of each host
  Workloads,        \* the possible choices of experts for all tokens of a host
  Combined(_, _)    \* Combined(chosen, i): the result for token i of the chosen experts

VARIABLES
  experts,   \* [Hosts -> the experts chosen for each token]
  combined,  \* [Hosts -> tokens whose combined result has arrived]
  value,     \* [Hosts -> each token's combined result]
  stopped    \* hosts told that the run is over

serviceVars == <<experts, combined, value, stopped>>

Init ==
  /\ experts \in [Hosts -> Workloads]
  /\ combined = [h \in Hosts |-> {}]
  /\ value = [h \in Hosts |-> [i \in Tokens |-> 0]]
  /\ stopped = {}

Combine(h, i) ==
  /\ i \notin combined[h]
  /\ h \notin stopped
  /\ combined' = [combined EXCEPT ![h] = @ \cup {i}]
  /\ value' = [value EXCEPT ![h][i] = Combined(experts[h][i], i)]
  /\ UNCHANGED <<experts, stopped>>

Stop(h) ==
  /\ h \notin stopped
  /\ \A g \in Hosts : combined[g] = Tokens
  /\ stopped' = stopped \cup {h}
  /\ UNCHANGED <<experts, combined, value>>

Next == \E h \in Hosts : Stop(h) \/ \E i \in Tokens : Combine(h, i)

Spec == Init /\ [][Next]_serviceVars

\* Every token is combined in the end, and then every host is stopped.
FairSpec ==
  /\ Spec
  /\ \A h \in Hosts : WF_serviceVars(Stop(h))
  /\ \A h \in Hosts, i \in Tokens : WF_serviceVars(Combine(h, i))
=============================================================================
