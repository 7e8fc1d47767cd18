--------------------------- MODULE DegradedService ---------------------------
(***************************************************************************)
(* What is left of CombineService when hosts and the switch may die: a     *)
(* combined result may miss the part of experts whose host is down, and no *)
(* other; a token is still combined at most once; a host is stopped before *)
(* every host has all of its tokens only if the switch is lost; and when   *)
(* that cuts a read short it combines at most one more result.             *)
(***************************************************************************)
CONSTANTS
  Hosts,
  Tokens,           \* the tokens of each host
  Workloads,        \* the possible choices of experts for all tokens of a host
  Combined(_, _)    \* Combined(chosen, i): the result for token i of the chosen experts

VARIABLES
  experts,   \* [Hosts -> the experts chosen for each token]
  combined,  \* [Hosts -> tokens whose combined result has arrived]
  value,     \* [Hosts -> each token's combined result]
  stopped,   \* hosts that have stopped running
  leaving,   \* those of them that may still combine one result
  down,      \* hosts that have died
  lost       \* the switch has died

serviceVars == <<experts, combined, value, stopped, leaving, down, lost>>

Init ==
  /\ experts \in [Hosts -> Workloads]
  /\ combined = [h \in Hosts |-> {}]
  /\ value = [h \in Hosts |-> [i \in Tokens |-> 0]]
  /\ stopped = {}
  /\ leaving = {}
  /\ down = {}
  /\ lost = FALSE

\* The results that may be handed out for token i of host h.
Results(h, i) ==
  { Combined(served, i) : served \in { S \in SUBSET experts[h][i] : experts[h][i] \ S \subseteq down } }

\* A host that is leaving has no turn after this one.
Combine(h, i) ==
  /\ i \notin combined[h]
  /\ h \notin down
  /\ h \in stopped => h \in leaving
  /\ combined' = [combined EXCEPT ![h] = @ \cup {i}]
  /\ \E result \in Results(h, i) : value' = [value EXCEPT ![h][i] = result]
  /\ leaving' = leaving \ {h}
  /\ UNCHANGED <<experts, stopped, down, lost>>

Stop(h) ==
  /\ h \notin stopped \cup down
  /\ lost \/ \A g \in Hosts : combined[g] = Tokens
  /\ stopped' = stopped \cup {h}
  /\ leaving' = leaving \/ (lost /\ leaving' = leaving \cup {h})
  /\ UNCHANGED <<experts, combined, value, down, lost>>

Leave(h) ==
  /\ h \in leaving
  /\ leaving' = leaving \ {h}
  /\ UNCHANGED <<experts, combined, value, stopped, down, lost>>

HostDies(h) ==
  /\ h \notin down
  /\ down' = down \cup {h}
  /\ leaving' = leaving \ {h}
  /\ UNCHANGED <<experts, combined, value, stopped, lost>>

SwitchDies ==
  /\ ~lost
  /\ lost' = TRUE
  /\ UNCHANGED <<experts, combined, value, stopped, leaving, down>>

Next ==
  \/ \E h \in Hosts : Stop(h) \/ Leave(h) \/ HostDies(h) \/ \E i \in Tokens : Combine(h, i)
  \/ SwitchDies

Spec == Init /\ [][Next]_serviceVars
=============================================================================
