--------------------------- MODULE Handshake_proof ---------------------------
(***************************************************************************)
(* Proofs about Handshake for any number of hosts, processes and deaths    *)
(* and any backlog.                                                        *)
(***************************************************************************)
EXTENDS Handshake, FiniteSetTheorems, SequenceTheorems, TLAPS

\* Process c is the host of its rank.
IsRegistered(c) == rankOf[c] \in Ranks /\ hosts[rankOf[c]] = c

\* The connection in the hand of the accept loop is new until it is registered.
AcceptLoopExact ==
  /\ conn # None <=> accepting \in {"hello", "ack"}
  /\ accepting = "hello" =>
       /\ \A r \in Ranks : hosts[r] # conn
       /\ client[conn] \in {"connected", "hello", "ended", "dead"}
       /\ conn \in switchEnd
  /\ accepting = "ack" => IsRegistered(conn)

\* A registered process has connected, and only a registered one is welcome.
WelcomeExact ==
  /\ \A r \in Ranks : hosts[r] # None => client[hosts[r]] \notin {"start", "connecting"}
  /\ \A c \in Clients : toClient[c] = "ACK" => IsRegistered(c)
  /\ OnlyRegisteredRun

\* Connections stay open as long as the switch runs, and readers only run when
\* all are there.
ConnectionsKept ==
  /\ accepting # "failed" => \A r \in Ranks : hosts[r] # None => hosts[r] \in switchEnd
  /\ readers # {} => accepting = "start" /\ \A r \in Ranks : hosts[r] # None

IInv ==
  /\ TypeOK /\ AcceptLoopExact /\ WelcomeExact /\ ConnectionsKept
  /\ RegistryExact /\ EarlyMessagesKept

USE HandshakeAssumption

-----------------------------------------------------------------------------
(* Facts about the registry *)

\* There are num_hosts ranks.
LEMMA RanksCount == IsFiniteSet(Ranks) /\ Cardinality(Ranks) = NumHosts
BY FS_Interval DEF Ranks

\* When the accept loop is done, every rank is registered.
LEMMA AllRegistered ==
  ASSUME TypeOK, RegistryExact, LoopDone
  PROVE  \A r \in Ranks : hosts[r] # None
<1>. DEFINE R == { r \in Ranks : hosts[r] # None }
<1>1. Cardinality(R) >= NumHosts
  BY DEF RegistryExact, LoopDone
<1>2. R \in SUBSET Ranks
  OBVIOUS
<1>3. /\ Cardinality(R) \in Nat
      /\ Cardinality(R) <= NumHosts
      /\ NumHosts = Cardinality(R) => Ranks = R
  BY <1>2, RanksCount, FS_Subset, FS_CardinalityType
<1>. QED
  BY <1>1, <1>3

\* A connection is added to hosts and to accepted_hosts.
LEMMA RegisterExact ==
  ASSUME TypeOK, RegistryExact, AcceptLoopExact, Register
  PROVE  RegistryExact'
<1>. DEFINE rank == rankOf[conn]
            R == { r \in Ranks : hosts[r] # None }
<1>0. conn \in Clients /\ rank \in Ranks /\ hosts[rank] = None
  BY DEF Register, AcceptLoopExact, TypeOK, Admissible
<1>1. /\ hosts' = [hosts EXCEPT ![rank] = conn]
      /\ acceptedHosts' = Append(acceptedHosts, conn)
      /\ rankOf' = rankOf
  BY DEF Register, clientVars
<1>2. \A r \in Ranks : hosts'[r] = IF r = rank THEN conn ELSE hosts[r]
  BY <1>0, <1>1 DEF TypeOK
<1>3. \A r \in Ranks : hosts'[r] # None => rankOf'[hosts'[r]] = r
  BY <1>0, <1>1, <1>2 DEF RegistryExact
<1>4. { hosts'[r] : r \in Ranks } \ {None} = ({ hosts[r] : r \in Ranks } \ {None}) \cup {conn}
  BY <1>0, <1>2
<1>5. { acceptedHosts'[n] : n \in DOMAIN acceptedHosts' }
        = { acceptedHosts[n] : n \in DOMAIN acceptedHosts } \cup {conn}
  <2>1. acceptedHosts \in Seq(Clients)
    BY DEF TypeOK
  <2>2. /\ DOMAIN acceptedHosts' = 1 .. Len(acceptedHosts) + 1
        /\ DOMAIN acceptedHosts = 1 .. Len(acceptedHosts)
        /\ Len(acceptedHosts) \in Nat
        /\ \A n \in 1 .. Len(acceptedHosts) : acceptedHosts'[n] = acceptedHosts[n]
        /\ acceptedHosts'[Len(acceptedHosts) + 1] = conn
    BY <1>0, <1>1, <2>1
  <2>3. 1 .. Len(acceptedHosts) + 1 = (1 .. Len(acceptedHosts)) \cup {Len(acceptedHosts) + 1}
    BY <2>2
  <2>. QED
    BY <2>2, <2>3
<1>6. { r \in Ranks : hosts'[r] # None } = R \cup {rank}
  BY <1>0, <1>2
<1>7. Cardinality(R \cup {rank}) = Cardinality(R) + 1
  <2>1. R \in SUBSET Ranks /\ rank \notin R
    BY <1>0
  <2>2. IsFiniteSet(R)
    BY <2>1, RanksCount, FS_Subset
  <2>. QED
    BY <2>1, <2>2, FS_AddElement
<1>8. Len(acceptedHosts') = Len(acceptedHosts) + 1
  BY <1>0, <1>1 DEF TypeOK
<1>. QED
  BY <1>3, <1>4, <1>5, <1>6, <1>7, <1>8 DEF RegistryExact

-----------------------------------------------------------------------------
(* The invariant, one conjunct after the other *)

LEMMA TypeStep == TypeOK /\ AcceptLoopExact /\ [Next]_vars => TypeOK'
<1>. SUFFICES ASSUME TypeOK, AcceptLoopExact, [Next]_vars PROVE TypeOK'
  OBVIOUS
<1>. USE DEF TypeOK, ClientState, AcceptState
<1>1. ASSUME NEW c \in Clients, ClientStep(c) PROVE TypeOK'
  <2>1. CASE Connect(c)
    <3>1. Append(requests, c) \in Seq(Clients)
      OBVIOUS
    <3>. QED
      BY <2>1, <3>1 DEF Connect, bufferVars, loopVars
  <2>2. CASE ConnectRefused(c)
    BY <2>2 DEF ConnectRefused, bufferVars, loopVars
  <2>3. CASE SendHello(c)
    BY <2>3 DEF SendHello, loopVars
  <2>4. CASE ReceiveAck(c)
    BY <2>4 DEF ReceiveAck, loopVars
  <2>5. CASE SendFirst(c)
    BY <2>5 DEF SendFirst, loopVars
  <2>. QED
    BY <1>1, <2>1, <2>2, <2>3, <2>4, <2>5 DEF ClientStep
<1>2. ASSUME NEW c \in Clients, ClientFails(c) PROVE TypeOK'
  BY <1>2 DEF ClientFails, bufferVars, loopVars
<1>3. ASSUME NEW c \in Clients, ClientDies(c) PROVE TypeOK'
  BY <1>3 DEF ClientDies, loopVars
<1>4. ASSUME NEW c \in Clients, ReadFirst(c) PROVE TypeOK'
  BY <1>4 DEF ReadFirst, clientVars
<1>5. CASE Accept
  <2>1. Head(requests) \in Clients /\ Tail(requests) \in Seq(Clients)
    BY <1>5 DEF Accept
  <2>. QED
    BY <1>5, <2>1 DEF Accept, bufferVars
<1>6. CASE AcceptFails \/ AckFails
  <2>1. << >> \in Seq(Clients)
    OBVIOUS
  <2>. QED
    BY <1>6, <2>1 DEF AcceptFails, AckFails, GiveUp
<1>7. CASE Register
  <2>1. conn \in Clients /\ rankOf[conn] \in Ranks
    BY <1>7 DEF Register, AcceptLoopExact, Admissible
  <2>2. Append(acceptedHosts, conn) \in Seq(Clients)
    BY <2>1
  <2>. QED
    BY <1>7, <2>1, <2>2 DEF Register, clientVars
<1>8. CASE Reject \/ HelloFails
  BY <1>8 DEF Reject, HelloFails, Discard, clientVars
<1>9. CASE SendAck
  BY <1>9 DEF SendAck, clientVars
<1>10. CASE StartReader
  <2>1. Cardinality(readers) \in Nat
    BY FS_Subset, FS_CardinalityType
  <2>2. Cardinality(readers) + 1 \in 1 .. Len(acceptedHosts)
    BY <1>10, <2>1 DEF StartReader
  <2>3. acceptedHosts[Cardinality(readers) + 1] \in Clients
    BY <2>2, ElementOfSeq
  <2>. QED
    BY <1>10, <2>3 DEF StartReader, clientVars, bufferVars
<1>11. CASE UNCHANGED vars
  BY <1>11 DEF vars, clientVars, bufferVars, loopVars
<1>. QED
  BY <1>1, <1>2, <1>3, <1>4, <1>5, <1>6, <1>7, <1>8, <1>9, <1>10, <1>11 DEF Next, AcceptLoop

LEMMA AcceptLoopStep ==
  TypeOK /\ AcceptLoopExact /\ WelcomeExact /\ [Next]_vars => AcceptLoopExact'
<1>. SUFFICES ASSUME TypeOK, AcceptLoopExact, WelcomeExact, [Next]_vars PROVE AcceptLoopExact'
  OBVIOUS
<1>. USE DEF TypeOK, AcceptLoopExact, IsRegistered
<1>1. ASSUME NEW c \in Clients, ClientStep(c) PROVE AcceptLoopExact'
  <2>1. CASE Connect(c) \/ ConnectRefused(c)
    BY <2>1 DEF Connect, ConnectRefused, bufferVars, loopVars
  <2>2. CASE SendHello(c) \/ SendFirst(c)
    BY <2>2 DEF SendHello, SendFirst, loopVars
  <2>3. CASE ReceiveAck(c)
    BY <2>3 DEF ReceiveAck, loopVars, WelcomeExact
  <2>. QED
    BY <1>1, <2>1, <2>2, <2>3 DEF ClientStep
<1>2. ASSUME NEW c \in Clients, ClientFails(c) \/ ClientDies(c) PROVE AcceptLoopExact'
  BY <1>2 DEF ClientFails, ClientDies, bufferVars, loopVars
<1>3. ASSUME NEW c \in Clients, ReadFirst(c) PROVE AcceptLoopExact'
  BY <1>3 DEF ReadFirst, clientVars
<1>4. CASE Accept
  <2>1. Head(requests) \in Clients
    BY <1>4 DEF Accept
  <2>2. \A r \in Ranks : hosts[r] # Head(requests)
    BY <1>4, <2>1 DEF Accept, WelcomeExact
  <2>. QED
    BY <1>4, <2>1, <2>2 DEF Accept, bufferVars
<1>5. CASE AcceptFails \/ AckFails
  BY <1>5 DEF AcceptFails, AckFails, GiveUp
<1>6. CASE Register
  BY <1>6 DEF Register, Admissible, clientVars
<1>7. CASE Reject \/ HelloFails
  BY <1>7 DEF Reject, HelloFails, Discard, clientVars
<1>8. CASE SendAck
  BY <1>8 DEF SendAck, clientVars
<1>9. CASE StartReader
  BY <1>9 DEF StartReader, clientVars, bufferVars
<1>10. CASE UNCHANGED vars
  BY <1>10 DEF vars, clientVars, bufferVars, loopVars
<1>. QED
  BY <1>1, <1>2, <1>3, <1>4, <1>5, <1>6, <1>7, <1>8, <1>9, <1>10 DEF Next, AcceptLoop

LEMMA WelcomeStep ==
  TypeOK /\ AcceptLoopExact /\ WelcomeExact /\ [Next]_vars => WelcomeExact'
<1>. SUFFICES ASSUME TypeOK, AcceptLoopExact, WelcomeExact, [Next]_vars PROVE WelcomeExact'
  OBVIOUS
<1>. USE DEF TypeOK, WelcomeExact, OnlyRegisteredRun, IsRegistered
<1>1. ASSUME NEW c \in Clients, ClientStep(c) PROVE WelcomeExact'
  <2>1. CASE Connect(c) \/ ConnectRefused(c)
    BY <2>1 DEF Connect, ConnectRefused, bufferVars, loopVars
  <2>2. CASE SendHello(c) \/ SendFirst(c)
    BY <2>2 DEF SendHello, SendFirst, loopVars
  <2>3. CASE ReceiveAck(c)
    BY <2>3 DEF ReceiveAck, loopVars
  <2>. QED
    BY <1>1, <2>1, <2>2, <2>3 DEF ClientStep
<1>2. ASSUME NEW c \in Clients, ClientFails(c) \/ ClientDies(c) PROVE WelcomeExact'
  BY <1>2 DEF ClientFails, ClientDies, bufferVars, loopVars
<1>3. ASSUME NEW c \in Clients, ReadFirst(c) PROVE WelcomeExact'
  BY <1>3 DEF ReadFirst, clientVars
<1>4. CASE Accept
  <2>1. Head(requests) \in Clients
    BY <1>4 DEF Accept
  <2>. QED
    BY <1>4, <2>1 DEF Accept, bufferVars
<1>5. CASE AcceptFails \/ AckFails
  BY <1>5 DEF AcceptFails, AckFails, GiveUp
<1>6. CASE Register
  <2>1. conn \in Clients /\ client[conn] \notin {"start", "connecting"}
    BY <1>6 DEF Register, AcceptLoopExact
  <2>. QED
    BY <1>6, <2>1 DEF Register, Admissible, clientVars
<1>7. CASE Reject \/ HelloFails
  BY <1>7 DEF Reject, HelloFails, Discard, clientVars
<1>8. CASE SendAck
  BY <1>8 DEF SendAck, clientVars, AcceptLoopExact
<1>9. CASE StartReader
  BY <1>9 DEF StartReader, clientVars, bufferVars
<1>10. CASE UNCHANGED vars
  BY <1>10 DEF vars, clientVars, bufferVars, loopVars
<1>. QED
  BY <1>1, <1>2, <1>3, <1>4, <1>5, <1>6, <1>7, <1>8, <1>9, <1>10 DEF Next, AcceptLoop

LEMMA ConnectionsStep ==
  TypeOK /\ AcceptLoopExact /\ RegistryExact /\ ConnectionsKept /\ [Next]_vars => ConnectionsKept'
<1>. SUFFICES ASSUME TypeOK, AcceptLoopExact, RegistryExact, ConnectionsKept, [Next]_vars
     PROVE ConnectionsKept'
  OBVIOUS
<1>. USE DEF TypeOK, ConnectionsKept
<1>1. ASSUME NEW c \in Clients, ClientStep(c) PROVE ConnectionsKept'
  BY <1>1 DEF ClientStep, Connect, ConnectRefused, SendHello, ReceiveAck, SendFirst, loopVars
<1>2. ASSUME NEW c \in Clients, ClientFails(c) \/ ClientDies(c) \/ ReadFirst(c)
      PROVE ConnectionsKept'
  BY <1>2 DEF ClientFails, ClientDies, ReadFirst, loopVars
<1>3. CASE Accept
  BY <1>3 DEF Accept
<1>4. CASE AcceptFails \/ AckFails
  BY <1>4 DEF AcceptFails, AckFails, GiveUp
<1>5. CASE Register
  \* The connection has been open since it was accepted.
  BY <1>5 DEF Register, AcceptLoopExact
<1>6. CASE Reject \/ HelloFails
  BY <1>6 DEF Reject, HelloFails, Discard, AcceptLoopExact
<1>7. CASE SendAck
  BY <1>7 DEF SendAck
<1>8. CASE StartReader
  <2>1. \A r \in Ranks : hosts[r] # None
    BY <1>8, AllRegistered DEF StartReader
  <2>. QED
    BY <1>8, <2>1 DEF StartReader
<1>9. CASE UNCHANGED vars
  BY <1>9 DEF vars, loopVars
<1>. QED
  BY <1>1, <1>2, <1>3, <1>4, <1>5, <1>6, <1>7, <1>8, <1>9 DEF Next, AcceptLoop

LEMMA RegistryStep ==
  TypeOK /\ AcceptLoopExact /\ RegistryExact /\ [Next]_vars => RegistryExact'
<1>. SUFFICES ASSUME TypeOK, AcceptLoopExact, RegistryExact, [Next]_vars PROVE RegistryExact'
  OBVIOUS
<1>1. CASE Register
  BY <1>1, RegisterExact
<1>2. CASE ~Register
  \* Nothing else touches the registry.
  <2>1. UNCHANGED <<rankOf, hosts, acceptedHosts>>
    BY <1>2
       DEF Next, AcceptLoop, ClientStep, Connect, ConnectRefused, SendHello, ReceiveAck, SendFirst,
           ClientFails, ClientDies, ReadFirst, Accept, AcceptFails, AckFails, GiveUp, Reject,
           HelloFails, Discard, SendAck, StartReader, vars, clientVars, bufferVars, loopVars
  <2>2. { r \in Ranks : hosts'[r] # None } = { r \in Ranks : hosts[r] # None }
    BY <2>1
  <2>3. /\ { hosts'[r] : r \in Ranks } = { hosts[r] : r \in Ranks }
        /\ { acceptedHosts'[n] : n \in DOMAIN acceptedHosts' }
             = { acceptedHosts[n] : n \in DOMAIN acceptedHosts }
    BY <2>1
  <2>4. Len(acceptedHosts') = Len(acceptedHosts)
    BY <2>1
  <2>5. \A r \in Ranks : hosts'[r] # None => rankOf'[hosts'[r]] = r
    BY <2>1 DEF RegistryExact
  <2>. QED
    BY <2>2, <2>3, <2>4, <2>5 DEF RegistryExact
<1>. QED
  BY <1>1, <1>2

LEMMA EarlyMessagesStep ==
  TypeOK /\ AcceptLoopExact /\ EarlyMessagesKept /\ [Next]_vars => EarlyMessagesKept'
<1>. SUFFICES ASSUME TypeOK, AcceptLoopExact, EarlyMessagesKept, [Next]_vars
     PROVE EarlyMessagesKept'
  OBVIOUS
<1>. USE DEF TypeOK, EarlyMessagesKept
<1>1. ASSUME NEW c \in Clients, ClientStep(c) PROVE EarlyMessagesKept'
  <2>1. CASE Connect(c) \/ ConnectRefused(c)
    BY <2>1 DEF Connect, ConnectRefused, bufferVars, loopVars
  <2>2. CASE SendHello(c)
    BY <2>2 DEF SendHello, loopVars
  <2>3. CASE SendFirst(c)
    <3>1. /\ toSwitch'[c] = "DISPATCH_TOKEN"
          /\ \A d \in Clients : d # c => client'[d] = client[d] /\ toSwitch'[d] = toSwitch[d]
          /\ UNCHANGED <<accepting, firstMessage>>
      BY <2>3 DEF SendFirst, loopVars
    <3>. QED
      BY <3>1
  <2>4. CASE ReceiveAck(c)
    BY <2>4 DEF ReceiveAck, loopVars
  <2>. QED
    BY <1>1, <2>1, <2>2, <2>3, <2>4 DEF ClientStep
<1>2. ASSUME NEW c \in Clients, ClientFails(c) \/ ClientDies(c) PROVE EarlyMessagesKept'
  BY <1>2 DEF ClientFails, ClientDies, bufferVars, loopVars
<1>3. ASSUME NEW c \in Clients, ReadFirst(c) PROVE EarlyMessagesKept'
  BY <1>3 DEF ReadFirst, clientVars
<1>4. CASE Accept
  <2>1. Head(requests) \in Clients
    BY <1>4 DEF Accept
  <2>. QED
    BY <1>4, <2>1 DEF Accept, bufferVars
<1>5. CASE AcceptFails \/ AckFails
  BY <1>5 DEF AcceptFails, AckFails, GiveUp
<1>6. CASE Register
  \* A HELLO is not the first message of a host that runs.
  BY <1>6 DEF Register, clientVars
<1>7. CASE Reject \/ HelloFails
  \* The connection that is closed is not registered.
  BY <1>7 DEF Reject, HelloFails, Discard, clientVars, AcceptLoopExact
<1>8. CASE SendAck
  BY <1>8 DEF SendAck, clientVars
<1>9. CASE StartReader
  BY <1>9 DEF StartReader, clientVars, bufferVars
<1>10. CASE UNCHANGED vars
  BY <1>10 DEF vars, clientVars, bufferVars, loopVars
<1>. QED
  BY <1>1, <1>2, <1>3, <1>4, <1>5, <1>6, <1>7, <1>8, <1>9, <1>10 DEF Next, AcceptLoop

LEMMA InitHolds == Init => IInv
<1>. SUFFICES ASSUME Init PROVE IInv
  OBVIOUS
<1>1. TypeOK
  <2>1. << >> \in Seq(Clients) /\ 0 .. NumHosts \subseteq Nat
    OBVIOUS
  <2>. QED
    BY <2>1 DEF Init, TypeOK, ClientState, AcceptState
<1>2. RegistryExact
  <2>1. /\ \A r \in Ranks : hosts[r] = None
        /\ acceptedHosts = << >>
    BY DEF Init
  <2>2. { r \in Ranks : hosts[r] # None } = {} /\ { hosts[r] : r \in Ranks } \ {None} = {}
    BY <2>1
  <2>3. { acceptedHosts[n] : n \in DOMAIN acceptedHosts } = {} /\ Len(acceptedHosts) = 0
    BY <2>1
  <2>. QED
    BY <2>1, <2>2, <2>3, FS_EmptySet DEF RegistryExact
<1>3. AcceptLoopExact /\ WelcomeExact /\ ConnectionsKept /\ EarlyMessagesKept
  BY DEF Init, AcceptLoopExact, WelcomeExact, OnlyRegisteredRun, ConnectionsKept, EarlyMessagesKept
<1>. QED
  BY <1>1, <1>2, <1>3 DEF IInv

THEOREM Inductive == Spec => []IInv
<1>1. IInv /\ [Next]_vars => IInv'
  BY TypeStep, AcceptLoopStep, WelcomeStep, ConnectionsStep, RegistryStep, EarlyMessagesStep DEF IInv
<1>. QED
  BY <1>1, InitHolds, PTL DEF Spec

-----------------------------------------------------------------------------
(* What the runs check, for every value of the constants *)

\* The registry of the accept loop is exact: hosts and accepted_hosts hold the
\* same connections, each once and under the rank of its process.
THEOREM RegistryExactAlways == Spec => []RegistryExact
<1>1. IInv => RegistryExact
  BY DEF IInv
<1>. QED
  BY <1>1, Inductive, PTL

\* No host_reader_loop runs before every rank is registered and connected.
THEOREM ReadersFindEveryHostAlways == Spec => []ReadersFindEveryHost
<1>1. IInv => ReadersFindEveryHost
  BY DEF IInv, ConnectionsKept, ReadersFindEveryHost
<1>. QED
  BY <1>1, Inductive, PTL

\* No process starts its threads unless it is the registered host of its rank.
THEOREM OnlyRegisteredRunAlways == Spec => []OnlyRegisteredRun
<1>1. IInv => OnlyRegisteredRun
  BY DEF IInv, WelcomeExact
<1>. QED
  BY <1>1, Inductive, PTL

\* What a host sends before the readers start is not lost.
THEOREM EarlyMessagesKeptAlways == Spec => []EarlyMessagesKept
<1>1. IInv => EarlyMessagesKept
  BY DEF IInv
<1>. QED
  BY <1>1, Inductive, PTL
=============================================================================
