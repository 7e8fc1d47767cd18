----------------------------- MODULE Handshake ------------------------------
(***************************************************************************)
(* How a run starts: host processes connect to the switch and send HELLO,  *)
(* and the switch, in one thread, accepts one connection after another     *)
(* until every rank is connected, and only then starts a reader for each.  *)
(* A host that has its HELLO ACK starts at once, while others are still on *)
(* their way.  Processes may be started with a rank that is taken or out   *)
(* of range, and may die at any point.                                     *)
(***************************************************************************)
EXTENDS Integers, Sequences, FiniteSets

CONSTANTS
  NumHosts,   \* num_hosts of the switch's command line
  Clients,    \* the host processes that somebody starts
  Backlog,    \* the number of requests rdma_listen lets wait (8 in sr_listen)
  MaxDeaths,  \* the number of clients that die before the switch has started
  None        \* no message, no client

ASSUME HandshakeAssumption ==
  /\ NumHosts \in 1 .. 64
  /\ Backlog \in Nat \ {0}
  /\ MaxDeaths \in Nat
  /\ IsFiniteSet(Clients)
  /\ None \notin Clients \cup {"HELLO", "ACK", "DISPATCH_TOKEN"}

Ranks == 0 .. NumHosts - 1

VARIABLES
  rankOf,         \* [Clients -> the rank on the client's command line]
  client,         \* [Clients -> what the client's main is doing]
  toSwitch,       \* [Clients -> message in the switch's buffer for that client]
  toClient,       \* [Clients -> message in the client's buffer]
  requests,       \* connection requests that wait in the listener, oldest first
  accepting,      \* what the iteration of the accept loop is doing
  conn,           \* the client whose connection it has accepted, or None
  hosts,          \* SwitchState::hosts: [Ranks -> client, or None]
  acceptedHosts,  \* accepted_hosts
  switchEnd,      \* clients whose connection the switch holds open
  readers,        \* clients that have a reader thread
  firstMessage    \* clients whose first message their reader has got

clientVars == <<rankOf, client>>
bufferVars == <<toSwitch, toClient>>
loopVars == <<accepting, conn, hosts, acceptedHosts, switchEnd, readers, firstMessage>>
vars == <<clientVars, bufferVars, requests, loopVars>>

\* "ended" is an early return of main; "running" is as far as this module follows.
ClientState == { "start", "connecting", "connected", "hello", "acked", "running", "ended", "dead" }

\* "failed" is main's return 4 or 5.
AcceptState == { "accept", "hello", "ack", "start", "failed" }

TypeOK ==
  /\ rankOf \in [Clients -> Nat]
  /\ client \in [Clients -> ClientState]
  /\ toSwitch \in [Clients -> {"HELLO", "DISPATCH_TOKEN", None}]
  /\ toClient \in [Clients -> {"ACK", None}]
  /\ requests \in Seq(Clients)
  /\ accepting \in AcceptState
  /\ conn \in Clients \cup {None}
  /\ hosts \in [Ranks -> Clients \cup {None}]
  /\ acceptedHosts \in Seq(Clients)
  /\ switchEnd \in SUBSET Clients
  /\ readers \in SUBSET Clients
  /\ firstMessage \in SUBSET Clients

\* main of the host checks the rank against its own num_hosts, which may be
\* larger than the switch's: NumHosts stands for every rank that is too large.
Init ==
  /\ rankOf \in [Clients -> 0 .. NumHosts]
  /\ client = [c \in Clients |-> "start"]
  /\ toSwitch = [c \in Clients |-> None]
  /\ toClient = [c \in Clients |-> None]
  /\ requests = << >>
  /\ accepting = "accept"
  /\ conn = None
  /\ hosts = [r \in Ranks |-> None]
  /\ acceptedHosts = << >>
  /\ switchEnd = {}
  /\ readers = {}
  /\ firstMessage = {}

-----------------------------------------------------------------------------
(* A host process *)

\* The listener of sr_listen has no room for another request.
ListenerFull == Len(requests) >= Backlog

\* sr_connect asks for a connection, if the listener has room for the request.
Connect(c) ==
  /\ client[c] = "start"
  /\ accepting # "failed"
  /\ ~ListenerFull
  /\ requests' = Append(requests, c)
  /\ client' = [client EXCEPT ![c] = "connecting"]
  /\ UNCHANGED <<rankOf, bufferVars, loopVars>>

\* rdma_connect fails: main returns 4 and nothing tries again.
ConnectRefused(c) ==
  /\ client[c] = "start"
  /\ accepting = "failed" \/ ListenerFull
  /\ client' = [client EXCEPT ![c] = "ended"]
  /\ UNCHANGED <<rankOf, bufferVars, requests, loopVars>>

\* sr_write of HELLO into the buffer that sr_accept has posted.
SendHello(c) ==
  /\ client[c] = "connected"
  /\ c \in switchEnd /\ toSwitch[c] = None
  /\ toSwitch' = [toSwitch EXCEPT ![c] = "HELLO"]
  /\ client' = [client EXCEPT ![c] = "hello"]
  /\ UNCHANGED <<rankOf, toClient, requests, loopVars>>

\* sr_read returns the ACK, and main goes on to start its threads.
ReceiveAck(c) ==
  /\ client[c] = "hello"
  /\ toClient[c] = "ACK"
  /\ toClient' = [toClient EXCEPT ![c] = None]
  /\ client' = [client EXCEPT ![c] = "acked"]
  /\ UNCHANGED <<rankOf, toSwitch, requests, loopVars>>

\* The send thread writes the first DISPATCH_TOKEN.
SendFirst(c) ==
  /\ client[c] = "acked"
  /\ c \in switchEnd /\ toSwitch[c] = None
  /\ toSwitch' = [toSwitch EXCEPT ![c] = "DISPATCH_TOKEN"]
  /\ client' = [client EXCEPT ![c] = "running"]
  /\ UNCHANGED <<rankOf, toClient, requests, loopVars>>

\* rdma_connect fails once the switch has gone, and a write once it has closed
\* its end; a read may fail then, or never return.  main returns 4, 5 or 6, or
\* the runtime shuts down.
ClientFails(c) ==
  /\ \/ client[c] = "connecting" /\ accepting = "failed"
     \/ /\ client[c] \in {"connected", "hello", "acked"}
        /\ c \notin switchEnd /\ toClient[c] = None
  /\ client' = [client EXCEPT ![c] = "ended"]
  /\ UNCHANGED <<rankOf, bufferVars, requests, loopVars>>

ClientDies(c) ==
  /\ client[c] \in {"connecting", "connected", "hello", "acked", "running"}
  /\ Cardinality({d \in Clients : client[d] = "dead"}) < MaxDeaths
  /\ accepting # "start"
  /\ client' = [client EXCEPT ![c] = "dead"]
  /\ toClient' = [toClient EXCEPT ![c] = None]
  /\ UNCHANGED <<rankOf, toSwitch, requests, loopVars>>

ClientStep(c) ==
  Connect(c) \/ ConnectRefused(c) \/ SendHello(c) \/ ReceiveAck(c) \/ SendFirst(c)

-----------------------------------------------------------------------------
(* The accept loop of the switch *)

\* sr_accept: take the oldest request, post a receive, accept.
Accept ==
  /\ accepting = "accept" /\ Len(acceptedHosts) < NumHosts
  /\ requests # << >>
  /\ client[Head(requests)] = "connecting"
  /\ conn' = Head(requests)
  /\ requests' = Tail(requests)
  /\ switchEnd' = switchEnd \cup {conn'}
  /\ client' = [client EXCEPT ![conn'] = "connected"]
  /\ accepting' = "hello"
  /\ UNCHANGED <<rankOf, bufferVars, hosts, acceptedHosts, readers, firstMessage>>

\* main returns 4 or 5, and the process takes every connection with it.
GiveUp ==
  /\ accepting' = "failed"
  /\ conn' = None
  /\ switchEnd' = {}
  /\ requests' = << >>
  /\ toSwitch' = [c \in Clients |-> None]
  /\ UNCHANGED <<rankOf, client, toClient, hosts, acceptedHosts, readers, firstMessage>>

\* rdma_accept fails because the client that asked has died: return 4.
AcceptFails ==
  /\ accepting = "accept" /\ Len(acceptedHosts) < NumHosts
  /\ requests # << >>
  /\ client[Head(requests)] = "dead"
  /\ GiveUp

\* Seeded fault: the rank is not looked up among the registered ones.
AdmissibleTwice(rank) == rank \in Ranks

\* Seeded fault: the upper bound of the rank is off by one.
AdmissibleAbove(rank) == rank \in 0 .. NumHosts /\ (rank \in Ranks => hosts[rank] = None)

\* The rank of a HELLO is in range and not registered yet.
Admissible(rank) == rank \in Ranks /\ hosts[rank] = None

\* sr_read returns a HELLO whose rank is welcome: register the connection.
Register ==
  /\ accepting = "hello"
  /\ toSwitch[conn] = "HELLO"
  /\ Admissible(rankOf[conn])
  /\ toSwitch' = [toSwitch EXCEPT ![conn] = None]
  /\ hosts' = [hosts EXCEPT ![rankOf[conn]] = conn]
  /\ acceptedHosts' = Append(acceptedHosts, conn)
  /\ accepting' = "ack"
  /\ UNCHANGED <<clientVars, toClient, requests, conn, switchEnd, readers, firstMessage>>

\* Seeded fault: a duplicate closes the connection that is registered.
DiscardRegistered ==
  LET victim == IF rankOf[conn] \in Ranks THEN hosts[rankOf[conn]] ELSE conn
  IN  /\ accepting' = "accept"
      /\ conn' = None
      /\ switchEnd' = switchEnd \ {victim}
      /\ toSwitch' = [c \in Clients |-> IF c = victim THEN None ELSE toSwitch[c]]
      /\ UNCHANGED <<clientVars, toClient, requests, hosts, acceptedHosts, readers, firstMessage>>

\* sr_close(conn), --i, continue.
Discard ==
  /\ accepting' = "accept"
  /\ conn' = None
  /\ switchEnd' = switchEnd \ {conn}
  /\ toSwitch' = [toSwitch EXCEPT ![conn] = None]
  /\ UNCHANGED <<clientVars, toClient, requests, hosts, acceptedHosts, readers, firstMessage>>

\* sr_read returns a HELLO whose rank is out of range or taken.
Reject ==
  /\ accepting = "hello"
  /\ toSwitch[conn] = "HELLO"
  /\ ~Admissible(rankOf[conn])
  /\ Discard

\* sr_read fails because the client has died.  It may also poll for ever.
HelloFails ==
  /\ accepting = "hello"
  /\ toSwitch[conn] = None
  /\ client[conn] = "dead"
  /\ Discard

\* send_to_host of the HELLO ACK.
SendAck ==
  /\ accepting = "ack"
  /\ client[conn] # "dead"
  /\ toClient[conn] = None
  /\ toClient' = [toClient EXCEPT ![conn] = "ACK"]
  /\ conn' = None
  /\ accepting' = "accept"
  /\ UNCHANGED <<clientVars, toSwitch, requests, hosts, acceptedHosts, switchEnd, readers, firstMessage>>

\* The HELLO ACK cannot be sent because the client has died: return 5.
AckFails ==
  /\ accepting = "ack"
  /\ client[conn] = "dead"
  /\ GiveUp

\* Seeded fault: the loop ends one host too early.
LoopDoneEarly == Len(acceptedHosts) >= NumHosts - 1

\* The condition of the for loop is false.
LoopDone == Len(acceptedHosts) >= NumHosts

\* One reader thread after the other is started, in the order of acceptance.
StartReader ==
  /\ accepting \in {"accept", "start"} /\ LoopDone
  /\ Cardinality(readers) < Len(acceptedHosts)
  /\ accepting' = "start"
  /\ readers' = readers \cup {acceptedHosts[Cardinality(readers) + 1]}
  /\ UNCHANGED <<clientVars, bufferVars, requests, conn, hosts, acceptedHosts, switchEnd, firstMessage>>

\* host_reader_loop reads the first message of its host.
ReadFirst(c) ==
  /\ c \in readers
  /\ toSwitch[c] = "DISPATCH_TOKEN"
  /\ toSwitch' = [toSwitch EXCEPT ![c] = None]
  /\ firstMessage' = firstMessage \cup {c}
  /\ UNCHANGED <<clientVars, toClient, requests, accepting, conn, hosts, acceptedHosts, switchEnd, readers>>

AcceptLoop ==
  Accept \/ AcceptFails \/ Register \/ Reject \/ SendAck \/ AckFails \/ StartReader

Next ==
  \/ \E c \in Clients : ClientStep(c) \/ ClientFails(c) \/ ClientDies(c) \/ ReadFirst(c)
  \/ AcceptLoop \/ HelloFails

Spec == Init /\ [][Next]_vars

\* Every process that can take a step takes one in the end.  Nobody has to
\* die, and no sr_read has to fail.
FairSpec ==
  /\ Spec
  /\ \A c \in Clients : WF_vars(ClientStep(c)) /\ WF_vars(ReadFirst(c))
  /\ WF_vars(AcceptLoop)

-----------------------------------------------------------------------------
(* Properties *)

\* The registry is exact: each connection is under the rank of the process at
\* its other end, no process is there twice, and hosts and accepted_hosts name
\* the same connections, which is what the reader threads and find_host rely on.
RegistryExact ==
  /\ \A r \in Ranks : hosts[r] # None => rankOf[hosts[r]] = r
  /\ { hosts[r] : r \in Ranks } \ {None} = { acceptedHosts[n] : n \in DOMAIN acceptedHosts }
  /\ Len(acceptedHosts) = Cardinality({ r \in Ranks : hosts[r] # None })

\* A reader only ever runs when every rank is registered with an open
\* connection: a token dispatched to any expert finds its host.  This is where
\* the model of the running system starts.
ReadersFindEveryHost ==
  readers # {} => \A r \in Ranks : hosts[r] # None /\ hosts[r] \in switchEnd

\* A process starts its threads only if it is the registered host of its rank;
\* one that is turned away, because its rank is taken or too large, never does.
OnlyRegisteredRun ==
  \A c \in Clients :
    client[c] \in {"acked", "running"} => rankOf[c] \in Ranks /\ hosts[rankOf[c]] = c

\* What a host sends before the readers start stays in its buffer until its own
\* reader takes it: the accept loop never reads a connection it has registered.
EarlyMessagesKept ==
  \A c \in Clients :
    client[c] = "running" /\ accepting # "failed" =>
      c \in firstMessage \/ toSwitch[c] = "DISPATCH_TOKEN"

\* A client has ended early or died.
Lost(c) == client[c] \in {"ended", "dead"}

\* Every rank is on the command line of some client that is not lost.
EveryRankServed == \A r \in Ranks : \E c \in Clients : rankOf[c] = r /\ ~Lost(c)

\* If no client dies and every rank keeps a client that has not ended, the switch
\* starts its readers and each gets the first message of its host, whatever the
\* order of arrival and however many other clients are turned away.
RunStarts ==
  [](EveryRankServed /\ \A c \in Clients : client[c] # "dead")
    => <>(\A r \in Ranks : hosts[r] \in firstMessage)
=============================================================================
