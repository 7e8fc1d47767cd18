------------------------------ MODULE Teardown -------------------------------
(***************************************************************************)
(* How the switch stops.  The reader that takes the last FINISH closes the *)
(* connections of all hosts, and with them those that the other readers    *)
(* are polling: sr_close disconnects, which lets a reader that polls again *)
(* see its receive fail, and then destroys what that reader polls.  The    *)
(* module starts when every other message has been handled.                *)
(***************************************************************************)
EXTENDS Integers

CONSTANT NumHosts

Hosts == 0 .. NumHosts - 1

VARIABLES
  sentFinish,     \* hosts whose FINISH waits in the switch's receive buffer
  finishedHosts,  \* SwitchState::finished_hosts
  running,        \* SwitchState::running
  reader,         \* [Hosts -> where the reader thread is: see ReaderState]
  remaining,      \* hosts that the last reader has yet to send to or to close
  conn,           \* [Hosts -> the SrConn: "open", "disconnected" or "freed"]
  pointer,        \* [Hosts -> HostConn::conn is not null]
  main            \* "join", "closed"

vars == <<sentFinish, finishedHosts, running, reader, remaining, conn, pointer, main>>

\* "loop": at the loop condition; "checked": host->conn was not null;
\* "polling": in wait_cq of sr_read; "broadcast" and "closing": the last one.
ReaderState == { "loop", "checked", "polling", "broadcast", "closing", "left" }

Init ==
  /\ sentFinish = {}
  /\ finishedHosts = {}
  /\ running = TRUE
  /\ reader = [r \in Hosts |-> "loop"]
  /\ remaining = {}
  /\ conn = [h \in Hosts |-> "open"]
  /\ pointer = [h \in Hosts |-> TRUE]
  /\ main = "join"

\* The host the last reader deals with: they are in the order of the map.
Current(h) == h \in remaining /\ \A g \in remaining : h <= g

-----------------------------------------------------------------------------
(* Every reader *)

HostFinishes(h) ==
  /\ h \notin sentFinish \cup finishedHosts
  /\ sentFinish' = sentFinish \cup {h}
  /\ UNCHANGED <<finishedHosts, running, reader, remaining, conn, pointer, main>>

\* The loop condition, and the test of host->conn.
LoopTest(r) ==
  /\ reader[r] = "loop"
  /\ reader' = [reader EXCEPT ![r] = IF running /\ pointer[r] THEN "checked" ELSE "left"]
  /\ UNCHANGED <<sentFinish, finishedHosts, running, remaining, conn, pointer, main>>

\* sr_read is called with host->conn, which it takes as it is now.
EnterRead(r) ==
  /\ reader[r] = "checked"
  /\ reader' = [reader EXCEPT ![r] = IF pointer[r] THEN "polling" ELSE "left"]
  /\ UNCHANGED <<sentFinish, finishedHosts, running, remaining, conn, pointer, main>>

\* sr_read returns FINISH; mark_host_finished tells the last reader.
ReceiveFinish(r) ==
  /\ reader[r] = "polling" /\ conn[r] = "open"
  /\ r \in sentFinish
  /\ sentFinish' = sentFinish \ {r}
  /\ finishedHosts' = finishedHosts \cup {r}
  /\ IF finishedHosts' = Hosts
     THEN reader' = [reader EXCEPT ![r] = "broadcast"] /\ remaining' = Hosts
     ELSE reader' = [reader EXCEPT ![r] = "loop"] /\ UNCHANGED remaining
  /\ UNCHANGED <<running, conn, pointer, main>>

\* The receive is flushed: wait_cq fails, and so does sr_read.
ReadFails(r) ==
  /\ reader[r] = "polling" /\ conn[r] = "disconnected"
  /\ reader' = [reader EXCEPT ![r] = "left"]
  /\ UNCHANGED <<sentFinish, finishedHosts, running, remaining, conn, pointer, main>>

\* ibv_poll_cq on a queue that is destroyed, found through freed memory, may
\* fail or find nothing.
PollFreed(r) ==
  /\ reader[r] = "polling" /\ conn[r] = "freed"
  /\ reader' \in { reader, [reader EXCEPT ![r] = "left"] }
  /\ UNCHANGED <<sentFinish, finishedHosts, running, remaining, conn, pointer, main>>

-----------------------------------------------------------------------------
(* The last reader *)

\* One iteration of broadcast_finish.
SendFinish(r) ==
  /\ reader[r] = "broadcast"
  /\ \E h \in Hosts : Current(h) /\ remaining' = remaining \ {h}
  /\ UNCHANGED <<sentFinish, finishedHosts, running, reader, conn, pointer, main>>

StopRunning(r) ==
  /\ reader[r] = "broadcast" /\ remaining = {}
  /\ running' = FALSE
  /\ reader' = [reader EXCEPT ![r] = "closing"]
  /\ remaining' = Hosts
  /\ UNCHANGED <<sentFinish, finishedHosts, conn, pointer, main>>

\* rdma_disconnect in destroy_conn_resources.
Disconnect(r) ==
  /\ reader[r] = "closing"
  /\ \E h \in Hosts : Current(h) /\ conn[h] = "open" /\ conn' = [conn EXCEPT ![h] = "disconnected"]
  /\ UNCHANGED <<sentFinish, finishedHosts, running, reader, remaining, pointer, main>>

\* The rest of destroy_conn_resources, and the delete.
Destroy(r) ==
  /\ reader[r] = "closing"
  /\ \E h \in Hosts :
       Current(h) /\ conn[h] = "disconnected" /\ conn' = [conn EXCEPT ![h] = "freed"]
  /\ UNCHANGED <<sentFinish, finishedHosts, running, reader, remaining, pointer, main>>

\* host->conn = nullptr
ClearPointer(r) ==
  /\ reader[r] = "closing"
  /\ \E h \in Hosts :
       /\ Current(h) /\ conn[h] = "freed"
       /\ pointer' = [pointer EXCEPT ![h] = FALSE]
       /\ remaining' = remaining \ {h}
  /\ UNCHANGED <<sentFinish, finishedHosts, running, reader, conn, main>>

LastReaderLeaves(r) ==
  /\ reader[r] = "closing" /\ remaining = {}
  /\ reader' = [reader EXCEPT ![r] = "left"]
  /\ UNCHANGED <<sentFinish, finishedHosts, running, remaining, conn, pointer, main>>

\* main has joined the readers; no connection is left for it to close.
MainCloses ==
  /\ main = "join"
  /\ \A r \in Hosts : reader[r] = "left"
  /\ main' = "closed"
  /\ UNCHANGED <<sentFinish, finishedHosts, running, reader, remaining, conn, pointer>>

Next ==
  \/ \E r \in Hosts :
       \/ HostFinishes(r)
       \/ LoopTest(r) \/ EnterRead(r) \/ ReceiveFinish(r) \/ ReadFails(r) \/ PollFreed(r)
       \/ SendFinish(r) \/ StopRunning(r)
       \/ Disconnect(r) \/ Destroy(r) \/ ClearPointer(r) \/ LastReaderLeaves(r)
  \/ MainCloses

Spec == Init /\ [][Next]_vars

-----------------------------------------------------------------------------
(* Property *)

\* No reader polls a connection that has been freed: a switch that "closed
\* normally" has left every sr_read before it destroys what the read uses.
ReadersUseLiveConnections ==
  \A r \in Hosts : reader[r] = "polling" => conn[r] # "freed"
=============================================================================
