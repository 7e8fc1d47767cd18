------------------------------- MODULE Links --------------------------------
(***************************************************************************)
(* The reliable connection between each host and the switch, as the code   *)
(* above the verbs sees it.  Each end of a connection posts exactly one    *)
(* receive buffer and posts it again only inside the next sr_read, so a    *)
(* direction of a connection holds at most one message that nobody has     *)
(* read.  sr_write waits for the completion of its send, which a reliable  *)
(* connection (rnr_retry_count = 7: retry for ever) reports once the peer  *)
(* has a buffer posted: a writer is blocked while the buffer is full.  A   *)
(* write succeeds only while the peer's end is open.                       *)
(***************************************************************************)
EXTENDS Protocol

VARIABLES
  toSwitch,    \* [Hosts -> unread message in the switch's buffer for that host]
  toHost,      \* [Hosts -> unread message in the host's buffer]
  hostEnd,     \* [Hosts -> the host has not yet called sr_close]
  switchEnd    \* [Hosts -> the switch has not yet called sr_close on it]

linkVars == <<toSwitch, toHost, hostEnd, switchEnd>>

LinksTypeOK ==
  /\ toSwitch \in [Hosts -> Message \cup {None}]
  /\ toHost \in [Hosts -> Message \cup {None}]
  /\ hostEnd \in [Hosts -> BOOLEAN]
  /\ switchEnd \in [Hosts -> BOOLEAN]

LinksInit ==
  /\ toSwitch = [h \in Hosts |-> None]
  /\ toHost = [h \in Hosts |-> None]
  /\ hostEnd = [h \in Hosts |-> TRUE]
  /\ switchEnd = [h \in Hosts |-> TRUE]

\* sr_write on the host's end.
WriteToSwitch(h, m) ==
  /\ toSwitch[h] = None /\ switchEnd[h]
  /\ toSwitch' = [toSwitch EXCEPT ![h] = m]
  /\ UNCHANGED <<toHost, hostEnd, switchEnd>>

\* sr_write on the switch's end, under the HostConn's write_mutex.
WriteToHost(h, m) ==
  /\ toHost[h] = None /\ hostEnd[h]
  /\ toHost' = [toHost EXCEPT ![h] = m]
  /\ UNCHANGED <<toSwitch, hostEnd, switchEnd>>

\* sr_read on the host's end: copy the message out and post the buffer again.
ReadFromSwitch(h, type) ==
  /\ toHost[h] # None
  /\ toHost[h].type = type
  /\ toHost' = [toHost EXCEPT ![h] = None]
  /\ UNCHANGED <<toSwitch, hostEnd, switchEnd>>

\* sr_read on the switch's end.
ReadFromHost(h, type) ==
  /\ toSwitch[h] # None
  /\ toSwitch[h].type = type
  /\ toSwitch' = [toSwitch EXCEPT ![h] = None]
  /\ UNCHANGED <<toHost, hostEnd, switchEnd>>
=============================================================================
