------------------------------ MODULE HostLoops ------------------------------
(***************************************************************************)
(* The three arrangements of a host's loops.  In mode "four" its threads   *)
(* are those of Host.  In mode "io" one thread runs io_combined_loop in    *)
(* place of the send and the read thread: it writes up to 64 messages of   *)
(* the send queue, and only then reads.  In mode "all" one thread runs     *)
(* all_combined_loop: a control tick, a compute task, the writes, a read.  *)
(* The handlers are the same, so an action here is an action of Host with  *)
(* its place in the loop.                                                  *)
(***************************************************************************)
EXTENDS INASystem

CONSTANTS
  LoopModes,    \* the loop modes that hosts are started with
  DrainLimit    \* messages drain_send_queue writes at most: 64 in the code

ASSUME LoopAssumption ==
  /\ LoopModes \subseteq {"four", "io", "all"}
  /\ DrainLimit \in Nat \ {0}

VARIABLES
  loopMode,   \* [Hosts -> loop_mode]
  loopAt,     \* [Hosts -> what the combined loop does next]
  drained     \* [Hosts -> messages the current drain_send_queue has popped]

loopVars == <<loopMode, loopAt, drained>>
allVars == <<vars, loopVars>>

LoopTypeOK ==
  /\ loopMode \in [Hosts -> LoopModes]
  /\ loopAt \in [Hosts -> {"control", "compute", "drain", "read"}]
  /\ drained \in [Hosts -> 0 .. DrainLimit]

\* Seeded fault: control_tick is called before the loop only.
LoopHeadWithoutControl(mode) == IF mode = "all" THEN "compute" ELSE "drain"

\* Where a combined loop begins.
LoopHead(mode) == IF mode = "all" THEN "control" ELSE "drain"

LoopInit ==
  /\ Init
  /\ loopMode \in [Hosts -> LoopModes]
  /\ loopAt = [h \in Hosts |-> LoopHead(loopMode[h])]
  /\ drained = [h \in Hosts |-> 0]

GoTo(h, place) ==
  /\ loopAt' = [loopAt EXCEPT ![h] = place]
  /\ drained' = [drained EXCEPT ![h] = 0]
  /\ UNCHANGED loopMode

-----------------------------------------------------------------------------
(* drain_send_queue *)

DrainPop(h) ==
  /\ loopAt[h] = "drain"
  /\ drained[h] < DrainLimit
  /\ SendPop(h)
  /\ drained' = [drained EXCEPT ![h] = @ + 1]
  /\ UNCHANGED <<loopMode, loopAt>>

DrainWrite(h) ==
  /\ loopAt[h] = "drain"
  /\ SendWrite(h)
  /\ UNCHANGED loopVars

DrainDone(h) ==
  /\ running[h]
  /\ loopAt[h] = "drain"
  /\ sending[h] = None
  /\ sendQueue[h] = << >> \/ drained[h] = DrainLimit
  /\ GoTo(h, "read")
  /\ UNCHANGED <<linkVars, hostVars>>

\* sr_read_for with a message, and its handler.
LoopRead(h) ==
  /\ loopAt[h] = "read"
  /\ ReadThread(h)
  /\ GoTo(h, LoopHead(loopMode[h]))

\* sr_read_for finds no message for 1 ms.
LoopTimeout(h) ==
  /\ running[h]
  /\ loopAt[h] = "read"
  /\ toHost[h] = None
  /\ GoTo(h, LoopHead(loopMode[h]))
  /\ UNCHANGED <<linkVars, hostVars>>

DrainAndRead(h) ==
  DrainPop(h) \/ DrainWrite(h) \/ DrainDone(h) \/ LoopRead(h) \/ LoopTimeout(h)

-----------------------------------------------------------------------------
(* The rest of all_combined_loop *)

\* The pushes that the first admission and control_tick still owe.
LoopPush(h) ==
  /\ AdmitToken(h) \/ EnqueuePull(h) \/ EnqueueFinish(h)
  /\ UNCHANGED loopVars

LoopControl(h) ==
  /\ loopAt[h] = "control"
  /\ running[h]
  /\ ControlTick(h)
  /\ GoTo(h, "compute")

\* At the try_pop of the compute queue.
AtCompute(h) ==
  /\ loopAt[h] = "compute"
  /\ needPull[h] = {} /\ ~admitting[h] /\ ~sendFinish[h]

LoopComputePop(h) ==
  /\ AtCompute(h)
  /\ ComputePop(h)
  /\ UNCHANGED loopVars

LoopComputeTask(h) ==
  /\ AtCompute(h)
  /\ ProcessLocalAttention(h) \/ ProcessExpertMlp(h)
  /\ GoTo(h, "drain")

LoopNoTask(h) ==
  /\ AtCompute(h)
  /\ computing[h] = None /\ computeQueue[h] = << >>
  /\ GoTo(h, "drain")
  /\ UNCHANGED <<linkVars, hostVars>>

-----------------------------------------------------------------------------
(* The threads of a host in each mode *)

FourLoops(h) ==
  /\ loopMode[h] = "four"
  /\ ControlThread(h) \/ ComputeThread(h) \/ SendThread(h) \/ ReadThread(h)
  /\ UNCHANGED loopVars

\* The control and the compute thread beside io_combined_loop.
IoOtherLoops(h) ==
  /\ loopMode[h] = "io"
  /\ ControlThread(h) \/ ComputeThread(h)
  /\ UNCHANGED loopVars

IoCombinedLoop(h) == loopMode[h] = "io" /\ DrainAndRead(h)

AllCombinedLoop(h) ==
  /\ loopMode[h] = "all"
  /\ \/ DrainAndRead(h)
     \/ LoopPush(h) \/ LoopControl(h)
     \/ LoopComputePop(h) \/ LoopComputeTask(h) \/ LoopNoTask(h)

LoopHostStep(h) ==
  \/ FourLoops(h)
  \/ IoOtherLoops(h)
  \/ IoCombinedLoop(h)
  \/ AllCombinedLoop(h)
  \/ (BackOffExpires(h) \/ HostExit(h)) /\ UNCHANGED loopVars

\* The thread of a host that reads from the switch.
ReceivingLoop(h) ==
  \/ loopMode[h] = "four" /\ ReadThread(h) /\ UNCHANGED loopVars
  \/ IoCombinedLoop(h)
  \/ AllCombinedLoop(h)

LoopNext ==
  \/ \E h \in Hosts : LoopHostStep(h) /\ UNCHANGED switchVars
  \/ \E r \in Hosts : SwitchStep(r) /\ UNCHANGED <<hostVars, loopVars>>
  \/ Terminated /\ UNCHANGED allVars

LoopSpec == LoopInit /\ [][LoopNext]_allVars

\* The threads of Fairness in INASystem, with a combined loop as one thread.
LoopFairness ==
  /\ \A h \in Hosts :
       /\ WF_allVars(ReceivingLoop(h) /\ UNCHANGED switchVars)
       /\ WF_allVars(loopMode[h] = "four" /\ SendThread(h) /\ UNCHANGED <<switchVars, loopVars>>)
       /\ WF_allVars(loopMode[h] # "all" /\ ControlThread(h) /\ UNCHANGED <<switchVars, loopVars>>)
       /\ WF_allVars(loopMode[h] # "all" /\ ComputeThread(h) /\ UNCHANGED <<switchVars, loopVars>>)
       /\ WF_allVars(BackOffExpires(h) /\ UNCHANGED <<switchVars, loopVars>>)
       /\ WF_allVars(HostExit(h) /\ UNCHANGED <<switchVars, loopVars>>)
  /\ \A r \in Hosts :
       /\ WF_allVars(ReaderHandle(r) /\ UNCHANGED <<hostVars, loopVars>>)
       /\ SF_allVars(ReaderSend(r) /\ UNCHANGED <<hostVars, loopVars>>)

FairLoopSpec == LoopSpec /\ LoopFairness

-----------------------------------------------------------------------------
(* Safety *)

\* A cycle of waiting.  The host's one I/O thread waits in sr_write until the
\* switch has read its last message; its reader waits in sr_write until the
\* host has read its last message.  Neither ever goes on.
WritesToEachOther(h) ==
  /\ loopMode[h] # "four"
  /\ sending[h] # None /\ toSwitch[h] # None
  /\ toHost[h] # None
  /\ h \in targets[h] \/ reply[h] # None

\* No host and its reader on the switch ever wait for each other to read.  No
\* guard of the code prevents it: it holds while there are few messages, with
\* two hosts and a window of one, and no longer with three hosts or more tokens
\* in the window.
NoWriteCycle == \A h \in Hosts : ~WritesToEachOther(h)
=============================================================================
