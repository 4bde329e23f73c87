------------------------------- MODULE Recovery ------------------------------
(***************************************************************************)
(* Failover of a logical region (TpccBenchmarkMain.cpp, the monitor of     *)
(* each compute node): when the primary has failed every compute node      *)
(* pauses its executor, flushes its log, meets the others at a fence,      *)
(* drops its cache, removes the primary from its groups, asks the memory   *)
(* nodes one after the other whether they replayed everything, and         *)
(* resumes.  The model ends there: the work after the recovery is not      *)
(* part of it.                                                             *)
(***************************************************************************)
EXTENDS LogReplay

CONSTANT Asked    \* the memory nodes, in the order in which they are asked

VARIABLES
    failed,    \* the failure of the primary has been announced
    phase,     \* compute -> how far its recovery is
    asking     \* compute -> how many of the memory nodes it has asked

redoVars == <<logVars, replayVars, failed, phase, asking>>

RecoveryInit ==
    /\ failed = FALSE
    /\ phase = [c \in Computes |-> "run"]
    /\ asking = [c \in Computes |-> 0]

Update(c, p) == phase[c] = "run" /\ LogUpdate(c, p) /\ UNCHANGED <<replayVars, failed, phase, asking>>

RecycleAck(c, m) == HandleLogSegmentRecycle(c, m) /\ UNCHANGED <<replayVars, failed, phase, asking>>

PrimaryFails ==
    /\ ~failed /\ failed' = TRUE
    /\ UNCHANGED <<logVars, replayVars, phase, asking>>

\* Pause, then FlushAllBuffers.
PauseAndFlush(c) ==
    /\ failed /\ phase[c] = "run"
    /\ FlushAll(c)
    /\ phase' = [phase EXCEPT ![c] = "flushed"]
    /\ UNCHANGED <<replayVars, failed, asking>>

(***************************************************************************)
(* FenceXComputes lets nobody through before all have flushed.  Then       *)
(* HardRemovePrimaryFromAllLogicalGroups and the first query.              *)
(***************************************************************************)
RemovePrimary(c) ==
    /\ phase[c] = "flushed"
    /\ \A d \in Computes : phase[d] # "run"
    /\ group' = [group EXCEPT ![c] = Tail(@)]
    /\ phase' = [phase EXCEPT ![c] = "removed"]
    /\ asking' = [asking EXCEPT ![c] = 1]
    /\ wire' = [wire EXCEPT ![c, Asked[1]] = Append(@, [type |-> "query"])]
    /\ UNCHANGED <<version, quota, stream, segments, memory, acks, sent, replayVars, failed>>

\* WaitForAllMemoryNodesReplayComplete: the next node is asked after the answer.
AskNext(c) ==
    /\ asking[c] \in 1 .. Len(Asked) - 1 /\ Asked[asking[c]] \in answered[c]
    /\ asking' = [asking EXCEPT ![c] = @ + 1]
    /\ wire' = [wire EXCEPT ![c, Asked[asking[c] + 1]] = Append(@, [type |-> "query"])]
    /\ UNCHANGED <<version, quota, group, stream, segments, memory, acks, sent, replayVars, failed, phase>>

\* All have answered: Resume.
Resume(c) ==
    /\ phase[c] = "removed" /\ Asked[Len(Asked)] \in answered[c]
    /\ phase' = [phase EXCEPT ![c] = "resumed"]
    /\ UNCHANGED <<logVars, replayVars, failed, asking>>

=============================================================================
