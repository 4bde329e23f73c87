------------------------------ MODULE MCFabric ------------------------------
(* The start-up, the remote and the local memory pools, and the queue      *)
(* pairs to the memory nodes and between two compute nodes, one per        *)
(* behaviour: the scenario is chosen in the initial state.                 *)
EXTENDS MemPool, LocalPool, Bootstrap, PageWriter, CrossQueue, TLC

VARIABLE scenario

fabricVars == <<scenario, poolVars, localVars, bootVars, writerVars, queueVars>>

CONSTANT Scenarios

(* Two compute nodes; in the first, two threads allocate pages of region   *)
(* 1, in the second a thread allocates a delta of region 1 or a page of    *)
(* region 3 and another connects to memory node 1.                         *)
cNeeds == (0 :> (1 :> {<<"page", 1>>} @@ 2 :> {<<"page", 1>>}))
       @@ (2 :> (1 :> {<<"delta", 1>>, <<"page", 3>>}))
cMaxSlots == (0 :> 3) @@ (2 :> 1)
cConnects == (0 :> [t \in {} |-> 0]) @@ (2 :> (11 :> 1))
cSlotSize == [page |-> 2, delta |-> 4]

(* Two regions, each replicated on the other memory node: 3 and 2 chunks.  *)
Num(n)  == [kind |-> "number", val |-> n]
Size(n) == [kind |-> "unit", val |-> n]
cLines == <<[id |-> 1, tokens |-> <<Size(12), Num(0), Num(1)>>],
            [id |-> 3, tokens |-> <<Size(8), Num(1), Num(7), Num(0)>>]>>
cDeployed == ClientGroups(cLines, {1, 3})

cUsers == (21 :> "message") @@ (22 :> "message") @@ (23 :> "big")
cChunkSize == [message |-> 1, big |-> 2]
cRegionSlots == [message |-> 2, big |-> 1]
cMaxHeld == [message |-> 2, big |-> 1]

(* Two memory nodes with a region on both, while memcached holds what an   *)
(* earlier run published; one memory node and an empty memcached; and      *)
(* three compute nodes that meet when everything is published.             *)
cDeployments ==
  {[computes |-> {0, 2}, memories |-> {1, 3}, lines |-> <<cLines[2]>>, stale |-> TRUE,
    linked |-> FALSE, ahead |-> {}],
   [computes |-> {0, 2}, memories |-> {1}, lines |-> <<>>, stale |-> FALSE,
    linked |-> FALSE, ahead |-> {}],
   [computes |-> {0, 2, 4}, memories |-> {1}, lines |-> <<>>, stale |-> FALSE,
    linked |-> TRUE, ahead |-> {4}]}

(* One backup of the page's region.                                        *)
cBackups == <<3>>

(* A caller on either side and a thread that pushes without waiting.       *)
cCallers == (41 :> 0) @@ (43 :> 2)
cPushers == (45 :> 0)
cMaxCalls == (41 :> 2) @@ (43 :> 1) @@ (45 :> 1)

(* The scenarios that are not played stay in an initial state.             *)
MCInit ==
  /\ scenario \in Scenarios
  /\ PoolInit
  /\ LocalInit
  /\ WriterInit /\ (scenario # "writer" => mode = "primary")
  /\ CrossInit
  /\ BootInit({d \in cDeployments : scenario = "boot" \/ d.linked})

MCNext ==
  /\ UNCHANGED scenario
  /\ \/ /\ scenario = "pool" /\ PoolNext
        /\ UNCHANGED <<localVars, bootVars, writerVars, queueVars>>
     \/ /\ scenario = "local" /\ LocalNext
        /\ UNCHANGED <<poolVars, bootVars, writerVars, queueVars>>
     \/ /\ scenario = "boot" /\ BootNext
        /\ UNCHANGED <<poolVars, localVars, writerVars, queueVars>>
     \/ /\ scenario = "writer" /\ WriterNext
        /\ UNCHANGED <<poolVars, localVars, bootVars, queueVars>>
     \/ /\ scenario = "cross" /\ CrossNext
        /\ UNCHANGED <<poolVars, localVars, bootVars, writerVars>>

MCSpec == MCInit /\ [][MCNext]_fabricVars

(* Bootstrap's BootGoesOn, while a deployment comes up: until every compute*)
(* node runs, some thread of Client_Set_Up_Resources or of                 *)
(* server_communication_thread can move.                                   *)
SetUpGoesOn == scenario = "boot" => BootGoesOn

(* No memory has two owners, remote (SlotsApart, Allocate_Remote_RDMA_Slot)*)
(* or local (BuffersApart, Allocate_Local_RDMA_Slot), no free slot is lost *)
(* behind the flag of its array (UsedUpIsEmpty), and                       *)
(* Remote_Memory_Register asks for a chunk only when there is no room      *)
(* (OneChunkOpen) and then on all replicas alike (ReplicasInStep), so that *)
(* a failover changes none of this.                                        *)
PoolsSound ==
  /\ scenario = "pool" => SlotsApart /\ OneChunkOpen /\ ReplicasInStep
  /\ scenario = "local" => BuffersApart /\ UsedUpIsEmpty

(* What Client_Set_Up_Resources has set up when it returns: all compute    *)
(* nodes met at the barrier, each is connected to each, and all work with  *)
(* this run's metadata (BarrierHolds, SetUpMeetsAll, MetadataFresh).       *)
SetUpComplete == scenario = "boot" => BarrierHolds /\ SetUpMeetsAll /\ MetadataFresh

(* The latch and write-back operations of a thread mean what they return:  *)
(* the adapter sends the page that was meant (FlushIntact), before the     *)
(* latch is free (ReleasedAfterWrite), and whoever was told that it holds  *)
(* the latch does (HoldsTruly).                                            *)
WritesBackTruly == scenario = "writer" => FlushIntact /\ ReleasedAfterWrite /\ HoldsTruly

(* Between two compute nodes every request and reply arrives as it was     *)
(* posted (RepliesIntact) in queues that never overflow (SendQueueFits of  *)
(* post_send_xcompute).                                                    *)
MessagesIntact == scenario = "cross" => RepliesIntact /\ SendQueueFits

(* Neither the start-up nor a queue pair between compute nodes comes to a  *)
(* halt with everybody waiting (SetUpGoesOn, CrossGoesOn).                 *)
FabricGoesOn == SetUpGoesOn /\ (scenario = "cross" => CrossGoesOn)
=============================================================================
