---------------------------- MODULE ClusterSync -----------------------------
(***************************************************************************)
(* ClusterSync: the compute nodes, and for the last fence the memory nodes *)
(* too, meet at fences and hand values around through memcached.  A key is *)
(* the node's position in its own count of operations, so the nodes never  *)
(* speak of the same fence by name: they only agree because every node     *)
(* makes the same calls in the same order.  The calls are those of the     *)
(* main programs of the benchmarks, with the work between them.            *)
(***************************************************************************)
EXTENDS Integers, Sequences, FiniteSets

CONSTANTS
    ComputeNum,   \* GetPartitionNum: compute nodes, partition 0 is the master
    MemoryNum,
    XallOffset,   \* SYNC_XALL_OFFSET
    StorageKey    \* the key of the broadcast of the storage manager

\* node_id is even for compute nodes and odd for memory nodes.
Computes == {2 * p : p \in 0 .. ComputeNum - 1}
Memories == {2 * m + 1 : m \in 0 .. MemoryNum - 1}
Nodes == Computes \cup Memories
PartitionOf(n) == n \div 2
IsMaster(n) == n = 0

(***************************************************************************)
(* The main programs.  Anything that is not a call of ClusterSync is work  *)
(* that the node does by itself.  "fence" is FenceXComputes, "publish" the *)
(* MasterBroadcast of the storage manager, "gather" ExchPerfStatistics.    *)
(***************************************************************************)
SyncCalls == {"publish", "fence", "broadcast", "gather", "xall"}

Loaded == <<"publish", "open tables", "populate", "fence">>
WarmedUp == <<"generate", "fence", "generate", "fence", "warm up", "fence">>

BankMain == Loaded \o WarmedUp \o <<"run", "gather", "xall">>

\* The failure that node 0 announces while the executors run.
RecoveryTest ==
    <<"start executor", "broadcast", "pause", "flush logs", "fence", "invalidate", "regroup",
      "await replay", "resume", "join", "gather">>

TpccMain(recovery) ==
    IF recovery
    THEN Loaded \o <<"flush pages", "fence">> \o WarmedUp \o RecoveryTest \o <<"await replay", "xall">>
    ELSE Loaded \o WarmedUp \o <<"run", "gather", "await replay", "xall">>

\* A memory node only waits for the end.
ServerMain == <<"xall">>

VARIABLES
    program, \* the main program of the compute nodes
    kv,      \* memcached
    sync,    \* node -> its ClusterSync and where it is in its calls
    heard    \* history: node -> <<call of the sender, own call>> of what it took

csVars == <<program, kv, sync, heard>>

CallsOf(n) == IF n \in Computes THEN program ELSE ServerMain

CsInit(programs) ==
    /\ program \in programs
    /\ kv = <<>>
    /\ sync = [n \in Nodes |-> [call |-> 1, pc |-> "collect", i |-> 0, key |-> 0, xkey |-> XallOffset]]
    /\ heard = [n \in Nodes |-> {}]

Call(n) == IF sync[n].call <= Len(CallsOf(n)) THEN CallsOf(n)[sync[n].call] ELSE "none"
Finished(n) == sync[n].call > Len(CallsOf(n))
Put(key, value) == kv' = [k \in DOMAIN kv \cup {key} |-> IF k = key THEN value ELSE kv[k]]
Here(n, op) == Call(n) \in op
Hear(n, sent) == heard' = [heard EXCEPT ![n] = {<<sent, sync[n].call>>}]

\* sync_key_xcompute_ moves on; a fence goes on to its broadcast.
NextOp(n, pc, call) ==
    sync' = [sync EXCEPT ![n].key = @ + ComputeNum, ![n].pc = pc, ![n].call = call, ![n].i = 0]

\* Mutant of SendToMaster: the node's count of keys stays behind.
SendStays(n) ==
    /\ Here(n, {"fence", "gather"}) /\ sync[n].pc = "collect" /\ ~IsMaster(n)
    /\ Put(sync[n].key + PartitionOf(n), sync[n].call)
    /\ sync' = [sync EXCEPT ![n].pc = "broadcast"]
    /\ UNCHANGED heard

\* MasterCollect on a node that is not the master.
SendToMaster(n) ==
    /\ Here(n, {"fence", "gather"}) /\ sync[n].pc = "collect" /\ ~IsMaster(n)
    /\ Put(sync[n].key + PartitionOf(n), sync[n].call)
    /\ NextOp(n, "broadcast", sync[n].call)
    /\ UNCHANGED heard


Collected(n) == sync[n].i = ComputeNum

\* MasterCollect on the master: one memGet per partition, each waiting for
\* the key.
CollectOne(n) ==
    /\ Here(n, {"fence", "gather"}) /\ sync[n].pc = "collect" /\ IsMaster(n)
    /\ ~Collected(n)
    /\ LET i == sync[n].i
       IN  \/ i = PartitionOf(n) /\ Hear(n, sync[n].call)
           \/ /\ i # PartitionOf(n)
              /\ sync[n].key + i \in DOMAIN kv
              /\ Hear(n, kv[sync[n].key + i])
    /\ sync' = [sync EXCEPT ![n].i = @ + 1]
    /\ UNCHANGED kv

CollectDone(n) ==
    /\ Here(n, {"fence", "gather"}) /\ sync[n].pc = "collect" /\ IsMaster(n)
    /\ Collected(n)
    /\ NextOp(n, "broadcast", sync[n].call)
    /\ UNCHANGED <<kv, heard>>

\* The second half of FenceXComputes, or MasterBroadcast by itself.
AtBroadcast(n) ==
    \/ Here(n, {"fence", "gather"}) /\ sync[n].pc = "broadcast"
    \/ Here(n, {"broadcast", "publish"}) /\ sync[n].pc = "collect"

\* MasterBroadcast takes the next key; with a key of the caller it uses that.
BroadcastKey(n) == IF Here(n, {"publish"}) THEN StorageKey ELSE sync[n].key

BroadcastKeyStep(n) == NextOp(n, "collect", sync[n].call + 1)

Broadcast(n) ==
    /\ AtBroadcast(n) /\ IsMaster(n)
    /\ Put(BroadcastKey(n), sync[n].call)
    /\ BroadcastKeyStep(n)
    /\ UNCHANGED heard

ReceiveBroadcast(n) ==
    /\ AtBroadcast(n) /\ ~IsMaster(n)
    /\ BroadcastKey(n) \in DOMAIN kv
    /\ Hear(n, kv[BroadcastKey(n)])
    /\ BroadcastKeyStep(n)
    /\ UNCHANGED kv

\* Fence_XALLNodes, and the same code in the main program of a memory node.
EnterXall(n) ==
    /\ Here(n, {"xall"}) /\ sync[n].pc = "collect"
    /\ Put(sync[n].xkey + n, n)
    /\ sync' = [sync EXCEPT ![n].pc = "waiting"]
    /\ UNCHANGED heard

LeaveXall(n) ==
    /\ Here(n, {"xall"}) /\ sync[n].pc = "waiting"
    /\ \A m \in Nodes : sync[n].xkey + m \in DOMAIN kv
    /\ sync' = [sync EXCEPT ![n].pc = "collect", ![n].call = @ + 1,
                            ![n].xkey = @ + Cardinality(Nodes)]
    /\ UNCHANGED <<kv, heard>>

\* Work of its own, done when the node goes on to its next call.
DoWork(n) ==
    /\ ~Finished(n) /\ Call(n) \notin SyncCalls
    /\ sync' = [sync EXCEPT ![n].call = @ + 1]
    /\ UNCHANGED <<kv, heard>>

CsStep(n) ==
    \/ DoWork(n) \/ SendToMaster(n) \/ CollectOne(n) \/ CollectDone(n) \/ Broadcast(n) \/ ReceiveBroadcast(n)
    \/ EnterXall(n) \/ LeaveXall(n)

CsNext == (\E n \in Nodes : CsStep(n)) /\ UNCHANGED program

(***************************************************************************)
(* No compute node gets past a FenceXComputes before all of them have      *)
(* reached it, and the master has everyone's statistics before it goes on. *)
(***************************************************************************)
FenceHolds ==
    \A k \in DOMAIN program : program[k] \in {"fence", "gather", "xall"} =>
        \A n \in Computes, m \in Computes : sync[n].call > k => sync[m].call >= k

\* Where a node is, by the work it does.
Doing(n, work) == Call(n) = work
Past(n, work) == \E k \in 1 .. sync[n].call - 1 : CallsOf(n)[k] = work

(***************************************************************************)
(* The phases of a benchmark do not overlap between nodes: transactions    *)
(* run only on a database that every node has finished loading, and a      *)
(* recovery changes pages and groups only when every node has paused.      *)
(***************************************************************************)
PhasesApart ==
    \A n \in Computes, m \in Computes :
        /\ Doing(n, "warm up") \/ Doing(n, "run") \/ Past(n, "start executor") => Past(m, "populate")
        /\ Doing(n, "invalidate") \/ Doing(n, "regroup") => Past(m, "pause")

(***************************************************************************)
(* The value a node takes from memcached is the one that was sent in the   *)
(* same call: the nodes' counts of keys never drift apart.                 *)
(***************************************************************************)
HeardFresh == \A n \in Nodes : \A h \in heard[n] : h[1] = h[2]

(***************************************************************************)
(* The nodes do not end up waiting for each other: while a node is not     *)
(* through its calls, some node can go on.                                 *)
(***************************************************************************)
FencesOpen == (\E n \in Nodes : ~Finished(n)) => \E n \in Nodes : ENABLED CsStep(n)
=============================================================================
