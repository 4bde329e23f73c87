------------------------------- MODULE MCNode -------------------------------
(* What the threads of one compute node share: the local latch of a cache  *)
(* line and a shard of the page cache, one per behaviour.  The shard is    *)
(* used by threads with pages of their own, and by threads that share two  *)
(* pages for which the shard has room.                                     *)
EXTENDS RWSpinMutex, LRUCache, TLC

CONSTANTS t1, t2, t3, k1, k2, k3

VARIABLE scenario

nodeVars == <<vars, shardVars, scenario>>

\* Of the latch: two threads that call everything and one that writes.
MCThread == {t1, t2, t3}
MCCalls == [t \in MCThread |-> IF t = t3 THEN {"lock"} ELSE Operations]

\* Of the shard: who uses which pages in which scenario.
MCClient == {t1, t2}
MCAccess == [c \in MCClient |-> Key]
Pages(c) == CASE scenario = "apart" -> IF c = t1 THEN {k1, k2} ELSE {k3}
              [] scenario = "roomy" -> {k1, k2}

\* The latch is idle where the shard is at work, and the other way round.
MCInit == /\ scenario \in {"latch", "apart", "roomy"}
          /\ Init /\ ShardInit
          /\ scenario # "latch" => writerPrioritized

MCNext ==
  /\ UNCHANGED scenario
  /\ \/ scenario = "latch" /\ Next /\ UNCHANGED shardVars
     \/ /\ scenario # "latch" /\ ShardNext /\ UNCHANGED vars
        /\ \A c \in MCClient : want'[c] \in Pages(c) \cup {NoKey}
        /\ \A c \in MCClient : \A e \in held'[c] : key'[e] \in Pages(c)

MCSpec == MCInit /\ [][MCNext]_nodeVars /\ \A t \in Thread : WF_vars(Progress(t))

=============================================================================
