------------------------------ MODULE Snapshot ------------------------------
(***************************************************************************)
(* Timestamps and snapshots of the MVOCC build.  Every compute node counts *)
(* its own timestamps (local_ts_next).  A transaction pins a snapshot; the *)
(* garbage collector of each node computes the least snapshot its node may *)
(* still use, sends it to the other nodes, and collects old versions below *)
(* the least value it knows of any node.                                   *)
(***************************************************************************)
EXTENDS Integers, Sequences, FiniteSets

CONSTANTS
    Nodes,      \* compute nodes
    Threads,    \* transaction threads
    NodeOf,     \* thread -> its node
    FirstTs,    \* node -> its counter after the population of the tables
    MaxRounds   \* bound on the rounds of a garbage collector

ASSUME NodesAreNumbered == Nodes \subseteq Nat /\ NodeOf \in [Threads -> Nodes] /\ FirstTs \in [Nodes -> Nat \ {0}]

VARIABLES
    nextTs,     \* local_ts_next
    drawn,      \* a snapshot read by GetSnapshot and not pinned yet (0: none)
    pin,        \* snapshot_ts of a thread, counted in pined_snapshot_this_node
    largest,    \* largest_sp_acquired
    seen,       \* max_seen_ts_
    gcAt,       \* where the collector of a node is
    gcLargest,  \* its largest_snapshot
    gcLeast,    \* its least_sp_this_node
    lastSent,   \* its last_broadcasted_sp
    least,      \* cluster_least_sp_: node -> the entries it has
    pushes,     \* snapshots on their way: <<from, to>> -> sequence
    horizon,    \* last_gc_ts
    rounds

snapVars == <<nextTs, drawn, pin, largest, seen, gcAt, gcLargest, gcLeast,
              lastSent, least, pushes, horizon, rounds>>

gcVars == <<gcAt, gcLargest, gcLeast, lastSent, least, pushes, horizon, rounds>>

MaxOf(a, b) == IF a > b THEN a ELSE b

MinOf(S) == CHOOSE x \in S : \A y \in S : x <= y

SnapInit ==
    /\ nextTs = FirstTs
    /\ drawn = [t \in Threads |-> 0]
    /\ pin = [t \in Threads |-> 0]
    /\ largest = [n \in Nodes |-> 0]
    /\ seen = [t \in Threads |-> 0]
    /\ gcAt = [n \in Nodes |-> "start"]
    /\ gcLargest = [n \in Nodes |-> 0]
    /\ gcLeast = [n \in Nodes |-> 0]
    /\ lastSent = [n \in Nodes |-> 0]
    /\ least = [n \in Nodes |-> <<>>]
    /\ pushes = [c \in Nodes \X Nodes |-> <<>>]
    /\ horizon = [n \in Nodes |-> 0]
    /\ rounds = [n \in Nodes |-> 0]

-----------------------------------------------------------------------------
(* Timestamps *)

\* EnsureCommitFloor: the counter is at least minimum (0 asks for nothing).
FloorAt(n, minimum) == [nextTs EXCEPT ![n] = MaxOf(@, minimum)]

\* The floor that a thread asks for before it commits and when it aborts.
SeenFloor(t) == IF seen[t] = 0 THEN 0 ELSE seen[t] + 1

\* RegisterSeenTs
Registered(t, ts) == [seen EXCEPT ![t] = MaxOf(@, ts)]

\* The first half of GetSnapshot: garb_mtx shared, read the counter.
ReadSnapshot(t) ==
    /\ drawn[t] = 0 /\ pin[t] = 0
    /\ drawn' = [drawn EXCEPT ![t] = nextTs[NodeOf[t]]]
    /\ UNCHANGED <<nextTs, pin, largest, seen, gcVars>>

\* The second half, under pin_sp_mtx; then garb_mtx is released.
PinSnapshot(t) ==
    /\ drawn[t] # 0
    /\ pin' = [pin EXCEPT ![t] = drawn[t]]
    /\ largest' = [largest EXCEPT ![NodeOf[t]] = MaxOf(@, drawn[t])]
    /\ drawn' = [drawn EXCEPT ![t] = 0]
    /\ UNCHANGED <<nextTs, seen, gcVars>>

-----------------------------------------------------------------------------
(* The garbage collector of a node *)

\* A new round: take the largest snapshot acquired since the last one, or
\* else the counter.
GcLargest(n) ==
    /\ gcAt[n] = "start" /\ rounds[n] < MaxRounds
    /\ rounds' = [rounds EXCEPT ![n] = @ + 1]
    /\ gcAt' = [gcAt EXCEPT ![n] = "least"]
    /\ \/ /\ gcLargest[n] < largest[n]
          /\ gcLargest' = [gcLargest EXCEPT ![n] = largest[n]]
          /\ UNCHANGED largest
       \/ /\ gcLargest[n] >= largest[n]
          /\ gcLargest' = [gcLargest EXCEPT ![n] = nextTs[n]]
          /\ largest' = [largest EXCEPT ![n] = nextTs[n]]
    /\ UNCHANGED <<nextTs, drawn, pin, seen, gcLeast, lastSent, least, pushes, horizon>>

Pinned(n) == {pin[t] : t \in {u \in Threads : NodeOf[u] = n /\ pin[u] # 0}}

\* garb_mtx can be taken exclusively.
NobodyInGetSnapshot(n) == \A t \in Threads : NodeOf[t] = n => drawn[t] = 0

\* BroadCastLeastSP
Broadcast(n, v) ==
    [c \in Nodes \X Nodes |->
        IF c[1] = n /\ c[2] # n THEN Append(pushes[c], v) ELSE pushes[c]]

\* Step 1 of a round: the least snapshot of this node, sent if it is new.
GcLeast(n) ==
    /\ gcAt[n] = "least"
    /\ NobodyInGetSnapshot(n)
    /\ LET v == IF Pinned(n) = {} THEN gcLargest[n] ELSE MinOf(Pinned(n))
       IN  /\ gcLeast' = [gcLeast EXCEPT ![n] = v]
           /\ pushes' = IF v # lastSent[n] THEN Broadcast(n, v) ELSE pushes
           /\ lastSent' = [lastSent EXCEPT ![n] = v]
    /\ gcAt' = [gcAt EXCEPT ![n] = "collect"]
    /\ UNCHANGED <<nextTs, drawn, pin, largest, seen, gcLargest, least, horizon, rounds>>

\* The table with the entry of this node; an empty table gets a zero for
\* every node first.
LeastTable(n) ==
    LET table == IF DOMAIN least[n] = {} THEN [m \in Nodes |-> 0] ELSE least[n]
    IN  [m \in DOMAIN table \cup {n} |-> IF m = n THEN gcLeast[n] ELSE table[m]]

\* Mutant of LeastKnown: only the node's own entry counts.
LeastOwn(n) == gcLeast[n]

LeastKnown(n) == MinOf({LeastTable(n)[m] : m \in DOMAIN LeastTable(n)})

\* Step 2: the least value of the table is the new horizon; the versions
\* below it are collected (VersionsCollected of the module that has them).
GcCollect(n) ==
    /\ gcAt[n] = "collect"
    /\ least' = [least EXCEPT ![n] = LeastTable(n)]
    /\ horizon' = [horizon EXCEPT ![n] = MaxOf(@, LeastKnown(n))]
    /\ gcAt' = [gcAt EXCEPT ![n] = "start"]
    /\ UNCHANGED <<nextTs, drawn, pin, largest, seen, gcLargest, gcLeast, lastSent, pushes, rounds>>

\* The handler of push_least_snapshot.
ProcessSnapshotPush(from, to) ==
    /\ pushes[from, to] # <<>>
    /\ least' = [least EXCEPT ![to] =
          [m \in DOMAIN @ \cup {from} |-> IF m = from THEN Head(pushes[from, to]) ELSE @[m]]]
    /\ pushes' = [pushes EXCEPT ![from, to] = Tail(@)]
    /\ UNCHANGED <<nextTs, drawn, pin, largest, seen, gcAt, gcLargest, gcLeast, lastSent, horizon, rounds>>

(***************************************************************************)
(* PushesGrow: the least snapshot a node announces never goes down: what   *)
(* ProcessSnapshotPush asserts of each message it applies.                 *)
(***************************************************************************)
PushesGrow ==
    \A c \in Nodes \X Nodes :
        LET known == IF c[1] \in DOMAIN least[c[2]] /\ c[1] # c[2]
                     THEN <<least[c[2]][c[1]]>> ELSE <<>>
            all == known \o pushes[c]
        IN  \A i, j \in DOMAIN all : i < j => all[i] <= all[j]

=============================================================================
