-------------------------------- MODULE MCTxn --------------------------------
(* Concurrency control, one part per behaviour: the worker threads of the  *)
(* single-version protocols, those of MVOCC (three threads, or two and the *)
(* garbage collectors), or a delta ring.                                   *)
EXTENDS TxnLock, TxnOcc, TxnTo, Mvocc, DeltaRing

R(k) == [k |-> k, type |-> "READ_ONLY"]
S(k) == [k |-> k, type |-> "SCAN_READ"]
W(k) == [k |-> k, type |-> "READ_WRITE"]
D(k) == [k |-> k, type |-> "DELETE_ONLY"]
I(k) == [k |-> k, type |-> "INSERT_ONLY"]

\* Tuples 1 and 2 share a page, 3 and 4 another one; 4 is a new tuple.
MCPageOf == [k \in 1 .. 4 |-> IF k < 3 THEN 1 ELSE 2]

MCPrograms == [t \in 1 .. 3 |->
    CASE t = 1 -> {<<R(1), W(3)>>, <<W(1), W(2)>>, <<I(4), R(2)>>}
      [] t = 2 -> {<<S(3), W(1)>>, <<W(3), W(1)>>}
      [] t = 3 -> {<<W(3), R(2)>>, <<W(2), D(1)>>}]

MCMaxTries == [t \in 1 .. 3 |-> IF t = 1 THEN 2 ELSE 1]

\* MVOCC: threads 1 and 2 on node 0, thread 3 on node 2.
MCNodeOf == [t \in 1 .. 3 |-> IF t < 3 THEN 0 ELSE 2]

MCMvPrograms == [t \in 1 .. 3 |->
    CASE t = 1 -> {<<R(1), W(2)>>, <<W(2), W(1)>>}
      [] t = 2 -> {<<W(1), R(3)>>, <<S(1), S(3), S(2)>>}
      [] t = 3 -> {<<W(1), W(2)>>, <<I(3), R(1)>>}]

MCFirstTs == [n \in {0, 2} |-> n + 1]

VARIABLE scenario
CONSTANT Scenarios

StoreNext ==
    \E t \in Txns :
        \/ Execute(t) \/ GiveUp(t) \/ ReleaseLatch(t) \/ Finish(t)
        \/ LockStep(t) \/ OccStep(t) \/ ToStep(t)

MvNext ==
    \/ scenario = "threads" /\ \E t \in Threads : MvStep(t)
    \/ scenario = "collectors" /\ \E t \in {2, 3} : MvStep(t)
    \/ scenario = "collectors" /\ \E n \in Nodes : MvGc(n)

Next ==
    /\ UNCHANGED scenario
    /\ \/ scenario = "store" /\ StoreNext /\ UNCHANGED <<mvVars, ringVars>>
       \/ MvNext /\ UNCHANGED <<storeVars, ringVars>>
       \/ scenario = "ring" /\ RingStep /\ UNCHANGED <<storeVars, mvVars>>

\* The parts that are not looked at stay in one initial state.
Init ==
    /\ StoreInit /\ MvInit /\ RingInit
    /\ scenario \in Scenarios
    /\ scenario # "store" => protocol = "LOCK"
    /\ scenario \in {"store", "ring"} => isolation = "SERIALIZABLE"
    /\ scenario = "collectors" => isolation = "SNAPSHOT_ISOLATION"

Spec == Init /\ [][Next]_<<storeVars, mvVars, ringVars, scenario>>

(***************************************************************************)
(* Unblocked: the transactions never all wait for latches.  LOCK aborts    *)
(* instead of waiting; OCC and the aborts of TO wait with latches in hand, *)
(* but take pages in address order.                                        *)
(***************************************************************************)
Unblocked == scenario = "store" /\ (\E t \in Txns : pc[t] # "done") => ENABLED Next


(***************************************************************************)
(* IsolationKept: MVOCC keeps the promise of its isolation level: no       *)
(* update is lost at either level (NoLostUpdate), and at SERIALIZABLE the  *)
(* updates have a serial order (UpdatesSerializable).                      *)
(***************************************************************************)
IsolationKept == NoLostUpdate /\ UpdatesSerializable

(***************************************************************************)
(* CollectionSafe: the garbage collectors of the nodes announce growing    *)
(* snapshots (PushesGrow) and take no version a pinned snapshot can still  *)
(* be sent to (VersionsKept).                                              *)
(***************************************************************************)
CollectionSafe ==
    /\ \A n \in Nodes : horizon[n] \in Nat /\ head[n] \in 0 .. Len(delta[n])
    /\ \A t \in Threads : pin[t] \in 0 .. nextTs[NodeOf[t]]
    /\ PushesGrow /\ VersionsKept


(***************************************************************************)
(* StampsGrow: under OCC and MVOCC a new version has a larger timestamp    *)
(* than the one it replaces (OccStampsGrow, MvStampsGrow); validation      *)
(* compares nothing else.                                                  *)
(***************************************************************************)
StampsGrow == OccStampsGrow /\ MvStampsGrow
=============================================================================
