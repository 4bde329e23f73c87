------------------------------ MODULE MCBtree ------------------------------
(* A small B-link tree: one thread loads it, then two threads of node A    *)
(* and one of node B run a script of calls each.                           *)
EXTENDS BLinkTree

Ins(k) == [goal |-> "insert", key |-> k]
Find(k) == [goal |-> "search", key |-> k]
Scan(k) == [goal |-> "scan", key |-> k]

CONSTANTS Loader, a1, a2, b1

MCNodeOf(t) == IF t = b1 THEN "B" ELSE "A"
MCWaitsFor(t) == IF t = Loader THEN {} ELSE {Loader}

Calls(load, x, y, z) == (Loader :> load) @@ (a1 :> x) @@ (a2 :> y) @@ (b1 :> z)

(* Concurrent splits of the root leaf, of leaves under a root, and of the *)
(* root page itself, with searches and a scan across them.                 *)
MCScripts ==
    { Calls(<<Ins(2), Ins(4)>>, <<Ins(1)>>, <<Ins(5), Scan(2)>>, <<Ins(3)>>),
      Calls(<<Ins(3)>>, <<Ins(5), Ins(6)>>, <<Ins(1)>>, <<Ins(4)>>),
      Calls(<<Ins(3)>>, <<Ins(5)>>, <<Ins(1)>>, <<Ins(4), Find(3)>>),
      Calls(<<Ins(2), Ins(4), Ins(6)>>, <<Ins(8), Ins(6)>>, <<Find(6)>>, <<Ins(5), Ins(3)>>) }

\* A tree of one leaf, which node B splits under two threads of node A.
YoungScripts == { Calls(<<Ins(2)>>, <<Find(2)>>, <<Ins(5)>>, <<Ins(4)>>) }

MCInit == BtInit
MCNext == BtNext
MCSpec == MCInit /\ [][MCNext]_btVars
=============================================================================
