------------------------------ MODULE PageLatch ------------------------------
(***************************************************************************)
(* What SELCC promises the compute nodes about one page, whatever messages *)
(* and latch word updates it takes: at any time either one node holds the  *)
(* page exclusively or any number of nodes share it, and whoever holds it  *)
(* has its latest version.  The latch moves between nodes without passing  *)
(* through the memory node.  SELCC is shown to implement this.             *)
(***************************************************************************)
CONSTANTS Node, Memory   \* the compute nodes, and the memory node, not one of them

VARIABLES
    shared,   \* the nodes that share the page
    excl,     \* the nodes that hold it exclusively (at most one)
    current   \* the places, nodes or memory, that have its latest version

pageVars == <<shared, excl, current>>

PageInit == shared = {} /\ excl = {} /\ current = {Memory}

AcquireShared(n) ==
    /\ excl = {} /\ n \notin shared
    /\ shared' = shared \cup {n}
    /\ current' = current \cup {n}
    /\ UNCHANGED excl

ReleaseShared(n) ==
    /\ n \in shared
    /\ shared' = shared \ {n}
    /\ current' = current \ {n}
    /\ UNCHANGED excl

AcquireExclusive(n) ==
    /\ shared = {} /\ excl = {}
    /\ excl' = {n}
    /\ current' = current \cup {n}
    /\ UNCHANGED shared

Upgrade(n) ==
    /\ shared = {n} /\ excl = {}
    /\ shared' = {} /\ excl' = {n}
    /\ UNCHANGED current

Modify(n) ==
    /\ excl = {n}
    /\ current' = {n}
    /\ UNCHANGED <<shared, excl>>

\* The page is flushed with the latch.
ReleaseExclusive(n) ==
    /\ excl = {n}
    /\ excl' = {}
    /\ current' = {Memory}
    /\ UNCHANGED shared

\* The page goes from node to node; the memory node is not brought up to date.
HandOver(n, p) ==
    /\ excl = {n} /\ p # n
    /\ excl' = {p}
    /\ current' = (current \ {n}) \cup {p}
    /\ UNCHANGED shared

\* The holder keeps sharing with the node it serves.
Share(n, p) ==
    /\ excl = {n} /\ p # n
    /\ excl' = {} /\ shared' = {n, p}
    /\ current' = {n, p, Memory}

PageNext ==
    \/ \E n \in Node : \/ AcquireShared(n) \/ ReleaseShared(n)
                       \/ AcquireExclusive(n) \/ Upgrade(n)
                       \/ Modify(n) \/ ReleaseExclusive(n)
    \/ \E n, p \in Node : HandOver(n, p) \/ Share(n, p)

PageSpec == PageInit /\ [][PageNext]_pageVars

\* INVARIANT: the modes of SELCC exclude each other as a read/write lock's do.
OneWriterOrReaders ==
    /\ excl # {} => shared = {}
    /\ \A n, p \in excl : n = p

\* INVARIANT: a node that holds the page in either mode has its latest version.
HoldersCurrent == shared \cup excl \subseteq current

\* INVARIANT: no update is lost: without an exclusive holder the memory node
\* has the latest version.
MemoryCurrent == excl = {} => Memory \in current
=============================================================================
