-------------------------- MODULE PageLatch_proofs --------------------------
(***************************************************************************)
(* The promise of PageLatch keeps what it says, for every set of nodes.    *)
(***************************************************************************)
EXTENDS PageLatch, TLAPS

PageTypes ==
    /\ shared \subseteq Node
    /\ excl \subseteq Node
    /\ current \subseteq Node \cup {Memory}

PageInv == PageTypes /\ OneWriterOrReaders /\ HoldersCurrent /\ MemoryCurrent

\* The memory node is not a compute node.
Apart == Memory \notin Node

\* The page that nobody holds is in memory only.
LEMMA PageInitially == PageInit => PageInv
BY DEF PageInit, PageInv, PageTypes, OneWriterOrReaders, HoldersCurrent, MemoryCurrent

\* Every step of the promise keeps the invariant.
LEMMA PageStep ==
    ASSUME Apart, PageInv, [PageNext]_pageVars
    PROVE  PageInv'
<1> USE DEF Apart, PageInv, PageTypes, OneWriterOrReaders, HoldersCurrent, MemoryCurrent
<1>1. ASSUME NEW n \in Node, AcquireShared(n)
      PROVE  PageInv'
  BY <1>1 DEF AcquireShared
<1>2. ASSUME NEW n \in Node, ReleaseShared(n)
      PROVE  PageInv'
  BY <1>2 DEF ReleaseShared
<1>3. ASSUME NEW n \in Node, AcquireExclusive(n)
      PROVE  PageInv'
  BY <1>3 DEF AcquireExclusive
<1>4. ASSUME NEW n \in Node, Upgrade(n)
      PROVE  PageInv'
  BY <1>4 DEF Upgrade
<1>5. ASSUME NEW n \in Node, Modify(n)
      PROVE  PageInv'
  BY <1>5 DEF Modify
<1>6. ASSUME NEW n \in Node, ReleaseExclusive(n)
      PROVE  PageInv'
  BY <1>6 DEF ReleaseExclusive
<1>7. ASSUME NEW n \in Node, NEW p \in Node, HandOver(n, p)
      PROVE  PageInv'
  BY <1>7 DEF HandOver
<1>8. ASSUME NEW n \in Node, NEW p \in Node, Share(n, p)
      PROVE  PageInv'
  BY <1>8 DEF Share
<1>9. CASE UNCHANGED pageVars
  BY <1>9 DEF pageVars
<1> QED
  BY <1>1, <1>2, <1>3, <1>4, <1>5, <1>6, <1>7, <1>8, <1>9 DEF PageNext

\* However the page travels between the nodes and memory, its modes exclude
\* each other, every holder has the latest version, and no update is lost.
THEOREM PageLatchCoherent ==
    ASSUME Apart
    PROVE  PageSpec => [](OneWriterOrReaders /\ HoldersCurrent /\ MemoryCurrent)
<1>1. PageInv => OneWriterOrReaders /\ HoldersCurrent /\ MemoryCurrent
  BY DEF PageInv
<1> QED
  BY <1>1, PageInitially, PageStep, PTL DEF PageSpec
=============================================================================
