------------------------------ MODULE LatchWord ------------------------------
(***************************************************************************)
(* The 64-bit global latch word every page starts with, as rdma.cc packs   *)
(* and decodes it.  The top byte is 0 or 100 + the exclusive holder; bit   *)
(* n + 1 says that compute node n shares the page.  Compute node n here is *)
(* the code's node id 2 * n, so that node_id / 2 is n.  The byte sits at   *)
(* bit Shift instead of 56; nothing but the room for reader bits depends   *)
(* on that distance.                                                       *)
(***************************************************************************)
EXTENDS Integers

CONSTANTS
    N,      \* compute_nodes.size()
    Shift   \* position of the write byte: 56 in the code

ASSUME NodeCountAssumption == N \in Nat \ {0}

\* Every node has its own reader bit below the write byte, and one more bit
\* is left for the borrow of a transient state to show.
ASSUME ShiftAssumption == Shift \in Nat /\ Shift > N + 1

Node == 0 .. N - 1

WordSize == 2 ^ (Shift + 8)

Word == 0 .. WordSize - 1

\* (node_id / 2 + 100) << 56
Excl(n) == (n + 100) * 2 ^ Shift

\* 1 << (node_id / 2 + 1)
Shared(n) == 2 ^ (n + 1)

\* An RDMA fetch-and-add: unsigned, so a borrow wraps around the word.
Faa(w, delta) == (w + delta) % WordSize

WriteByte(w) == w \div 2 ^ Shift

ReaderBits(w) == {i \in 1 .. Shift - 1 : (w \div 2 ^ i) % 2 = 1}

\* Mutant: the exclusive latch is released as if it were a shared one.
MutRelease(n) == - Shared(n)

\* What the holder of the exclusive latch adds to the word to give it up.
Release(n) == - Excl(n)
Handover(n, next) == Excl(next) - Excl(n)
DownToShared(n, next) == Shared(n) + Shared(next) - Excl(n)

(***************************************************************************)
(* The readings the two acquiring loops take of a word they did not get.   *)
(***************************************************************************)
\* Mutant: the exclusive latch of node 0 goes unnoticed.
MutReaderBlocked(w) == WriteByte(w) > 100

ReaderBlocked(w) == WriteByte(w) >= 100

\* target_compute_node_id is a uint8_t holding twice the node.
ReaderTarget(w) == (((WriteByte(w) - 100) * 2) % 256) \div 2

WriterSeesOwn(w, n) == WriteByte(w) = n + 100
WriterSeesHolder(w) == WriteByte(w) \in 100 .. N + 99
WriterSeesFault(w) ==
    \/ WriteByte(w) >= N + 100
    \/ WriteByte(w) < 100 /\ \E i \in ReaderBits(w) : i > N
ReaderTargets(w) == {i - 1 : i \in ReaderBits(w)}
=============================================================================
