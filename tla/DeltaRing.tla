------------------------------ MODULE DeltaRing ------------------------------
(***************************************************************************)
(* The delta section of a node (DeltaSection.h, SINGLE_DELTA_PER_NODE): a  *)
(* ring of Capacity bytes to which committing threads append records, from *)
(* whose head the collector frees them, and which another node mirrors by  *)
(* pulling what was added since its last pull.                             *)
(*                                                                         *)
(* main_mtx_ covers the allocation and the collection; a record is written *)
(* and published without it.  A byte holds the record that wrote it last.  *)
(***************************************************************************)
EXTENDS Integers, Sequences, FiniteSets

CONSTANTS
    Capacity,    \* seg_real_size_
    Sizes,       \* sizes of delta records
    Writers,     \* committing threads
    MaxRecords,  \* bound on the records
    MaxPulls     \* bound on the pulls

ASSUME RingFits == Capacity \in Nat /\ \A s \in Sizes : s \in 1 .. Capacity - 1

Bytes == 0 .. Capacity - 1
Records == 1 .. MaxRecords

VARIABLES
    byte,       \* the bytes: 0, Wrap, or the record that wrote them
    record,     \* the records: [off, size, next] as their headers say
    count,      \* records allocated
    live,       \* allocated and not collected, in order
    filled, published, stamped,
    stamp,      \* record -> the epoch its tuple remembers
    epoch, rhead, tail, tailAllocated, isEmpty,
    writer,     \* thread -> [at, rec, prev, next, pin]
    ringClock,  \* the timestamp counter
    collector,  \* [at, snapshot]
    mirror,     \* the copy of another node: [byte, head, tail, epoch, danger, empty]
    pull,       \* the pull on its way: [at, head, tail, epoch, danger, todo, sent]
    pulls

ringVars == <<byte, record, count, live, filled, published, stamped, stamp, epoch, rhead, tail,
              tailAllocated, isEmpty, writer, ringClock, collector, mirror, pull, pulls>>

sectionVars == <<byte, record, count, live, filled, published, stamped, stamp, epoch, rhead, tail,
                 tailAllocated, isEmpty>>

Wrap == -1  \* the marker '^'

Idle == [at |-> "idle", rec |-> 0, prev |-> 0, next |-> 0, pin |-> 0]
NoPull == [at |-> "none", head |-> 0, tail |-> 0, epoch |-> 0, danger |-> 0, todo |-> <<>>,
           sent |-> {}]

RingInit ==
    /\ byte = [o \in Bytes |-> 0]
    /\ record = <<>> /\ count = 0 /\ live = <<>>
    /\ filled = {} /\ published = {} /\ stamped = {}
    /\ stamp = [r \in Records |-> 0]
    /\ epoch = 0 /\ rhead = 0 /\ tail = 0 /\ tailAllocated = 0 /\ isEmpty = TRUE
    /\ writer = [w \in Writers |-> Idle]
    /\ ringClock = 1
    /\ collector = [at |-> "idle", snapshot |-> 0]
    /\ mirror = [byte |-> [o \in Bytes |-> 0], head |-> 0, tail |-> 0, epoch |-> 0,
                 danger |-> 0, empty |-> TRUE]
    /\ pull = NoPull /\ pulls = 0

\* main_mtx_: the collector has it exclusively, the handler of a pull shared.
MainFree == collector.at = "idle" /\ pull.at # "header"

-----------------------------------------------------------------------------
(* Writers *)

\* A transaction takes its snapshot.
RingBegin(w) ==
    /\ writer[w].at = "idle" /\ count < MaxRecords
    /\ writer' = [writer EXCEPT ![w] = [Idle EXCEPT !.at = "commit", !.pin = ringClock]]
    /\ UNCHANGED <<sectionVars, ringClock, collector, mirror, pull, pulls>>


\* The wait of AllocateDelta is over.
HasRoom(size) == isEmpty \/ (rhead + Capacity - tailAllocated) % Capacity > size

(***************************************************************************)
(* AllocateDelta, after the commit timestamp was drawn: a record that does *)
(* not fit before the end starts at 0, and the place it leaves is marked.  *)
(***************************************************************************)
AllocateDelta(w) ==
    /\ writer[w].at = "commit" /\ MainFree /\ count < MaxRecords
    /\ \E size \in Sizes :
         LET wraps == Capacity - tailAllocated < size
             off == IF wraps THEN 0 ELSE tailAllocated
             id == count + 1
         IN  /\ HasRoom(size)
             /\ byte' = IF wraps /\ tailAllocated < Capacity
                        THEN [byte EXCEPT ![tailAllocated] = Wrap] ELSE byte
             /\ record' = Append(record, [off |-> off, size |-> size, next |-> ringClock])
             /\ count' = id
             /\ live' = Append(live, id)
             /\ tailAllocated' = off + size
             /\ isEmpty' = FALSE
             /\ writer' = [writer EXCEPT ![w] = [@ EXCEPT !.at = "fill", !.rec = id,
                              !.prev = tailAllocated, !.next = off + size]]
    /\ ringClock' = ringClock + 1
    /\ UNCHANGED <<filled, published, stamped, stamp, epoch, rhead, tail, collector, mirror, pull, pulls>>

Span(r) == record[r].off .. record[r].off + record[r].size - 1

\* The record is written.
FillRecord(w) ==
    /\ writer[w].at = "fill"
    /\ LET r == writer[w].rec
       IN  /\ byte' = [o \in Bytes |-> IF o \in Span(r) THEN r ELSE byte[o]]
           /\ filled' = filled \cup {r}
    /\ writer' = [writer EXCEPT ![w].at = "epoch"]
    /\ UNCHANGED <<record, count, live, published, stamped, stamp, epoch, rhead, tail,
                   tailAllocated, isEmpty, ringClock, collector, mirror, pull, pulls>>

\* A record that wrapped advances the epoch.
AdvanceEpoch(w) ==
    /\ writer[w].at = "epoch"
    /\ epoch' = IF writer[w].next < writer[w].prev THEN epoch + 1 ELSE epoch
    /\ writer' = [writer EXCEPT ![w].at = "publish"]
    /\ UNCHANGED <<byte, record, count, live, filled, published, stamped, stamp, rhead, tail,
                   tailAllocated, isEmpty, ringClock, collector, mirror, pull, pulls>>

\* The compare-and-exchange of tail_ succeeds.
Turn(w) == tail = writer[w].prev

Publish(w) ==
    /\ writer[w].at = "publish" /\ Turn(w)
    /\ tail' = writer[w].next
    /\ published' = published \cup {writer[w].rec}
    /\ writer' = [writer EXCEPT ![w].at = "stamp"]
    /\ UNCHANGED <<byte, record, count, live, filled, stamped, stamp, epoch, rhead,
                   tailAllocated, isEmpty, ringClock, collector, mirror, pull, pulls>>

\* The committer reads the epoch and stores it in the tuple; the pages are
\* unlatched and the snapshot is released.
Stamp(w) ==
    /\ writer[w].at = "stamp"
    /\ stamp' = [stamp EXCEPT ![writer[w].rec] = epoch]
    /\ stamped' = stamped \cup {writer[w].rec}
    /\ writer' = [writer EXCEPT ![w] = Idle]
    /\ UNCHANGED <<byte, record, count, live, filled, published, epoch, rhead, tail,
                   tailAllocated, isEmpty, ringClock, collector, mirror, pull, pulls>>

-----------------------------------------------------------------------------
(* GarbageCollectionBySnapshot *)

\* The least snapshot in use: no larger than one a committer has pinned.
LeastSnapshots ==
    {s \in 1 .. ringClock : \A w \in Writers : writer[w].at # "idle" => s <= writer[w].pin}

CollectStart ==
    /\ collector.at = "idle" /\ MainFree /\ live # <<>>
    /\ \E s \in LeastSnapshots :
          /\ s > collector.snapshot
          /\ collector' = [at |-> "loop", snapshot |-> s]
    /\ UNCHANGED <<sectionVars, writer, ringClock, mirror, pull, pulls>>

\* The marker at the head, or the head at the end of the ring.
AtWrap == rhead = Capacity \/ byte[rhead] = Wrap

\* Where the next record to look at is.
HeadNow == IF AtWrap THEN 0 ELSE rhead

\* The header at the head says that the record may go.
HeadDead == byte[HeadNow] \in Records /\ record[byte[HeadNow]].next < collector.snapshot

CollectStep ==
    /\ collector.at = "loop" /\ ~isEmpty
    /\ HeadNow # tail /\ HeadDead
    /\ rhead' = HeadNow + record[byte[HeadNow]].size
    /\ live' = Tail(live)
    /\ isEmpty' = (rhead' = tailAllocated)
    /\ UNCHANGED <<byte, record, count, filled, published, stamped, stamp, epoch, tail,
                   tailAllocated, writer, ringClock, collector, mirror, pull, pulls>>

CollectEnd ==
    /\ collector.at = "loop"
    /\ isEmpty \/ HeadNow = tail \/ ~HeadDead
    /\ rhead' = IF isEmpty THEN rhead ELSE HeadNow
    /\ collector' = [collector EXCEPT !.at = "idle"]
    /\ UNCHANGED <<byte, record, count, live, filled, published, stamped, stamp, epoch, tail,
                   tailAllocated, isEmpty, writer, ringClock, mirror, pull, pulls>>

-----------------------------------------------------------------------------
(* The mirror on another node *)

\* isOffsetValid, on the copy m of the header.
OffsetValid(m, off, e) ==
    /\ e <= m.epoch
    /\ IF m.tail >= m.head THEN off < m.tail ELSE off >= m.head \/ off < m.tail

\* isOffsetDangerous: inside what the pull on its way is still writing.
OffsetDangerous(m, off) ==
    /\ m.danger # 0
    /\ CASE m.tail >= m.head -> off >= (IF m.danger >= m.tail THEN 0 ELSE m.tail - m.danger) /\ off <= m.tail
         [] m.tail < m.head /\ m.danger <= m.tail -> off >= m.tail - m.danger /\ off <= m.tail
         [] OTHER -> off <= m.tail \/ off >= Capacity - (m.danger - m.tail)

\* The records that a reader elsewhere may be sent to.
Reachable == {live[i] : i \in DOMAIN live} \cap stamped

\* PullUpdates: a reader misses a record.
PullUpdates ==
    /\ pull.at = "none" /\ pulls < MaxPulls
    /\ \E r \in Reachable : mirror.empty \/ ~OffsetValid(mirror, record[r].off, stamp[r])
    /\ pull' = [NoPull EXCEPT !.at = "asked", !.head = mirror.head, !.tail = mirror.tail,
                              !.epoch = mirror.epoch]
    /\ pulls' = pulls + 1
    /\ UNCHANGED <<sectionVars, writer, ringClock, collector, mirror>>

\* ProcessDeltaPull takes main_mtx_ shared ...
PullLock ==
    /\ pull.at = "asked" /\ collector.at = "idle"
    /\ pull' = [pull EXCEPT !.at = "header"]
    /\ UNCHANGED <<sectionVars, writer, ringClock, collector, mirror, pulls>>

\* Mutant of WriteBoundaries: after a wrap only the front is sent.
FrontOnly ==
    IF pull.epoch < epoch
    THEN << <<0, tail>> >>
    ELSE << <<IF tail > rhead /\ pull.tail <= rhead THEN rhead ELSE pull.tail, tail>> >>

\* CalculateWriteBoundaries: the pieces of the ring to send.
WriteBoundaries ==
    IF pull.epoch < epoch
    THEN IF tail > rhead
         THEN << <<rhead, tail>> >>
         ELSE << <<0, tail>>,
                 <<IF pull.epoch = epoch - 1 /\ pull.tail > rhead THEN pull.tail ELSE rhead, Capacity>> >>
    ELSE << <<IF tail > rhead /\ pull.tail <= rhead THEN rhead ELSE pull.tail, tail>> >>

DangerSize == IF epoch > pull.epoch THEN tail + Capacity - pull.tail ELSE tail - pull.tail

\* ... waits for the records on their way, sends the header, drops the latch.
PullHeader ==
    /\ pull.at = "header" /\ tail = tailAllocated
    /\ mirror' = [mirror EXCEPT !.head = rhead, !.tail = tail, !.epoch = epoch,
                                !.danger = DangerSize, !.empty = isEmpty]
    /\ pull' = [pull EXCEPT !.at = "data", !.todo = WriteBoundaries,
                             !.sent = {live[i] : i \in DOMAIN live}]
    /\ UNCHANGED <<sectionVars, writer, ringClock, collector, pulls>>

\* One piece of the ring is copied and sent.
PullPiece ==
    /\ pull.at = "data" /\ pull.todo # <<>>
    /\ LET piece == Head(pull.todo)
       IN  mirror' = [mirror EXCEPT !.byte =
              [o \in Bytes |-> IF piece[1] <= o /\ o < piece[2] THEN byte[o] ELSE @[o]]]
    /\ pull' = [pull EXCEPT !.todo = Tail(@)]
    /\ UNCHANGED <<sectionVars, writer, ringClock, collector, pulls>>

\* The last byte arrives; the reader declares the copy safe.
PullEnd ==
    /\ pull.at = "data" /\ pull.todo = <<>>
    /\ mirror' = [mirror EXCEPT !.danger = 0]
    /\ pull' = NoPull
    /\ UNCHANGED <<sectionVars, writer, ringClock, collector, pulls>>

RingStep ==
    \/ \E w \in Writers : \/ RingBegin(w) \/ AllocateDelta(w) \/ FillRecord(w)
                          \/ AdvanceEpoch(w) \/ Publish(w) \/ Stamp(w)
    \/ CollectStart \/ CollectStep \/ CollectEnd
    \/ PullUpdates \/ PullLock \/ PullHeader \/ PullPiece \/ PullEnd

-----------------------------------------------------------------------------
(* Properties *)

LiveRecords == {live[i] : i \in DOMAIN live}

(***************************************************************************)
(* RecordsApart: no two records that are not collected share a byte, and   *)
(* what a thread wrote is still there when its record is published.        *)
(***************************************************************************)
RecordsApart ==
    /\ \A q, r \in LiveRecords : q # r => Span(q) \cap Span(r) = {}
    /\ \A r \in LiveRecords \cap filled : \A o \in Span(r) : byte[o] = r

(***************************************************************************)
(* PublishedInOrder: tail_ passes the records in the order of their        *)
(* allocation, so that no reader finds a record before its bytes.          *)
(***************************************************************************)
PublishedInOrder ==
    \A r \in published : r \in filled /\ \A q \in 1 .. r : q \in published

(***************************************************************************)
(* PullComplete: when the last piece of a pull has arrived the mirror has  *)
(* every record that was in the ring when its header was sent, unless the  *)
(* record has been collected since: what is not sent was sent before.      *)
(***************************************************************************)
PullComplete ==
    pull.at = "data" /\ pull.todo = <<>> =>
        \A r \in pull.sent \cap LiveRecords : \A o \in Span(r) : mirror.byte[o] = r

(***************************************************************************)
(* OnlyPublishedCollected: a record is collected after it was published.   *)
(* GarbageCollectionBySnapshot stops at tail_, and asserts when it empties *)
(* the ring that tail_ is tail_allocated.                                  *)
(***************************************************************************)
OnlyPublishedCollected == \A r \in 1 .. count : r \in LiveRecords \/ r \in published

(***************************************************************************)
(* MirrorExact: a record that isOffsetValid accepts and isOffsetDangerous  *)
(* does not refuse is the record in the owner's ring.                      *)
(***************************************************************************)
MirrorExact ==
    \A r \in Reachable :
        ~mirror.empty /\ OffsetValid(mirror, record[r].off, stamp[r]) /\ ~OffsetDangerous(mirror, record[r].off)
            => \A o \in Span(r) : mirror.byte[o] = r

=============================================================================
