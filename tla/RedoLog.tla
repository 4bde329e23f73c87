------------------------------- MODULE RedoLog -------------------------------
(***************************************************************************)
(* The redo logger of a compute node (RedoLogger.h), for one logical       *)
(* region.  A writer that holds a page exclusively raises the version of   *)
(* the page and appends a record to the stream of its node.  The stream is *)
(* staged in a local buffer of the size of a segment and flushed to the    *)
(* replicas of the region with RDMA writes that carry an immediate value.  *)
(* A full segment is closed; replicas that replayed it give it back.       *)
(*                                                                         *)
(* A segment is a sequence of cells: a record takes RecSize[p] of them,    *)
(* the closing marker one.                                                 *)
(***************************************************************************)
EXTENDS Integers, Sequences, FiniteSets

CONSTANTS
    Computes,    \* compute nodes
    MemNodes,    \* memory nodes
    Pages,
    SegSize,     \* cells of a segment (and of the staging buffer)
    RecSize,     \* page -> cells of its log records
    Threshold,   \* AUTO_FLUSH_THRESHOLD
    WriteOne     \* replica_write_mode is WRITE_ONE_REPLICA

ASSUME RecordsFit == SegSize \in Nat /\ \A p \in Pages : RecSize[p] \in 1 .. SegSize

VARIABLES
    version,   \* page -> hdr.p_version, in the coherent cache of the compute nodes
    quota,     \* compute -> records it may still append (a bound)
    group,     \* compute -> its physical_regions: the primary, then the replicas
    stream,    \* compute -> its StreamState
    segments,  \* segments allocated so far
    memory,    \* memory node -> segment -> its cells
    wire,      \* <<compute, memory node>> -> messages and immediate values
    acks,      \* <<compute, memory node>> -> log_segment_recycle messages
    sent       \* compute -> all it has flushed (history)

logVars == <<version, quota, group, stream, segments, memory, wire, acks, sent>>

Segs == 1 .. 8  \* a bound
Close == [page |-> "$", version |-> 0]  \* SEGMENT_CLOSE_MARKER
More == [page |-> "-", version |-> 0]   \* a cell inside a record

NoStream == [seg |-> 0, cells |-> <<>>, flushed |-> 0, free |-> <<>>, pending |-> [s \in Segs |-> 0]]

\* The populated pages are the same on every memory node.
LogInit ==
    /\ version = [p \in Pages |-> 1]
    /\ stream = [c \in Computes |-> NoStream]
    /\ segments = 0
    /\ memory = [m \in MemNodes |-> [s \in Segs |-> <<>>]]
    /\ wire = [e \in Computes \X MemNodes |-> <<>>]
    /\ acks = wire
    /\ sent = [c \in Computes |-> <<>>]

Record(p, v) == <<[page |-> p, version |-> v]>> \o [i \in 1 .. RecSize[p] - 1 |-> More]

\* Who is told of a segment, and who is sent its content.
Replicas(c) == Tail(group[c])
Told(c) == {Replicas(c)[i] : i \in DOMAIN Replicas(c)}
Written(c) == IF WriteOne /\ Told(c) # {} THEN {Head(Replicas(c))} ELSE Told(c)

-----------------------------------------------------------------------------
(* What an operation does to the stream, the memory and the wire.  The     *)
(* steps of one Append follow each other under the mutex of the stream.    *)

\* cells from position at + 1 on are overwritten.
Overlay(old, at, cells) ==
    SubSeq(old, 1, at) \o cells \o SubSeq(old, at + Len(cells) + 1, Len(old))

\* A state of the parts that Append and Flush change.
Now(c) == [s |-> stream[c], n |-> segments, m |-> memory, w |-> wire, h |-> sent[c]]

Send(c, x, M, msg) ==
    [x EXCEPT !.w = [e \in DOMAIN x.w |-> IF e[1] = c /\ e[2] \in M THEN Append(x.w[e], msg) ELSE x.w[e]]]

\* FlushLocked
FlushLocked(c, x) ==
    LET new == SubSeq(x.s.cells, x.s.flushed + 1, Len(x.s.cells))
        y == [x EXCEPT !.s.flushed = Len(x.s.cells),
                       !.m = [n \in MemNodes |-> IF n \in Written(c)
                                THEN [@[n] EXCEPT ![x.s.seg] = Overlay(@, x.s.flushed, new)]
                                ELSE @[n]],
                       !.h = @ \o new]
    IN  IF new = <<>> THEN x
        ELSE Send(c, y, Written(c), [type |-> "imm", size |-> Len(new)])

\* AllocateNewSegmentAndNotify
NewSegment(c, x) ==
    LET reuse == x.s.free # <<>>
        seg == IF reuse THEN Head(x.s.free) ELSE x.n + 1
        y == [x EXCEPT !.n = IF reuse THEN @ ELSE @ + 1,
                       !.s = [@ EXCEPT !.seg = seg, !.cells = <<>>, !.flushed = 0,
                                       !.free = IF reuse THEN Tail(@) ELSE @]]
    IN  Send(c, y, Told(c), [type |-> "segment", seg |-> seg])

\* A stream starts with a segment of its own.
GetOrCreateStream(c) == IF stream[c].seg = 0 THEN NewSegment(c, Now(c)) ELSE Now(c)

\* The current segment has no room: close it, flush it, go on in another.
Rolled(c, x) ==
    LET closed == IF Len(x.s.cells) < SegSize THEN [x EXCEPT !.s.cells = Append(@, Close)] ELSE x
    IN  NewSegment(c, FlushLocked(c, closed))

\* The records wait in the stage until there are enough of them.
AutoFlushed(c, x) ==
    IF Len(x.s.cells) - x.s.flushed >= Threshold THEN FlushLocked(c, x) ELSE x

\* RedoLogger::Append
Appended(c, p, v) ==
    LET opened == GetOrCreateStream(c)
        roomy == IF SegSize - Len(opened.s.cells) < RecSize[p] THEN Rolled(c, opened) ELSE opened
    IN  [AutoFlushed(c, roomy) EXCEPT !.s.cells = @ \o Record(p, v)]

Becomes(c, x) ==
    /\ stream' = [stream EXCEPT ![c] = x.s]
    /\ segments' = x.n /\ memory' = x.m /\ wire' = x.w
    /\ sent' = [sent EXCEPT ![c] = x.h]


NextVersion(p) == version[p] + 1

(***************************************************************************)
(* LogDataUpdateOperation and AllocateNewRecord, with the page latched     *)
(* exclusively: the next version of the page and its record.               *)
(***************************************************************************)
LogUpdate(c, p) ==
    /\ quota[c] > 0
    /\ quota' = [quota EXCEPT ![c] = @ - 1]
    /\ version' = [version EXCEPT ![p] = NextVersion(p)]
    /\ Becomes(c, Appended(c, p, NextVersion(p)))
    /\ UNCHANGED <<group, acks>>

\* FlushAll
FlushAll(c) ==
    /\ Becomes(c, IF stream[c].seg = 0 THEN Now(c) ELSE FlushLocked(c, Now(c)))
    /\ UNCHANGED <<version, quota, group, acks>>

\* Mutant of RequiredAcks: one replica is enough.
FirstAck(c) == 1

RequiredAcks(c) == IF WriteOne THEN 1 ELSE Len(group[c]) - 1

\* HandleLogSegmentRecycle, for each segment of the message in turn.
HandleLogSegmentRecycle(c, m) ==
    /\ acks[c, m] # <<>>
    /\ LET seg == Head(acks[c, m])
           enough == stream[c].pending[seg] + 1 >= RequiredAcks(c)
       IN  stream' = [stream EXCEPT
             ![c].pending[seg] = IF enough THEN 0 ELSE @ + 1,
             ![c].free = IF enough THEN Append(@, seg) ELSE @]
    /\ acks' = [acks EXCEPT ![c, m] = Tail(@)]
    /\ UNCHANGED <<version, quota, group, segments, memory, wire, sent>>

=============================================================================
