-------------------------------- MODULE MCRedo -------------------------------
(***************************************************************************)
(* Small instances of the redo log.  In the scenario "recycle" one compute *)
(* node writes enough to reuse segments and two replicas replay; in        *)
(* "shared" two compute nodes write the same pages and one replica         *)
(* interleaves their streams; in "failover" they do so until the primary   *)
(* fails, and recover.                                                     *)
(***************************************************************************)
EXTENDS Recovery

VARIABLE scenario

CONSTANTS Recycling, Sharing   \* records of compute node 0, and of both

vars == <<redoVars, scenario>>

MCOrder == <<0, 2>>
MCAsked == <<3>>
MCRecSize == [p \in Pages |-> IF p = "p" THEN 2 ELSE 3]

Init ==
    /\ scenario \in {"recycle", "shared", "failover"}
    /\ quota = IF scenario = "recycle" THEN [c \in Computes |-> IF c = 0 THEN Recycling ELSE 0]
             ELSE [c \in Computes |-> IF scenario = "shared" THEN Sharing ELSE 2 - c \div 2]
    /\ group = [c \in Computes |-> IF scenario = "recycle" THEN <<1, 3, 5>> ELSE <<1, 3>>]
    /\ LogInit /\ ReplayInit /\ RecoveryInit

RedoNext ==
    \/ \E c \in Computes, p \in Pages : (scenario = "recycle" => p = "q") /\ Update(c, p)
    \/ \E c \in Computes : PauseAndFlush(c) \/ RemovePrimary(c) \/ AskNext(c) \/ Resume(c)
    \/ scenario = "failover" /\ PrimaryFails
    \/ \E c \in Computes, m \in MemNodes : RecycleAck(c, m)
    \/ /\ \/ \E c \in Computes, m \in MemNodes :
              \/ HandleLogSegmentRequest(c, m) \/ HandleWriteWithImm(c, m) \/ CreditSegment(c, m)
              \/ HandleStatusQuery(c, m) \/ AnswerQuery(c, m) \/ CommWaits(c, m)
          \/ \E m \in MemNodes :
              \/ CheckNewData(m) \/ PlayerWaits(m) \/ ScanStream(m) \/ FindSegment(m)
              \/ ReplayRecord(m) \/ RecycleSegments(m)
       /\ UNCHANGED <<failed, phase, asking>>

Next == RedoNext /\ UNCHANGED scenario

Spec == Init /\ [][Next]_vars

-----------------------------------------------------------------------------
\* Types and bounds: a segment never holds more than its size.
RedoTypeOK ==
    /\ segments \in 0 .. Cardinality(Segs)
    /\ \A c \in Computes : /\ stream[c].seg \in 0 .. segments
                           /\ stream[c].flushed \in 0 .. Len(stream[c].cells)
                           /\ Len(stream[c].cells) <= SegSize
    /\ \A m \in MemNodes, c \in Computes :
         /\ tape[m][c].recycled <= tape[m][c].replayed
         /\ tape[m][c].replayed <= tape[m][c].received

\* The content of a list of segments on node m, as far as it was received.
Content(m, segs) ==
    LET all[k \in 0 .. Len(segs)] == IF k = 0 THEN <<>>
            ELSE all[k - 1] \o SubSeq(memory[m][segs[k].seg], 1, segs[k].len)
    IN  all[Len(segs)]

\* What a replica has received and not given back is what the compute node
\* flushed, in its order: no segment is reused (AllocateNewSegmentAndNotify)
\* while a replica may still read it.
LogIntact ==
    /\ RedoTypeOK
    /\ \A m \in MemNodes, c \in Computes :
         LET got == Content(m, tape[m][c].segs)
         IN  got = SubSeq(sent[c], tape[m][c].recycled + 1, tape[m][c].recycled + Len(got))

\* No replica meets a stale record, a record cut by the end of what it
\* received, or cells that are no record (the asserts of ReplayLogData).
RecordsOrdered == \A m \in MemNodes : player[m].at # "assert"

\* A page of a replica is never ahead of the records that were sent, and it has
\* had each of them: versions are applied one by one, whatever the stream.
AppliedWereSent ==
    \A m \in MemNodes, p \in Pages : \A v \in 2 .. current[m][p] :
        \E c \in Computes : \E i \in DOMAIN sent[c] : sent[c][i] = [page |-> p, version |-> v]

\* The replay of ReplayLogData follows the log: RecordsOrdered and
\* AppliedWereSent, whichever streams the versions of a page are in.
ReplayFollowsLog == RecordsOrdered /\ AppliedWereSent

\* Everything that was written has reached node m.
Delivered(m) ==
    /\ player[m].at # "records"
    /\ \A c \in Computes : /\ wire[c, m] = <<>> /\ comm[c, m].at # "credit"
                           /\ stream[c].flushed = Len(stream[c].cells)


\* A compute node resumes after a failover only when the node that becomes the
\* primary has replayed the whole log of that compute node.
OwnLogReplayed ==
    \A c \in Computes : phase[c] = "resumed" =>
        tape[Head(group[c])][c].replayed = Len(sent[c])

\* WaitForAllMemoryNodesReplayComplete: a compute node that resumes finds on the
\* new primary the last version of every page.
RecoveredFresh ==
    \A c \in Computes : phase[c] = "resumed" => current[Head(group[c])] = version

=============================================================================
