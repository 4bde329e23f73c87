------------------------------ MODULE LogReplay ------------------------------
(***************************************************************************)
(* The replay of the log on a memory node (LogReplayerManager.cpp).  One   *)
(* communication thread for each compute node handles its messages in the  *)
(* order of the queue pair; one replayer thread of the region visits the   *)
(* streams in turn and applies the records whose page version is the next  *)
(* one.  Replayed segments go back to the compute node.                    *)
(*                                                                         *)
(* Condition variables: a thread that found its predicate false is         *)
(* "dozing" until it waits; the notifiers hold none of the mutexes, so a   *)
(* notification may come while it is dozing and then wakes nobody.         *)
(***************************************************************************)
EXTENDS RedoLog

CONSTANT Order   \* the compute nodes, in the order of their ids

VARIABLES
    tape,      \* memory node -> compute -> its LogStreamState
    current,   \* memory node -> page -> hdr.p_version of its copy
    comm,      \* <<compute, memory node>> -> state of the communication thread
    player,    \* memory node -> state of the replayer thread
    answered   \* compute -> nodes that answered its log_replay_status_query

replayVars == <<tape, current, comm, player, answered>>

NoTape == [known |-> FALSE, segs |-> <<>>, received |-> 0, replayed |-> 0, recycled |-> 0]
Checking == [at |-> "check", i |-> 1, left |-> 0, seg |-> 0, off |-> 0, limit |-> 0, done |-> 0, applied |-> FALSE]

ReplayInit ==
    /\ tape = [m \in MemNodes |-> [c \in Computes |-> NoTape]]
    /\ current = [m \in MemNodes |-> [p \in Pages |-> 1]]
    /\ comm = [e \in Computes \X MemNodes |-> [at |-> "idle", size |-> 0]]
    /\ player = [m \in MemNodes |-> Checking]
    /\ answered = [c \in Computes |-> {}]

Woken(m) == IF player[m].at = "asleep" THEN [player[m] EXCEPT !.at = "check"] ELSE player[m]

\* all_logs_replayed_cv_.notify_all on node m, when S holds.
Roused(m, S) == [e \in DOMAIN comm |-> IF S /\ e[2] = m /\ comm[e].at = "asleep"
                                        THEN [comm[e] EXCEPT !.at = "query"] ELSE comm[e]]

-----------------------------------------------------------------------------
(* The communication thread.                                               *)

\* HandleLogSegmentRequest
HandleLogSegmentRequest(c, m) ==
    /\ comm[c, m].at = "idle" /\ wire[c, m] # <<>> /\ Head(wire[c, m]).type = "segment"
    /\ tape' = [tape EXCEPT ![m][c].known = TRUE,
                            ![m][c].segs = Append(@, [seg |-> Head(wire[c, m]).seg, len |-> 0])]
    /\ player' = [player EXCEPT ![m] = Woken(m)]
    /\ wire' = [wire EXCEPT ![c, m] = Tail(@)]
    /\ UNCHANGED <<version, quota, group, stream, segments, memory, acks, sent, current, comm, answered>>

\* HandleWriteWithImm, up to the addition to received_log_length.
HandleWriteWithImm(c, m) ==
    /\ comm[c, m].at = "idle" /\ wire[c, m] # <<>> /\ Head(wire[c, m]).type = "imm"
    /\ tape' = [tape EXCEPT ![m][c].received = @ + Head(wire[c, m]).size]
    /\ comm' = [comm EXCEPT ![c, m] = [at |-> "credit", size |-> Head(wire[c, m]).size]]
    /\ wire' = [wire EXCEPT ![c, m] = Tail(@)]
    /\ UNCHANGED <<version, quota, group, stream, segments, memory, acks, sent, current, player, answered>>

\* segments.back().received_length += transferred_size
Credited(segs, size) == [segs EXCEPT ![Len(segs)].len = @ + size]

\* HandleWriteWithImm, the rest: the segment, and notify_one.
CreditSegment(c, m) ==
    /\ comm[c, m].at = "credit"
    /\ tape' = [tape EXCEPT ![m][c].segs = Credited(@, comm[c, m].size)]
    /\ comm' = [comm EXCEPT ![c, m] = [at |-> "idle", size |-> 0]]
    /\ player' = [player EXCEPT ![m] = Woken(m)]
    /\ UNCHANGED <<logVars, current, answered>>

\* log_replay_status_query_handler
HandleStatusQuery(c, m) ==
    /\ comm[c, m].at = "idle" /\ wire[c, m] # <<>> /\ Head(wire[c, m]).type = "query"
    /\ comm' = [comm EXCEPT ![c, m].at = "query"]
    /\ wire' = [wire EXCEPT ![c, m] = Tail(@)]
    /\ UNCHANGED <<version, quota, group, stream, segments, memory, acks, sent, tape, current, player, answered>>

\* Mutant of AllLogsReplayed: nothing is waited for.
AlwaysReplayed(m) == TRUE

AllLogsReplayed(m) == \A c \in Computes : tape[m][c].known => tape[m][c].received <= tape[m][c].replayed

\* WaitForAllLogsReplayed evaluates its predicate: answer, or wait.
AnswerQuery(c, m) ==
    /\ comm[c, m].at = "query"
    /\ IF AllLogsReplayed(m)
       THEN /\ comm' = [comm EXCEPT ![c, m].at = "idle"]
            /\ answered' = [answered EXCEPT ![c] = @ \cup {m}]
       ELSE /\ comm' = [comm EXCEPT ![c, m].at = "dozing"]
            /\ UNCHANGED answered
    /\ UNCHANGED <<logVars, tape, current, player>>

CommWaits(c, m) ==
    /\ comm[c, m].at = "dozing"
    /\ comm' = [comm EXCEPT ![c, m].at = "asleep"]
    /\ UNCHANGED <<logVars, tape, current, player, answered>>

-----------------------------------------------------------------------------
(* The replayer thread (ReplayerThreadFunc, ReplayLogData).                *)

Pending(m, c) == tape[m][c].known /\ tape[m][c].received > tape[m][c].replayed

\* The first of the streams from the i-th on that has something to replay.
Visit(m, i) ==
    LET I == {j \in i .. Len(Order) : Pending(m, Order[j])}
        j == CHOOSE x \in I : \A y \in I : x <= y
        t == tape[m][Order[j]]
    IN  IF I = {} THEN Checking
        ELSE [Checking EXCEPT !.at = "segment", !.i = j, !.left = t.received - t.replayed]

\* The predicate of new_data_cv.wait; a round begins when it holds.  The
\* thread exists from the first segment on (GetOrCreateRegionReplayer).
CheckNewData(m) ==
    /\ player[m].at = "check"
    /\ \E c \in Computes : tape[m][c].known
    /\ player' = [player EXCEPT ![m] = IF \E c \in Computes : Pending(m, c) THEN Visit(m, 1)
                                       ELSE [@ EXCEPT !.at = "dozing"]]
    /\ UNCHANGED <<logVars, tape, current, comm, answered>>

PlayerWaits(m) ==
    /\ player[m].at = "dozing"
    /\ player' = [player EXCEPT ![m].at = "asleep"]
    /\ UNCHANGED <<logVars, tape, current, comm, answered>>

\* The round goes on with the next stream, or ends.
ScanStream(m) ==
    /\ player[m].at = "scan"
    /\ player' = [player EXCEPT ![m] = Visit(m, player[m].i)]
    /\ UNCHANGED <<logVars, tape, current, comm, answered>>

\* The cells before the k-th segment of a list.
Before(segs, k) == LET sum[i \in 0 .. Len(segs)] == IF i = 0 THEN 0 ELSE sum[i - 1] + segs[i].len IN sum[k - 1]

\* The segment that the replay has reached, and how much of it may be read.
FindSegment(m) ==
    /\ player[m].at = "segment"
    /\ LET t == tape[m][Order[player[m].i]]
           pos == t.replayed - t.recycled
           K == {k \in DOMAIN t.segs : pos < Before(t.segs, k) + t.segs[k].len}
           k == CHOOSE j \in K : \A l \in K : j <= l
           off == pos - Before(t.segs, k)
           rest == t.segs[k].len - off
       IN  player' = [player EXCEPT ![m] =
             IF player[m].left = 0 \/ K = {} THEN [@ EXCEPT !.at = "recycle"]
             ELSE [@ EXCEPT !.at = "records", !.seg = t.segs[k].seg, !.off = off, !.done = 0,
                            !.limit = IF player[m].left < rest THEN player[m].left ELSE rest]]
    /\ UNCHANGED <<logVars, tape, current, comm, answered>>

\* The store to replayed_log_length, with the notification of the waiters.
Stored(m, done) ==
    LET c == Order[player[m].i]
        now == tape[m][c].replayed + done
    IN  /\ tape' = [tape EXCEPT ![m][c].replayed = now]
        /\ comm' = Roused(m, now >= tape[m][c].received)

\* Mutant of Due: a record is applied when it is newer.
DueWhenNewer(m, p, v) == v > current[m][p]

Due(m, p, v) == v = current[m][p] + 1

\* One record, the closing marker, or the end of what may be read.
ReplayRecord(m) ==
    /\ player[m].at = "records"
    /\ LET x == player[m]
           cells == memory[m][x.seg]
           pos == x.off + x.done + 1
           cell == cells[pos]
           p == cell.page
           v == cell.version
       IN  IF x.done = x.limit \/ cell = Close
           THEN LET done == IF x.done = x.limit THEN x.done ELSE x.done + 1
                IN  /\ Stored(m, done)
                    /\ player' = [player EXCEPT ![m] = [Checking EXCEPT !.at = "segment", !.i = x.i, !.left = x.left - done, !.applied = x.applied]]
                    /\ UNCHANGED current
           ELSE IF cell = More \/ x.done + RecSize[p] > x.limit \/ v <= current[m][p]
           THEN /\ player' = [player EXCEPT ![m].at = "assert"]
                /\ UNCHANGED <<tape, comm, current>>
           ELSE IF Due(m, p, v)
           THEN /\ current' = [current EXCEPT ![m][p] = v]
                /\ player' = [player EXCEPT ![m].done = @ + RecSize[p], ![m].applied = TRUE]
                /\ UNCHANGED <<tape, comm>>
           ELSE /\ Stored(m, x.done)
                /\ player' = [player EXCEPT ![m] = IF x.applied THEN [@ EXCEPT !.at = "recycle"]
                                                   ELSE [Checking EXCEPT !.at = "scan", !.i = x.i + 1]]
                /\ UNCHANGED current
    /\ UNCHANGED <<logVars, answered>>

\* Which of the segments but the last are replayed to their end.
Finished(m, t) ==
    [k \in 1 .. Len(t.segs) - 1 |->
        LET cells == t.replayed - t.recycled - Before(t.segs, k)
            len == t.segs[k].len
        IN  /\ len > 0
            /\ \/ cells > len
               \/ cells = len /\ (len = SegSize \/ memory[m][t.segs[k].seg][len] = Close)]

\* RecycleSegments and SendSegmentRecycleRPC; then the next stream.
RecycleSegments(m) ==
    /\ player[m].at = "recycle"
    /\ LET c == Order[player[m].i]
           t == tape[m][c]
           N == {n \in 0 .. Len(t.segs) : \A k \in 1 .. n : k \in DOMAIN Finished(m, t) /\ Finished(m, t)[k]}
           n == CHOOSE x \in N : \A y \in N : x >= y
       IN  /\ tape' = [tape EXCEPT ![m][c].recycled = @ + Before(t.segs, n + 1),
                                   ![m][c].segs = SubSeq(@, n + 1, Len(@))]
           /\ acks' = [acks EXCEPT ![c, m] = @ \o [k \in 1 .. n |-> t.segs[k].seg]]
           /\ comm' = Roused(m, t.replayed >= t.received)
    /\ player' = [player EXCEPT ![m] = [Checking EXCEPT !.at = "scan", !.i = player[m].i + 1]]
    /\ UNCHANGED <<version, quota, group, stream, segments, memory, wire, sent, current, answered>>

=============================================================================
