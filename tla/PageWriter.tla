----------------------------- MODULE PageWriter -----------------------------
(* A thread's own queue pairs to the memory nodes that hold one page, and  *)
(* the latch and write-back operations it runs over them:                  *)
(* src/storage/rdma.cc, global_Rlock_and_read_page_with_INVALID,           *)
(* global_Wlock_and_read_page_with_INVALID, global_RUnlock,                *)
(* global_WHandover, global_write_page_and_Wunlock_Async,                  *)
(* global_write_page_and_WdowntoR_Async, global_blind_write, with          *)
(* Batch_Submit_WRs and Async_Tasks.  An operation is a script of batches  *)
(* to post and completions to poll; the adapter runs each queue in order   *)
(* and reads a buffer only then.  Invalidation is SELCC's; here the other  *)
(* nodes just take the latch word and give it back.                        *)
EXTENDS Naturals, Sequences

CONSTANTS Primary,    \* the memory node of replica 0
          Backups,   \* the sequence of the other replicas' memory nodes
          TaskSize,   \* ATOMIC_OUTSTANDING_SIZE
          Modes,      \* values SetReplicaType gives: "primary", "all"
          MaxVersion  \* bound: changes of the page

VARIABLES mode,     \* replica_type_
          word,     \* the latch word at the primary: exclusive holder, sharers
          mem,      \* memory node -> version of the page it stores
          queue,    \* memory node -> [wire, done]: unsent requests, completions
          tasks,    \* Async_Tasks of the primary: counter and buffers
          casbuf,   \* Get_local_CAS_mr: what the last atomic found
          copy,     \* the content of the thread's page buffer
          local,    \* remote_lock_status of the cache line
          script,   \* what the operation under way has still to do
          kind,     \* that operation
          last      \* the version last released, and to all replicas or not

writerVars == <<mode, word, mem, queue, tasks, casbuf, copy, local, script, kind, last>>

Range0(s) == {s[i] : i \in 1 .. Len(s)}
Homes == {Primary} \cup Range0(Backups)
Junk == MaxVersion + 1     \* the content of some other page
Zero == MaxVersion + 2     \* an atomic's result buffer, cleared or "it was free"
Taken == MaxVersion + 3    \* an atomic found the latch held

\* Buffers are numbered: the async ones, then Get_local_CAS_mr and the page.
CasBuf == TaskSize
PageBuf == TaskSize + 1

WriterInit ==
  /\ mode \in Modes
  /\ word = [x |-> "none", s |-> {}]
  /\ mem = [m \in Homes |-> 0]
  /\ queue = [m \in Homes |-> [wire |-> <<>>, done |-> 0]]
  /\ tasks = [counter |-> 0, mrs |-> [i \in 0 .. TaskSize - 1 |-> Zero]]
  /\ casbuf = Zero
  /\ copy = Junk
  /\ local = "none"
  /\ script = <<>>
  /\ kind = "none"
  /\ last = [version |-> 0, all |-> TRUE]

-----------------------------------------------------------------------------
(* Work requests; `want' is what the poster means to write.                *)
Prepare_WR_CAS(into, sig)     == [op |-> "cas", buf |-> into, sig |-> sig]
Prepare_WR_FAA(into, to, sig) == [op |-> to, buf |-> into, sig |-> sig]
Prepare_WR_Read(sig)          == [op |-> "read", buf |-> PageBuf, sig |-> sig]
Prepare_WR_Write(from, sig)   == [op |-> "write", buf |-> from, sig |-> sig, want |-> copy]
Prepare_WR_Write_Replication(sig) == Prepare_WR_Write(PageBuf, sig)

(* Batch_Submit_WRs(sr, poll_num, node): post the chain, poll poll_num.    *)
Post(m, wrs) == [do |-> "post", at |-> m, wrs |-> wrs]
Poll(m)      == [do |-> "poll", at |-> m, wrs |-> <<>>]
Batch_Submit_WRs(m, wrs, poll_num) == <<Post(m, wrs)>> \o [i \in 1 .. poll_num |-> Poll(m)]

(* The replicas' part of a replicated write-back (steps 1 and 2): a        *)
(* signalled write to each, submitted with poll_num, then one more poll    *)
(* for each.                                                               *)
BackupNodes == {Backups[i] : i \in DOMAIN Backups}
EachReplica(steps) ==
  LET all[i \in 0 .. Len(Backups)] == IF i = 0 THEN <<>> ELSE all[i - 1] \o steps[Backups[i]]
  IN  all[Len(Backups)]
ReplicaWrite(m, poll_num) == Batch_Submit_WRs(m, <<Prepare_WR_Write_Replication(TRUE)>>, poll_num)

(* Mutant: the writes to the replicas are not waited for.                  *)
ReplicaWritesUnpolled(poll_num) == EachReplica([m \in BackupNodes |-> ReplicaWrite(m, 0)])

ReplicaWrites(poll_num) ==
  EachReplica([m \in BackupNodes |-> ReplicaWrite(m, poll_num)])
  \o EachReplica([m \in BackupNodes |-> <<Poll(m)>>])

(* Step 3, and the synchronous branch without replication.                 *)
WriteThenUnlock(to) ==
  Batch_Submit_WRs(Primary, <<Prepare_WR_Write(PageBuf, FALSE), Prepare_WR_FAA(CasBuf, to, TRUE)>>, 1)

(* The async branch: the page is copied to an async buffer, the old latch  *)
(* word goes to another, nothing is polled.                                *)
DataBuf(c) == c + 1
WriteThenUnlockAsync(to) ==
  Batch_Submit_WRs(Primary, <<Prepare_WR_Write(DataBuf(tasks.counter), FALSE),
                              Prepare_WR_FAA(tasks.counter, to, FALSE)>>, 0)
TookTwo == [counter |-> tasks.counter + 2,
            mrs |-> [tasks.mrs EXCEPT ![DataBuf(tasks.counter)] = copy,
                                      ![tasks.counter] = Zero]]
TookOne == [tasks EXCEPT !.counter = @ + 1]
NoTasks == [tasks EXCEPT !.counter = 0]

-----------------------------------------------------------------------------
Begin(k, steps) == script = <<>> /\ kind' = k /\ script' = steps
Keep == UNCHANGED <<mode, word, mem, queue, copy, local>>

(* One attempt at the shared latch: FAA and read in one chain.             *)
RLock ==
  /\ local = "none"
  /\ Begin("rlock", Batch_Submit_WRs(Primary, <<Prepare_WR_FAA(CasBuf, "addshared", FALSE),
                                                Prepare_WR_Read(TRUE)>>, 1))
  /\ casbuf' = Zero
  /\ Keep /\ UNCHANGED <<tasks, last>>

(* One attempt at the exclusive latch: CAS and read.                       *)
WLock ==
  /\ local = "none"
  /\ Begin("wlock", Batch_Submit_WRs(Primary, <<Prepare_WR_CAS(CasBuf, FALSE),
                                                Prepare_WR_Read(TRUE)>>, 1))
  /\ casbuf' = Zero
  /\ Keep /\ UNCHANGED <<tasks, last>>

(* RDMA_FAA with its own poll_num: async while buffers are left.  Nobody   *)
(* looks at what it finds.                                                 *)
UnlockAtomic(to) ==
  IF tasks.counter < TaskSize - 3
    THEN /\ script' = Batch_Submit_WRs(Primary, <<Prepare_WR_FAA(tasks.counter, to, FALSE)>>, 0)
         /\ tasks' = TookOne
    ELSE /\ script' = Batch_Submit_WRs(Primary, <<Prepare_WR_FAA(CasBuf, to, TRUE)>>, 1)
         /\ tasks' = NoTasks

RUnlock ==
  /\ local = "shared" /\ script = <<>> /\ kind' = "runlock"
  /\ UnlockAtomic("subshared")
  /\ Keep /\ UNCHANGED <<casbuf, last>>

(* The latch word names the next holder; the page goes there directly.     *)
WHandover ==
  /\ local = "exclusive" /\ script = <<>> /\ kind' = "handover"
  /\ UnlockAtomic("handover")
  /\ casbuf' = Zero
  /\ last' = [version |-> copy, all |-> mode = "all"]
  /\ Keep

(* Write the page back and change the latch word.                          *)
WriteBack(k, to, room, poll_num) ==
  /\ local = "exclusive" /\ script = <<>> /\ kind' = k
  /\ last' = [version |-> copy, all |-> mode = "all"]
  /\ \/ /\ mode = "primary" /\ tasks.counter < room
        /\ script' = WriteThenUnlockAsync(to) /\ tasks' = TookTwo /\ UNCHANGED casbuf
     \/ /\ mode = "primary" /\ tasks.counter >= room
        /\ script' = WriteThenUnlock(to) /\ tasks' = NoTasks /\ casbuf' = Zero
     \/ /\ mode = "all"
        /\ script' = ReplicaWrites(poll_num) \o WriteThenUnlock(to)
        /\ UNCHANGED tasks /\ casbuf' = Zero
  /\ Keep

(* Eviction of a modified line; submits the replica writes with poll_num 1.*)
Wunlock_Async == WriteBack("wunlock", "release", TaskSize - 3, 1)

(* A reader's invalidation; submits the replica writes with poll_num 0.    *)
WdowntoR_Async == WriteBack("down", "down", TaskSize - 2, 0)

(* The page only, to the primary or to all replicas one after the other.   *)
BlindWrite ==
  Batch_Submit_WRs(Primary, <<Prepare_WR_Write(PageBuf, TRUE)>>, 1)
  \o (IF mode = "all" THEN EachReplica([m \in BackupNodes |-> ReplicaWrite(m, 1)]) ELSE <<>>)
global_blind_write ==
  /\ local = "exclusive"
  /\ Begin("blind", BlindWrite)
  /\ Keep /\ UNCHANGED <<tasks, casbuf, last>>

-----------------------------------------------------------------------------
(* What the thread does with the result, once the script is done.          *)
Lost == kind \in {"rlock", "wlock"} /\ casbuf = Taken
Outcome == CASE kind = "rlock" -> "shared"
             [] kind = "wlock" -> "exclusive"
             [] kind = "down"  -> "shared"
             [] kind \in {"runlock", "handover", "wunlock", "undo"} -> "none"
             [] kind = "blind" -> "exclusive"

(* A reader that found an exclusive holder takes its bit back, RDMA_FAA    *)
(* with poll_num 1, and tries again.                                       *)
Settle(rest) ==
  /\ script' = IF rest = <<>> /\ Lost /\ kind = "rlock"
                 THEN Batch_Submit_WRs(Primary, <<Prepare_WR_FAA(CasBuf, "subshared", TRUE)>>, 1)
                 ELSE rest
  /\ kind' = IF rest # <<>> THEN kind ELSE IF Lost /\ kind = "rlock" THEN "undo" ELSE "none"
  /\ local' = IF rest # <<>> \/ Lost THEN local ELSE Outcome

PostStep ==
  /\ script # <<>> /\ Head(script).do = "post"
  /\ queue' = [queue EXCEPT ![Head(script).at].wire = @ \o Head(script).wrs]
  /\ Settle(Tail(script))
  /\ UNCHANGED <<mode, word, mem, tasks, casbuf, copy, last>>

PollStep ==
  /\ script # <<>> /\ Head(script).do = "poll" /\ queue[Head(script).at].done > 0
  /\ queue' = [queue EXCEPT ![Head(script).at].done = @ - 1]
  /\ Settle(Tail(script))
  /\ UNCHANGED <<mode, word, mem, tasks, casbuf, copy, last>>

(* The adapter runs the oldest request of queue m.                         *)
BufContent(buf) == IF buf = PageBuf THEN copy ELSE tasks.mrs[buf]
Held(w, op) == IF op = "cas" THEN w.x # "none" \/ w.s # {} ELSE w.x # "none"
WordAfter(w, op) ==
  CASE op = "cas"       -> IF Held(w, op) THEN w ELSE [w EXCEPT !.x = "me"]
    [] op = "addshared" -> [w EXCEPT !.s = @ \cup {"me"}]
    [] op = "subshared" -> [w EXCEPT !.s = @ \ {"me"}]
    [] op = "release"   -> [w EXCEPT !.x = "none"]
    [] op = "handover"  -> [w EXCEPT !.x = "other"]
    [] op = "down"      -> [x |-> "none", s |-> w.s \cup {"me", "other"}]

Atomic(wr) ==
  /\ word' = WordAfter(word, wr.op)
  /\ LET found == IF Held(word, wr.op) THEN Taken ELSE Zero IN
       IF wr.buf = CasBuf THEN casbuf' = found /\ UNCHANGED tasks
                         ELSE tasks' = [tasks EXCEPT !.mrs[wr.buf] = found] /\ UNCHANGED casbuf
  /\ UNCHANGED <<mem, copy>>

AdapterRuns(m) ==
  /\ queue[m].wire # <<>>
  /\ LET wr == Head(queue[m].wire) IN
     /\ queue' = [queue EXCEPT ![m] = [wire |-> Tail(@.wire),
                                       done |-> IF wr.sig THEN @.done + 1 ELSE @.done]]
     /\ \/ wr.op = "write" /\ mem' = [mem EXCEPT ![m] = BufContent(wr.buf)]
           /\ UNCHANGED <<word, casbuf, tasks, copy>>
        \/ wr.op = "read" /\ copy' = mem[m] /\ UNCHANGED <<word, casbuf, tasks, mem>>
        \/ wr.op \notin {"write", "read"} /\ Atomic(wr)
  /\ UNCHANGED <<mode, local, script, kind, last>>

-----------------------------------------------------------------------------
(* The thread changes the page it holds exclusively; the buffer of a line  *)
(* it does not hold goes to another page at once.                          *)
Modify ==
  /\ script = <<>> /\ local = "exclusive" /\ copy < MaxVersion
  /\ copy' = copy + 1
  /\ UNCHANGED <<mode, word, mem, queue, tasks, casbuf, local, script, kind, last>>

Reuse ==
  /\ script = <<>> /\ local = "none" /\ copy' = Junk
  /\ UNCHANGED <<mode, word, mem, queue, tasks, casbuf, local, script, kind, last>>

(* SetReplicaType, between two phases of a benchmark.                      *)
SetReplicaType ==
  /\ script = <<>> /\ mode' \in Modes
  /\ UNCHANGED <<word, mem, queue, tasks, casbuf, copy, local, script, kind, last>>

(* Another node takes the free latch word, gives back what it got (after a *)
(* handover writing back the version it was handed), or drops its share.   *)
OtherTakes ==
  /\ word.x = "none" /\ word.s = {} /\ word' = [word EXCEPT !.x = "other"]
  /\ UNCHANGED <<mode, mem, queue, tasks, casbuf, copy, local, script, kind, last>>
OtherReleases ==
  /\ word.x = "other" /\ word' = [word EXCEPT !.x = "none"]
  /\ mem' = [m \in Homes |-> IF m = Primary \/ mode = "all" THEN last.version ELSE mem[m]]
  /\ last' = [last EXCEPT !.all = mode = "all"]
  /\ UNCHANGED <<mode, queue, tasks, casbuf, copy, local, script, kind>>
OtherDrops ==
  /\ "other" \in word.s /\ word' = [word EXCEPT !.s = @ \ {"other"}]
  /\ UNCHANGED <<mode, mem, queue, tasks, casbuf, copy, local, script, kind, last>>

WriterNext ==
  \/ RLock \/ WLock \/ RUnlock \/ WHandover \/ Wunlock_Async \/ WdowntoR_Async
  \/ global_blind_write \/ PostStep \/ PollStep \/ \E m \in Homes : AdapterRuns(m)
  \/ Modify \/ Reuse \/ SetReplicaType \/ OtherTakes \/ OtherReleases \/ OtherDrops

-----------------------------------------------------------------------------
(* Every queued write still finds in its buffer what its poster meant: the *)
(* copy in an async buffer of Async_Tasks outlives the reuse of the page   *)
(* buffer after an asynchronous Wunlock, no later operation takes that     *)
(* buffer before the adapter has read it, and the result of an atomic      *)
(* never lands on it.                                                      *)
FlushIntact ==
  \A m \in Homes : \A i \in 1 .. Len(queue[m].wire) :
    LET wr == queue[m].wire[i] IN wr.op = "write" => BufContent(wr.buf) = wr.want

(* Once the latch word shows no exclusive holder, the primary stores the   *)
(* last released version, and so does every replica if the release was     *)
(* made under REPLICA_WRITE_ALL: the unlock of write_page_and_Wunlock and  *)
(* of WdowntoR never overtakes the page.                                   *)
ReleasedAfterWrite ==
  word.x = "none" => \A m \in Homes : m = Primary \/ last.all => mem[m] = last.version

(* A thread that believes it holds the latch does, and a reader's copy is  *)
(* the last released version: no operation leaves a completion behind that *)
(* would let a later poll return before its CAS or its read is done.       *)
HoldsTruly ==
  script = <<>> =>
    /\ local = "exclusive" => word.x = "me"
    /\ local = "shared" => /\ "me" \in word.s \/ word.x = "me"
                           /\ word.x = "none" => copy = last.version

(* An operation that polls has a completion coming: global_write_page_and_ *)
(* Wunlock_Async submits the replica writes and returns.                   *)
FlushReturns ==
  script # <<>> /\ Head(script).do = "poll" =>
    LET q == queue[Head(script).at] IN q.done > 0 \/ \E i \in 1 .. Len(q.wire) : q.wire[i].sig
=============================================================================
