-------------------------------- MODULE SELCC --------------------------------
(***************************************************************************)
(* The shared-exclusive latch cache coherence protocol over one page.      *)
(*                                                                         *)
(* The memory node only serves one-sided operations: it keeps the page and *)
(* its latch word.  A compute node caches the page in a Cache_Handle whose *)
(* remote_lock_status says which global latch the node holds (0 none, 1    *)
(* shared, 2 exclusive), whose rw_mtx admits the node's own threads, and   *)
(* whose buffered message is the one invalidation the node has promised to *)
(* serve.  A node that cannot have the latch sends an invalidation to the  *)
(* holder; the holder forwards the page straight into the requester's      *)
(* buffer and moves the latch word with a fetch-and-add it does not wait   *)
(* for.                                                                    *)
(*                                                                         *)
(* Page contents are abstracted to whether a copy is the latest version:   *)
(* a write makes the writer's copy the only fresh one.                     *)
(***************************************************************************)
EXTENDS LatchWord, FiniteSets, FiniteSetsExt

CONSTANTS
    Thread,     \* front-end threads of all compute nodes
    Home,       \* Home[t]: the compute node t runs on
    Ops,        \* Ops[t]: the access functions t may call
    Threshold,  \* STARVATION_THRESHOLD: local accesses while a peer is urging
    Parallel,   \* PARALLEL_DEGREE: how many reads weigh as much as one write
    MaxLevel,   \* highest starvation level a request reaches
    Impatient,  \* threads whose wait for a pending reply may time out
    Late,       \* latch word updates that later operations may overtake
    InOrder,    \* a node's message never overtakes its earlier reminder
    Evicting,   \* nodes whose cache may evict the page
    ShortLRU,   \* an eviction batch can reach the handle released last
    NoOne, NoMsg, NoOp

ASSUME ThreadAssumption == Home \in [Thread -> Node]

ASSUME OpsAssumption ==
    Ops \in [Thread -> SUBSET {"read", "tryread", "write", "trywrite", "upgrade"}]

ASSUME BoundAssumption ==
    /\ Threshold \in Nat
    /\ Parallel \in Nat \ {0}
    /\ MaxLevel \in Nat
    /\ Impatient \subseteq Thread
    /\ Late \subseteq {"down", "handover", "release"}
    /\ InOrder \in BOOLEAN
    /\ ShortLRU \in BOOLEAN
    /\ Evicting \subseteq Node

VARIABLES
    word,      \* the latch word in the memory node
    mem,       \* is the memory node's page the latest version?
    posted,    \* per actor: the operation its queue pair has not delivered yet
    handle,    \* per node: the Cache_Handle
    gone,      \* per node: the handle removed from the table but not yet released
    requests,  \* invalidation messages on their way
    forward,   \* per node: the page forward on its way to it
    reply,     \* per node: the reply flag its requester polls
    awaiting,  \* per node: readers whose reply a writer still waits for
    worker,    \* per node and peer: what the message worker is about to process
    pc, op, urged, target, level

memVars == <<word, mem, posted>>
nodeVars == <<handle, gone>>
netVars == <<requests, forward, reply, awaiting, worker>>
threadVars == <<pc, op, urged, target, level>>
vars == <<memVars, nodeVars, netVars, threadVars>>

\* One message worker per peer and, as <<n, n>>, the thread that evicts.
Worker == Node \X Node
Actor == Thread \cup Worker

Message == [from : Node, to : Node, type : {"WS", "RM", "WM"},
            level : 0 .. MaxLevel, reminder : BOOLEAN]
Buffered == [from : Node, type : {"WS", "RM", "WM"}, level : 0 .. MaxLevel]
Posted == [delta : - WordSize .. WordSize, flush : BOOLEAN, fresh : BOOLEAN]
Forward == [type : {"RM", "WM"}, fresh : BOOLEAN]

\* Threads wait, or give the page up, once over the threshold.
MaxCount == (Threshold + 1) * Parallel + Cardinality(Thread)

Handle == [status : 0 .. 2, urging : 0 .. 2, buf : Buffered \cup {NoMsg},
           reads : 0 .. MaxCount, writes : 0 .. MaxCount,
           excl : Actor \cup {NoOne}, shared : SUBSET Thread, fresh : BOOLEAN]

\* Whom the last failed attempt found in the way: invalidation_RPC_type and
\* the invalidation targets.
Target == [type : {"none", "WS", "RM", "WM"}, nodes : SUBSET Node]
NoTarget == [type |-> "none", nodes |-> {}]

\* "abort" is the assert(false) that ends the exclusive acquisition.
PC == {"idle", "spin", "want", "miss", "rloop", "rback", "rwait", "reading",
       "rpost", "wupg", "wrel", "wloop", "wwait", "wswait", "writing", "abort"}

\* INVARIANT: the types of the state of a page.
TypeOK ==
    /\ word \in Word
    /\ mem \in BOOLEAN
    /\ posted \in [Actor -> Posted \cup {NoOp}]
    /\ handle \in [Node -> Handle]
    /\ gone \in [Node -> Handle \cup {NoOne}]
    /\ requests \subseteq Message
    /\ forward \in [Node -> Forward \cup {NoMsg}]
    /\ reply \in [Node -> {"none", "waiting", "pending", "dropped", "processed"}]
    /\ awaiting \in [Node -> SUBSET Node]
    /\ worker \in [Worker -> {"idle", "WS", "RM", "WM"}]
    /\ pc \in [Thread -> PC]
    /\ op \in [Thread -> {"read", "tryread", "write", "trywrite", "upgrade"}]
    /\ urged \in [Thread -> BOOLEAN]
    /\ target \in [Thread -> Target]
    /\ level \in [Thread -> 0 .. MaxLevel]

EmptyHandle == [status |-> 0, urging |-> 0, buf |-> NoMsg, reads |-> 0,
                writes |-> 0, excl |-> NoOne, shared |-> {}, fresh |-> FALSE]

Init ==
    /\ word = 0
    /\ mem = TRUE
    /\ posted = [a \in Actor |-> NoOp]
    /\ handle = [n \in Node |-> EmptyHandle]
    /\ gone = [n \in Node |-> NoOne]
    /\ requests = {}
    /\ forward = [n \in Node |-> NoMsg]
    /\ reply = [n \in Node |-> "none"]
    /\ awaiting = [n \in Node |-> {}]
    /\ worker = [w \in Worker |-> "idle"]
    /\ pc = [t \in Thread |-> "idle"]
    /\ op = [t \in Thread |-> "read"]
    /\ urged = [t \in Thread |-> FALSE]
    /\ target = [t \in Thread |-> NoTarget]
    /\ level = [t \in Thread |-> 0]

(***************************************************************************)
(* The local latch.  RWSpinMutex implements RWLock, so that here rw_mtx is *)
(* the RWLock itself.  A try_lock may also fail on an unheld latch that    *)
(* another thread is competing for.                                        *)
(***************************************************************************)
\* Mutant: a writer does not wait for the readers of its node.
MutFree(n) == handle[n].excl = NoOne

Free(n) == handle[n].excl = NoOne /\ handle[n].shared = {}

Competitors(n) == {t \in Thread : Home[t] = n /\ pc[t] \in {"want", "miss", "rpost"}}

Waits(t) == op[t] \in {"read", "write"}

\* handover_degree
Degree(h) == h.writes + h.reads \div Parallel

Overdue(h) == h.urging > 0 /\ Degree(h) > Threshold

\* Mutant: accesses made while a peer is urging are not counted.
MutCounted(h, reads, writes) == h

Counted(h, reads, writes) == [h EXCEPT !.reads = @ + reads, !.writes = @ + writes]

\* clear_pending_inv_states
Cleared(h) == [h EXCEPT !.urging = 0, !.buf = NoMsg, !.reads = 0, !.writes = 0]

\* Mutant: the upgrade leaves the outdated message behind.
MutOutdated(h) == h

\* A latch upgrade outdates a buffered writer_invalidate_shared.
Outdated(h) == IF h.buf = NoMsg THEN h ELSE Cleared(h)

SetHandle(n, h) == handle' = [handle EXCEPT ![n] = h]

(***************************************************************************)
(* process_buffered_inv_message: hand the page and the latch to the node   *)
(* whose invalidation is buffered.                                         *)
(***************************************************************************)
\* Mutant: the page is not flushed.
MutApply(o) == word' = Faa(word, o.delta) /\ UNCHANGED mem

Apply(o) ==
    /\ word' = Faa(word, o.delta)
    /\ mem' = IF o.flush THEN o.fresh ELSE mem

\* An update is posted and not waited for.  One of a kind in Late may be
\* overtaken by whatever happens next; any other takes effect first.
Post(a, kind, delta, flush, fresh) ==
    LET o == [delta |-> delta, flush |-> flush, fresh |-> fresh] IN
    IF kind \in Late
    THEN posted' = [posted EXCEPT ![a] = o] /\ UNCHANGED <<word, mem>>
    ELSE Apply(o) /\ UNCHANGED posted

ForwardPage(h) ==
    forward' = [forward EXCEPT ![h.buf.from] = [type |-> h.buf.type, fresh |-> h.fresh]]

Serve(n, h, a) ==
    /\ posted[a] = NoOp
    /\ h.buf # NoMsg
    /\ \/ /\ h.status = 1
          /\ word' = Faa(word, - Shared(n))
          /\ UNCHANGED <<mem, posted, forward>>
       \/ /\ h.status = 2 /\ h.urging = 1 /\ h.buf.type = "RM"
          /\ ForwardPage(h)
          /\ Post(a, "down", DownToShared(n, h.buf.from), TRUE, h.fresh)
       \/ /\ h.status = 2 /\ h.urging = 2 /\ h.buf.type = "WM"
          /\ Post(a, "handover", Handover(n, h.buf.from), FALSE, h.fresh)
          /\ ForwardPage(h)

\* The bytes of an invalid copy count for nothing.
Invalid(h) == [h EXCEPT !.status = 0, !.fresh = FALSE]

Served(h) ==
    Cleared(IF h.status = 2 /\ h.buf.type = "RM" THEN [h EXCEPT !.status = 1]
                                                  ELSE Invalid(h))

(***************************************************************************)
(* Accesses by the threads of a node.                                      *)
(***************************************************************************)
Goto(t, label) == pc' = [pc EXCEPT ![t] = label]

\* The locals of a call go out of scope with it.
NoSearch(t) ==
    /\ target' = [target EXCEPT ![t] = NoTarget]
    /\ level' = [level EXCEPT ![t] = 0]

Return(t) ==
    /\ Goto(t, "idle")
    /\ op' = [op EXCEPT ![t] = "read"]
    /\ urged' = [urged EXCEPT ![t] = FALSE]
    /\ NoSearch(t)

\* SELCC_Shared_Lock, SELCC_Exclusive_Lock and the Try variants: look the
\* handle up, read remote_urging_type; only the waiting variants spin on it.
Begin(t, o) ==
    /\ pc[t] = "idle"
    /\ o \in Ops[t] \ {"upgrade"}
    /\ op' = [op EXCEPT ![t] = o]
    /\ urged' = [urged EXCEPT ![t] = handle[Home[t]].urging > 0]
    /\ Goto(t, IF urged'[t] /\ o \in {"read", "write"} THEN "spin" ELSE "want")
    /\ UNCHANGED <<memVars, nodeVars, netVars, target, level>>

Spin(t) ==
    /\ pc[t] = "spin"
    /\ Degree(handle[Home[t]]) <= Threshold
    /\ Goto(t, "want")
    /\ UNCHANGED <<memVars, nodeVars, netVars, op, urged, target, level>>

\* A Try variant returns false when the local latch is not had at once.
LocalFail(t) ==
    /\ pc[t] \in {"want", "miss"}
    /\ ~ Waits(t)
    /\ ~ Free(Home[t]) \/ Competitors(Home[t]) # {t}
    /\ Return(t)
    /\ UNCHANGED <<memVars, nodeVars, netVars>>

LockShared(t) ==
    LET n == Home[t]
        h == IF urged[t] THEN Counted(handle[n], 1, 0) ELSE handle[n]
    IN  /\ pc[t] = "want"
        /\ op[t] \in {"read", "tryread"}
        /\ h.excl = NoOne
        /\ IF h.status > 0
           THEN SetHandle(n, [h EXCEPT !.shared = @ \cup {t}]) /\ Goto(t, "reading")
           ELSE SetHandle(n, h) /\ Goto(t, "miss")
        /\ urged' = [urged EXCEPT ![t] = FALSE]
        /\ UNCHANGED <<memVars, gone, netVars, op, target, level>>

\* The shared latch is given up for the exclusive one to fetch the page.
LockMiss(t) ==
    LET n == Home[t] IN
    /\ pc[t] = "miss"
    /\ Free(n)
    /\ IF handle[n].status > 0
       THEN SetHandle(n, [handle[n] EXCEPT !.shared = {t}]) /\ Goto(t, "reading")
       ELSE SetHandle(n, [handle[n] EXCEPT !.excl = t]) /\ Goto(t, "rloop")
    /\ UNCHANGED <<memVars, gone, netVars, op, urged, target, level>>

LockExcl(t) ==
    LET n == Home[t]
        h == IF urged[t] THEN Counted(handle[n], 0, 1) ELSE handle[n]
    IN  /\ pc[t] = "want"
        /\ op[t] \in {"write", "trywrite"}
        /\ Free(n)
        /\ SetHandle(n, [h EXCEPT !.excl = t])
        /\ Goto(t, CASE h.status = 0 -> "wloop"
                     [] h.status = 1 -> "wupg"
                     [] h.status = 2 -> "writing")
        /\ urged' = [urged EXCEPT ![t] = FALSE]
        /\ UNCHANGED <<memVars, gone, netVars, op, target, level>>

\* The retry limit of a Try variant, at the top of both loops.
GiveUp(t) ==
    /\ pc[t] \in {"rloop", "wloop"}
    /\ ~ Waits(t)
    /\ handle' = [handle EXCEPT ![Home[t]].excl = NoOne]
    /\ Return(t)
    /\ UNCHANGED <<memVars, gone, netVars>>

\* The page and the latch are there: remember it, admit the other threads.
Enter(t, status, fresh) ==
    LET n == Home[t] IN
    /\ IF status = 1
       THEN /\ SetHandle(n, [handle[n] EXCEPT !.status = 1, !.fresh = fresh,
                                              !.excl = NoOne, !.shared = {t}])
            /\ Goto(t, "reading")
       ELSE /\ SetHandle(n, [handle[n] EXCEPT !.status = 2, !.fresh = fresh])
            /\ Goto(t, "writing")
    /\ NoSearch(t)

(***************************************************************************)
(* The global latch: global_Rlock_and_read_page_with_INVALID,              *)
(* global_Wlock_and_read_page_with_INVALID and global_Rlock_update.        *)
(* Between two attempts a loop may send an invalidation to the node(s) the *)
(* last attempt found in the way.                                          *)
(***************************************************************************)
ReaderTry(t) ==
    LET n == Home[t] IN
    /\ pc[t] = "rloop"
    /\ posted[t] = NoOp
    /\ word' = Faa(word, Shared(n))
    /\ IF ReaderBlocked(word)
       THEN /\ Goto(t, "rback")
            /\ target' = [target EXCEPT ![t] =
                   [type |-> "RM", nodes |-> {ReaderTarget(word)} \cap (Node \ {n})]]
            /\ UNCHANGED <<handle, level>>
       ELSE Enter(t, 1, mem)
    /\ UNCHANGED <<mem, posted, gone, netVars, op, urged>>

ReaderBack(t) ==
    /\ pc[t] = "rback"
    /\ word' = Faa(word, - Shared(Home[t]))
    /\ Goto(t, "rloop")
    /\ UNCHANGED <<mem, posted, nodeVars, netVars, op, urged, target, level>>

WriterTry(t) ==
    LET n == Home[t]
        found(type, nodes) ==
            target' = [target EXCEPT ![t] = [type |-> type, nodes |-> nodes]]
    IN  /\ pc[t] = "wloop"
        /\ posted[t] = NoOp
        /\ \/ /\ word = 0
              /\ word' = Excl(n)
              /\ Enter(t, 2, mem)
           \/ /\ word # 0
              /\ UNCHANGED <<word, handle, level>>
              /\ \/ /\ WriterSeesOwn(word, n) \/ WriterSeesFault(word)
                    /\ found("none", {})
                    /\ UNCHANGED pc
                 \/ /\ ~ WriterSeesOwn(word, n) /\ WriterSeesHolder(word)
                    /\ found("WM", {WriteByte(word) - 100})
                    /\ UNCHANGED pc
                 \/ /\ WriteByte(word) < 100 /\ ~ WriterSeesFault(word)
                    /\ found("WS", ReaderTargets(word) \ {n})
                    /\ IF ReaderBits(word) = {} THEN Goto(t, "abort") ELSE UNCHANGED pc
        /\ UNCHANGED <<mem, posted, gone, netVars, op, urged>>

\* Shared to exclusive in one compare-and-swap, or not at all.
UpgradeTry(t) ==
    LET n == Home[t] IN
    /\ pc[t] = "wupg"
    /\ posted[t] = NoOp
    /\ IF word = Shared(n)
       THEN /\ word' = Excl(n)
            /\ SetHandle(n, [Outdated(handle[n]) EXCEPT !.status = 2])
            /\ Goto(t, "writing")
       ELSE Goto(t, "wrel") /\ UNCHANGED <<word, handle>>
    /\ UNCHANGED <<mem, posted, gone, netVars, op, urged, target, level>>

\* The failed upgrade has lost the shared latch: wait for the exclusive one
\* from scratch, or return false without either.
UpgradeBack(t) ==
    LET n == Home[t]
        h == Invalid(Outdated(handle[n]))
    IN  /\ pc[t] = "wrel"
        /\ word' = Faa(word, - Shared(n))
        /\ IF Waits(t)
           THEN SetHandle(n, h) /\ Goto(t, "wloop") /\ UNCHANGED <<op, urged, target, level>>
           ELSE SetHandle(n, [h EXCEPT !.excl = NoOne]) /\ Return(t)
        /\ UNCHANGED <<mem, posted, gone, netVars>>

\* SELCC_Lock_Upgrade: the only local reader may try to become the writer.
UpgradeLocal(t) ==
    LET n == Home[t]
        h == IF handle[n].urging > 0 THEN Counted(handle[n], 0, 1) ELSE handle[n]
    IN  /\ pc[t] = "reading"
        /\ "upgrade" \in Ops[t]
        /\ h.shared = {t}
        /\ SetHandle(n, [h EXCEPT !.shared = {}, !.excl = t])
        /\ op' = [op EXCEPT ![t] = "upgrade"]
        /\ Goto(t, IF h.status = 1 THEN "wupg" ELSE "writing")
        /\ UNCHANGED <<memVars, gone, netVars, urged, target, level>>

(***************************************************************************)
(* The requester's side of an invalidation.                                *)
(***************************************************************************)
Harder(t) == IF level[t] < MaxLevel THEN level[t] + 1 ELSE level[t]

Invalidation(t, to, reminder) ==
    [from |-> Home[t], to |-> to, type |-> target[t].type,
     level |-> level[t], reminder |-> reminder]

ReminderTo(n, p) == {m \in requests : m.reminder /\ m.from = n /\ m.to = p}

\* Reader_Invalidate_Modified_RPC and Writer_Invalidate_Modified_RPC
SendModified(t) ==
    /\ pc[t] \in {"rloop", "wloop"}
    /\ target[t].type \in {"RM", "WM"}
    /\ \E to \in target[t].nodes :
           requests' = requests \cup {Invalidation(t, to, FALSE)}
    /\ reply' = [reply EXCEPT ![Home[t]] = "waiting"]
    /\ level' = [level EXCEPT ![t] = Harder(t)]
    /\ Goto(t, IF pc[t] = "rloop" THEN "rwait" ELSE "wwait")
    /\ UNCHANGED <<memVars, nodeVars, forward, awaiting, worker, op, urged, target>>

\* The timeout of a requester that was told to wait.
Remind(t) ==
    /\ t \in Impatient
    /\ pc[t] \in {"rwait", "wwait"}
    /\ reply[Home[t]] = "pending"
    /\ \E to \in target[t].nodes :
           /\ ReminderTo(Home[t], to) = {}
           /\ requests' = requests \cup {Invalidation(t, to, TRUE)}
    /\ level' = [level EXCEPT ![t] = Harder(t)]
    /\ UNCHANGED <<memVars, nodeVars, forward, reply, awaiting, worker,
                   pc, op, urged, target>>

TakeReply(t) ==
    LET n == Home[t] IN
    /\ pc[t] \in {"rwait", "wwait"}
    /\ \/ /\ reply[n] = "processed"
          /\ Enter(t, IF pc[t] = "rwait" THEN 1 ELSE 2, handle[n].fresh)
       \/ /\ reply[n] = "dropped"
          /\ Goto(t, IF pc[t] = "rwait" THEN "rloop" ELSE "wloop")
          /\ target' = [target EXCEPT ![t] = NoTarget]
          /\ UNCHANGED <<handle, level>>
    /\ reply' = [reply EXCEPT ![n] = "none"]
    /\ UNCHANGED <<memVars, gone, requests, forward, awaiting, worker, op, urged>>

\* Writer_Invalidate_Shared_RPC to every reader, in parallel
SendShared(t) ==
    LET n == Home[t] IN
    /\ pc[t] = "wloop"
    /\ target[t].type = "WS"
    /\ requests' = requests \cup {Invalidation(t, to, FALSE) : to \in target[t].nodes}
    /\ awaiting' = [awaiting EXCEPT ![n] = target[t].nodes]
    /\ level' = [level EXCEPT ![t] = Harder(t)]
    /\ Goto(t, "wswait")
    /\ UNCHANGED <<memVars, nodeVars, forward, reply, worker, op, urged, target>>

\* Writer_Invalidate_Shared_RPC_Reply
TakeSharedReplies(t) ==
    /\ pc[t] = "wswait"
    /\ awaiting[Home[t]] = {}
    /\ target' = [target EXCEPT ![t] = NoTarget]
    /\ Goto(t, "wloop")
    /\ UNCHANGED <<memVars, nodeVars, netVars, op, urged, level>>

(***************************************************************************)
(* Leaving the page.                                                       *)
(***************************************************************************)
Write(t) ==
    LET stale(r) == [r EXCEPT !.fresh = FALSE] IN
    /\ pc[t] = "writing"
    /\ handle' = [n \in Node |-> [handle[n] EXCEPT !.fresh = n = Home[t]]]
    /\ mem' = FALSE
    /\ posted' = [a \in Actor |-> IF posted[a] = NoOp THEN NoOp ELSE stale(posted[a])]
    /\ forward' = [n \in Node |-> IF forward[n] = NoMsg THEN NoMsg ELSE stale(forward[n])]
    /\ gone' = [n \in Node |-> IF gone[n] = NoOne THEN NoOne ELSE stale(gone[n])]
    /\ UNCHANGED <<word, requests, reply, awaiting, worker, threadVars>>

\* reader_post_access
ReaderPost(t) ==
    LET n == Home[t] IN
    /\ pc[t] = "reading"
    /\ SetHandle(n, [handle[n] EXCEPT !.shared = @ \ {t}])
    /\ IF Overdue(handle[n])
       THEN Goto(t, "rpost") /\ UNCHANGED <<op, urged, target, level>>
       ELSE Return(t)
    /\ UNCHANGED <<memVars, gone, netVars>>

ReaderPostServe(t) ==
    LET n == Home[t] IN
    /\ pc[t] = "rpost"
    /\ Free(n)
    /\ IF Overdue(handle[n])
       THEN Serve(n, handle[n], t) /\ SetHandle(n, Served(handle[n]))
       ELSE UNCHANGED <<memVars, handle, forward>>
    /\ Return(t)
    /\ UNCHANGED <<gone, requests, reply, awaiting, worker>>

\* updater_writer_post_access
WriterPost(t) ==
    LET n == Home[t]
        h == [handle[n] EXCEPT !.excl = NoOne]
    IN  /\ pc[t] = "writing"
        /\ IF Overdue(h)
           THEN Serve(n, h, t) /\ SetHandle(n, Served(h))
           ELSE SetHandle(n, h) /\ UNCHANGED <<memVars, forward>>
        /\ Return(t)
        /\ UNCHANGED <<gone, requests, reply, awaiting, worker>>

(***************************************************************************)
(* The holder's side: one message worker per peer takes the peer's         *)
(* messages one at a time, in any order since they arrive over several     *)
(* queue pairs.  A worker that gets rw_mtx installs the message, and then  *)
(* processes whatever message is installed by that time.                   *)
(***************************************************************************)
Prio(h) == IF h.buf = NoMsg THEN 0 ELSE h.buf.level

Install(h, m) ==
    [h EXCEPT !.buf = [from |-> m.from, type |-> m.type, level |-> m.level],
              !.urging = IF m.type = "RM" THEN 1 ELSE 2]

Receive(m) ==
    /\ m \in requests
    /\ worker[<<m.to, m.from>>] = "idle"
    /\ InOrder /\ ~ m.reminder => ReminderTo(m.from, m.to) = {}
    /\ requests' = requests \ {m}

Busy(n) == ~ Free(n) \/ Competitors(n) # {}

\* rw_mtx is kept while the worker goes on to process the message.
Take(m, h) ==
    /\ SetHandle(m.to, [h EXCEPT !.excl = <<m.to, m.from>>])
    /\ worker' = [worker EXCEPT ![<<m.to, m.from>>] = m.type]

\* Writer_Inv_Shared_handler
HandleShared(m) ==
    LET n == m.to
        h == handle[n]
        answered == awaiting' = [awaiting EXCEPT ![m.from] = @ \ {n}]
    IN  /\ m.type = "WS"
        /\ Receive(m)
        /\ \/ /\ Busy(n)
              /\ SetHandle(n, IF h.status = 1 /\ h.buf = NoMsg THEN Install(h, m) ELSE h)
              /\ answered
              /\ UNCHANGED worker
           \/ /\ Free(n)
              /\ h.status = 1
              /\ Take(m, Install(h, m))
              /\ UNCHANGED awaiting
           \/ /\ Free(n)
              /\ h.status # 1
              /\ answered
              /\ UNCHANGED <<handle, worker>>
        /\ UNCHANGED <<memVars, gone, forward, reply, threadVars>>

\* Mutant: the sender of the replaced message is told nothing.
MutReplace(m, r) == reply' = IF r = "none" THEN reply ELSE [reply EXCEPT ![m.from] = r]

\* Install m in place of the buffered message, whose sender is told so.
Replace(m, r) ==
    LET old == handle[m.to].buf
        told == IF old = NoMsg THEN reply ELSE [reply EXCEPT ![old.from] = "dropped"]
    IN  reply' = IF r = "none" THEN told ELSE [told EXCEPT ![m.from] = r]

\* Reader_Inv_Modified_handler and Writer_Inv_Modified_handler
HandleModified(m) ==
    LET n == m.to
        h == handle[n]
        dropped == reply' = [reply EXCEPT ![m.from] = "dropped"]
    IN  /\ m.type \in {"RM", "WM"}
        /\ ~ m.reminder
        /\ Receive(m)
        /\ \/ /\ Busy(n)
              /\ IF h.status = 2 /\ Prio(h) < m.level
                 THEN SetHandle(n, Install(h, m)) /\ Replace(m, "pending")
                 ELSE dropped /\ UNCHANGED handle
              /\ UNCHANGED <<memVars, forward, worker>>
           \/ /\ Free(n)
              /\ m.level >= Prio(h)
              /\ IF h.status = 2
                 THEN Take(m, Install(h, m)) /\ Replace(m, "none")
                 ELSE dropped /\ UNCHANGED <<handle, worker>>
              /\ UNCHANGED <<memVars, forward>>
           \/ /\ Free(n)
              /\ m.level < Prio(h)
              /\ Serve(n, h, <<n, m.from>>)
              /\ SetHandle(n, Served(h))
              /\ dropped
              /\ UNCHANGED worker
        /\ UNCHANGED <<gone, awaiting, threadVars>>

\* The same handlers on a pending_reminder, which is never answered
HandleReminder(m) ==
    LET n == m.to
        h == handle[n]
    IN  /\ m.reminder
        /\ Receive(m)
        /\ \/ /\ Busy(n)
              /\ IF h.status = 2 /\ h.buf # NoMsg /\ h.buf.from = m.from
                 THEN SetHandle(n, Install(h, m))
                 ELSE UNCHANGED handle
              /\ UNCHANGED worker
           \/ /\ Free(n)
              /\ h.buf # NoMsg
              /\ Take(m, h)
           \/ /\ Free(n)
              /\ h.buf = NoMsg
              /\ UNCHANGED <<handle, worker>>
        /\ UNCHANGED <<memVars, gone, forward, reply, awaiting, threadVars>>

\* The worker that kept rw_mtx processes the buffered message.
WorkerServe(w) ==
    LET n == w[1]
        h == [handle[n] EXCEPT !.excl = NoOne]
    IN  /\ worker[w] # "idle"
        /\ Serve(n, h, w)
        /\ SetHandle(n, Served(h))
        /\ worker' = [worker EXCEPT ![w] = "idle"]
        /\ awaiting' = IF worker[w] = "WS"
                       THEN [awaiting EXCEPT ![w[2]] = @ \ {n}]
                       ELSE awaiting
        /\ UNCHANGED <<gone, requests, reply, threadVars>>

(***************************************************************************)
(* Eviction: the handle leaves the table once nobody refers to it, and     *)
(* only then Deallocate_MR_WITH_CCP gives the latch back; by that time a   *)
(* thread may have inserted a new handle for the page.  A worker on a      *)
(* shared or reader invalidation drops its reference before it serves.     *)
(***************************************************************************)
\* Mutant: a page in use is evicted.
MutUnreferenced(n) == \A p \in Node : worker[<<n, p>>] = "idle"

Unreferenced(n) ==
    /\ \A t \in Thread : Home[t] = n => pc[t] = "idle"
    /\ \A p \in Node : \/ worker[<<n, p>>] = "idle"
                       \/ ShortLRU /\ worker[<<n, p>>] # "WM"

Evict(n) ==
    /\ n \in Evicting
    /\ gone[n] = NoOne
    /\ Unreferenced(n)
    /\ gone' = [gone EXCEPT ![n] = handle[n]]
    /\ SetHandle(n, EmptyHandle)
    /\ UNCHANGED <<memVars, netVars, threadVars>>

\* Deallocate_MR_WITH_CCP: first the buffered message, then what is left
Deallocate(n) ==
    LET h == gone[n] IN
    /\ h # NoOne
    /\ posted[<<n, n>>] = NoOp
    /\ \/ /\ h.buf # NoMsg
          /\ Serve(n, h, <<n, n>>)
          /\ gone' = [gone EXCEPT ![n] = Served(h)]
       \/ /\ h.buf = NoMsg
          /\ gone' = [gone EXCEPT ![n] = NoOne]
          /\ CASE h.status = 0 -> UNCHANGED memVars
               [] h.status = 1 -> word' = Faa(word, - Shared(n)) /\ UNCHANGED <<mem, posted>>
               [] h.status = 2 -> Post(<<n, n>>, "release", Release(n), TRUE, h.fresh)
          /\ UNCHANGED forward
    /\ UNCHANGED <<handle, requests, reply, awaiting, worker, threadVars>>

(***************************************************************************)
(* The network.  A queue pair delivers in order; here it holds at most one *)
(* operation, and its owner's next operation waits for it.  The page flush *)
(* of an operation precedes its fetch-and-add on the same queue pair.      *)
(***************************************************************************)
Deliver(a) ==
    /\ posted[a] # NoOp
    /\ Apply(posted[a])
    /\ posted' = [posted EXCEPT ![a] = NoOp]
    /\ UNCHANGED <<nodeVars, netVars, threadVars>>

DeliverForward(n) ==
    /\ forward[n] # NoMsg
    /\ handle' = [handle EXCEPT ![n].fresh = forward[n].fresh]
    /\ reply' = [reply EXCEPT ![n] = "processed"]
    /\ forward' = [forward EXCEPT ![n] = NoMsg]
    /\ UNCHANGED <<memVars, gone, requests, awaiting, worker, threadVars>>

ThreadStep(t) ==
    \/ \E o \in {"read", "tryread", "write", "trywrite"} : Begin(t, o)
    \/ Spin(t) \/ LocalFail(t) \/ LockShared(t) \/ LockMiss(t) \/ LockExcl(t)
    \/ GiveUp(t)
    \/ ReaderTry(t) \/ ReaderBack(t) \/ WriterTry(t)
    \/ UpgradeTry(t) \/ UpgradeBack(t) \/ UpgradeLocal(t)
    \/ SendModified(t) \/ Remind(t) \/ TakeReply(t)
    \/ SendShared(t) \/ TakeSharedReplies(t)
    \/ Write(t) \/ ReaderPost(t) \/ ReaderPostServe(t) \/ WriterPost(t)

Next ==
    \/ \E t \in Thread : ThreadStep(t)
    \/ \E m \in requests : HandleShared(m) \/ HandleModified(m) \/ HandleReminder(m)
    \/ \E w \in Worker : WorkerServe(w)
    \/ \E n \in Node : Evict(n) \/ Deallocate(n) \/ DeliverForward(n)
    \/ \E a \in Actor : Deliver(a)

Spec == Init /\ [][Next]_vars

(***************************************************************************)
(* Safety.                                                                 *)
(***************************************************************************)
Inside(t) == pc[t] \in {"reading", "writing"}

\* INVARIANT: while a thread is inside SELCC_Exclusive_Lock ..
\* SELCC_Exclusive_UnLock no other thread, of any node, is inside an access.
WriterAlone ==
    \A t, u \in Thread : pc[t] = "writing" /\ Inside(u) => t = u

\* INVARIANT: an access sees the latest version of the page, wherever it was
\* written and whichever way it came: from memory, or forwarded by a peer.
AccessesFresh ==
    \A t \in Thread : Inside(t) => handle[Home[t]].fresh

\* INVARIANT: no attempt decodes a latch word it takes for impossible.
NoAbort == \A t \in Thread : pc[t] # "abort"

\* INVARIANT: the buffered message is one the handle can serve, as the
\* assertions of process_buffered_inv_message demand.
BufferedServable ==
    \A n \in Node : \A h \in {handle[n], gone[n]} \ {NoOne} :
        IF h.buf = NoMsg
        THEN h.urging = 0
        ELSE \/ h.status = 1 /\ h.urging = 2 /\ h.buf.type = "WS"
             \/ h.status = 2 /\ h.urging = 1 /\ h.buf.type = "RM"
             \/ h.status = 2 /\ h.urging = 2 /\ h.buf.type = "WM"

\* INVARIANT: a requester that was told to wait is remembered by exactly one
\* handle, or its page is on the way.
PendingRemembered ==
    \A n \in Node : reply[n] = "pending" =>
        \/ forward[n] # NoMsg
        \/ \E m \in Node : \E h \in {handle[m], gone[m]} \ {NoOne} :
               h.buf # NoMsg /\ h.buf.from = n /\ h.buf.type # "WS"

\* INVARIANT: the handle Deallocate_MR_WITH_CCP works on is latched by nobody.
EvictedUnused == \A n \in Node : gone[n] # NoOne => gone[n].excl = NoOne

\* What node n has to its credit in the latch word: its own handles, a latch
\* on its way to it or not yet taken up, and a shared bit to be taken back.
Granted(n) ==
    (IF forward[n] # NoMsg THEN {forward[n].type} ELSE {}) \cup
    (IF reply[n] = "processed" THEN {target[t].type : t \in {u \in Thread :
            Home[u] = n /\ pc[u] \in {"rwait", "wwait"}}} ELSE {})

Worth(n, status) == CASE status = 0 -> 0 [] status = 1 -> Shared(n) [] status = 2 -> Excl(n)

Credit(n) ==
    Worth(n, handle[n].status)
    + (IF gone[n] = NoOne THEN 0 ELSE Worth(n, gone[n].status))
    + (IF "RM" \in Granted(n) THEN Shared(n) ELSE 0)
    + (IF "WM" \in Granted(n) THEN Excl(n) ELSE 0)
    + Cardinality({t \in Thread : Home[t] = n /\ pc[t] = "rback"}) * Shared(n)

Owed == {a \in Actor : posted[a] # NoOp}

\* INVARIANT: once the posted updates have arrived the latch word is exactly
\* the sum of what the nodes hold: no bit leaks and none is taken back twice,
\* whatever overtakes what.
LatchLedger ==
    (word + MapThenSumSet(LAMBDA a : posted[a].delta, Owed)) % WordSize
        = MapThenSumSet(Credit, Node) % WordSize

(***************************************************************************)
(* SELCC implements PageLatch: a node's mode is what its handles and the   *)
(* grants on their way to it add up to; a released page belongs to its     *)
(* holder until the flush and the release have arrived.                    *)
(***************************************************************************)
ModeOf(n) ==
    {handle[n].status} \cup
    (IF gone[n] = NoOne THEN {} ELSE {gone[n].status}) \cup
    {IF g = "RM" THEN 1 ELSE 2 : g \in Granted(n)} \cup
    (IF posted[<<n, n>>] # NoOp /\ posted[<<n, n>>].delta = Release(n) THEN {2} ELSE {})

SharedNodes == {n \in Node : 1 \in ModeOf(n) /\ 2 \notin ModeOf(n)}
ExclNodes == {n \in Node : 2 \in ModeOf(n)}

FreshAt(n) ==
    \/ handle[n].fresh
    \/ gone[n] # NoOne /\ gone[n].fresh
    \/ forward[n] # NoMsg /\ forward[n].fresh
    \/ posted[<<n, n>>] # NoOp /\ posted[<<n, n>>].fresh

CurrentPlaces ==
    {n \in SharedNodes \cup ExclNodes : FreshAt(n)} \cup (IF mem THEN {N} ELSE {})

Page == INSTANCE PageLatch
        WITH Memory <- N, shared <- SharedNodes, excl <- ExclNodes,
             current <- CurrentPlaces

\* PROPERTY: the protocol implements PageLatch.
ImplementsPageLatch == Page!PageSpec

(***************************************************************************)
(* Liveness.  A thread that is inside an access leaves it, workers and the *)
(* network make progress, and the acquiring loops do send an invalidation  *)
(* every INVALIDATION_INTERVAL attempts and a reminder on every timeout.   *)
(* No thread has to begin an access.                                       *)
(***************************************************************************)
Proceed(t) ==
    \/ Spin(t) \/ LockShared(t) \/ LockMiss(t) \/ LockExcl(t)
    \/ ReaderTry(t) \/ ReaderBack(t) \/ WriterTry(t) \/ UpgradeTry(t) \/ UpgradeBack(t)
    \/ TakeReply(t) \/ TakeSharedReplies(t)
    \/ ReaderPost(t) \/ ReaderPostServe(t) \/ WriterPost(t)

HandleFrom(w) ==
    \E m \in requests :
        /\ <<m.to, m.from>> = w
        /\ HandleShared(m) \/ HandleModified(m) \/ HandleReminder(m)

Fairness ==
    /\ \A t \in Thread : WF_vars(Proceed(t)) /\ SF_vars(Remind(t))
    /\ \A w \in Worker : WF_vars(HandleFrom(w)) /\ WF_vars(WorkerServe(w))
    /\ \A n \in Node : WF_vars(DeliverForward(n)) /\ WF_vars(Deallocate(n))
    /\ \A a \in Actor : WF_vars(Deliver(a))

LiveSpec == Spec /\ Fairness

\* PROPERTY: every invalidation is answered: no requester polls its reply
\* flag for ever, however busy the holder keeps the page.
RequestsAnswered ==
    \A t \in Thread :
        pc[t] \in {"rwait", "wwait", "wswait"} ~> pc[t] \notin {"rwait", "wwait", "wswait"}

\* INVARIANT: SELCC as its callers see it: exclusive and shared accesses of all
\* nodes exclude each other as their names say, and each sees the latest version.
AccessesCoherent == TypeOK /\ WriterAlone /\ AccessesFresh

\* INVARIANT: the latch word agrees with what the nodes hold, and the local latch
\* of a node with the word: neither two threads of a node nor two nodes write.
LatchesSafe == WriterAlone /\ LatchLedger

\* INVARIANT: competing acquisitions end with one writer, and none of them reads
\* a latch word that global_Wlock_and_read_page_with_INVALID takes for impossible.
AcquiresSafe == WriterAlone /\ NoAbort
=============================================================================
