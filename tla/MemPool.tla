------------------------------ MODULE MemPool ------------------------------
(* Remote memory allocation: Allocate_Remote_RDMA_Slot and                 *)
(* Remote_Memory_Register on the compute nodes (src/storage/rdma.cc), the  *)
(* chunk handler create_mr_1GB_handler with Local_Memory_Register on the   *)
(* memory nodes (src/memory_node/memory_node_keeper.cpp), the thread       *)
(* connections that share the "main" queue pairs with the registrations    *)
(* (Remote_Query_Pair_Connection), and the failover edits of the replica   *)
(* lists between two fences.                                               *)
EXTENDS Regions, InUseArray, Verbs

CONSTANTS
  Needs,         \* compute node -> allocating thread -> the pools and regions it uses
  Connects,      \* compute node -> connecting thread -> the memory node it connects to
  Deployed,      \* the logical groups of the configuration
  SlotSize,      \* pool -> bytes of a slot (name_to_chunksize)
  MaxSlots       \* bound: compute node -> slots it asks for in a behaviour

AllocNodes == DOMAIN Needs
Connectors == [c \in AllocNodes |-> DOMAIN Connects[c]]
Allocators == [c \in AllocNodes |-> DOMAIN Needs[c]]
Stores  == UNION {{Deployed[l].regions[i] : i \in DOMAIN Deployed[l].regions} :
                    l \in DOMAIN Deployed}
Lids    == DOMAIN Deployed
Pools   == DOMAIN SlotSize
None    == -1

VARIABLES
  groups,     \* the compute nodes' logical_groups
  pool,       \* memory node -> region -> chunks left (pre_allocated_pool)
  arrays,     \* compute node -> pool -> region -> arrays, in registration order
  mutex,      \* compute node -> remote_mem_mutex
  alloc,      \* compute node -> allocating thread -> its state
  conn,       \* compute node -> connecting thread -> its state
  qp,         \* compute node -> memory node -> queue pair "main"
  inbox,      \* memory node -> compute node -> requests received
  held,       \* the slots handed out
  handed,     \* compute node -> how many it was handed
  failed_over \* a failover has happened

poolVars == <<groups, pool, arrays, mutex, alloc, conn, qp, inbox, held, handed,
              failed_over>>

IdleThread == [pc |-> "idle", pool |-> "none", region |-> 0, at |-> None,
               i |-> 0, reply |-> <<>>, sendbuf |-> 0, back |-> "none"]

PoolInit ==
  /\ groups = Deployed
  /\ pool = [m \in Stores |-> [l \in Lids |-> PreAllocatedPool(Deployed, m, l)]]
  /\ arrays = [c \in AllocNodes |-> [p \in Pools |-> [l \in Lids |-> <<>>]]]
  /\ mutex = [c \in AllocNodes |-> [writer |-> None, readers |-> {}]]
  /\ alloc = [c \in AllocNodes |-> [t \in Allocators[c] |-> IdleThread]]
  /\ conn = [c \in AllocNodes |-> [t \in Connectors[c] |-> [pc |-> "idle", answered |-> FALSE]]]
  /\ qp = [c \in AllocNodes |-> [m \in Stores |-> NewQp]]
  /\ inbox = [m \in Stores |-> [c \in AllocNodes |-> <<>>]]
  /\ held = {}
  /\ handed = [c \in AllocNodes |-> 0]
  /\ failed_over = FALSE

Arrays(c, t)  == arrays[c][alloc[c][t].pool][alloc[c][t].region]
SlotsPerChunk(p) == Granu \div SlotSize[p]

To(c, t, pc) == alloc' = [alloc EXCEPT ![c][t].pc = pc]

(* The caller returns with a slot of the array at position k.  "at" is     *)
(* where the slot lies on every memory node that hosts its region.         *)
HandOut(c, t, k) ==
  LET th == alloc[c][t]
      a  == Arrays(c, t)[k]
      offset == a.base + SlotOf(a) * SlotSize[th.pool]
  IN /\ held' = held \cup {[by |-> c, region |-> th.region, size |-> SlotSize[th.pool],
          at |-> [m \in {n \in Stores : Hosts(Deployed, n, th.region)} |->
                    TranslateLogicalToPhysicalAddress(Deployed, th.region, offset, m)]]}
     /\ handed' = [handed EXCEPT ![c] = @ + 1]
     /\ arrays' = [arrays EXCEPT ![c][th.pool][th.region][k] = Allocated(@)]
     /\ alloc' = [alloc EXCEPT ![c][t] = IdleThread]

(***************************************************************************)
(* Allocate_Remote_RDMA_Slot                                               *)
(***************************************************************************)
Asked(c) == handed[c] + Cardinality({t \in Allocators[c] : alloc[c][t].pc # "idle"})

(* A call begins with the unlocked emptiness test.                         *)
AllocateBegin(c, t, p, l) ==
  /\ alloc[c][t].pc = "idle"
  /\ Asked(c) < MaxSlots[c]
  /\ alloc' = [alloc EXCEPT ![c][t] =
                 [IdleThread EXCEPT !.pc = IF arrays[c][p][l] = <<>> THEN "first" ELSE "share",
                                    !.pool = p, !.region = l]]
  /\ UNCHANGED <<groups, pool, arrays, mutex, conn, qp, inbox, held, handed, failed_over>>

LockWrite(c, t) ==
  /\ mutex[c] = [writer |-> None, readers |-> {}]
  /\ mutex' = [mutex EXCEPT ![c].writer = t]

Unlocked(c) == mutex' = [mutex EXCEPT ![c].writer = None]

(* The exclusive lock and the second emptiness test.                       *)
StillEmpty(c, t) == Arrays(c, t) = <<>>

AllocateFirst(c, t) ==
  /\ alloc[c][t].pc = "first"
  /\ LockWrite(c, t)
  /\ alloc' = [alloc EXCEPT ![c][t].pc = IF StillEmpty(c, t) THEN "post" ELSE "unlock",
                            ![c][t].back = "unlock", ![c][t].i = 1]
  /\ UNCHANGED <<groups, pool, arrays, conn, qp, inbox, held, handed, failed_over>>

AllocateUnlock(c, t) ==
  /\ alloc[c][t].pc = "unlock"
  /\ Unlocked(c)
  /\ To(c, t, "share")
  /\ UNCHANGED <<groups, pool, arrays, conn, qp, inbox, held, handed, failed_over>>

AllocateShare(c, t) ==
  /\ alloc[c][t].pc = "share"
  /\ mutex[c].writer = None
  /\ mutex' = [mutex EXCEPT ![c].readers = @ \cup {t}]
  /\ alloc' = [alloc EXCEPT ![c][t].pc = "scan", ![c][t].at = None]
  /\ UNCHANGED <<groups, pool, arrays, conn, qp, inbox, held, handed, failed_over>>

(* The arrays are tried in the order of their base addresses; one try per  *)
(* step, since other readers take slots in between.                        *)
AllocateScan(c, t) ==
  LET th   == alloc[c][t]
      rest == {k \in DOMAIN Arrays(c, t) : Arrays(c, t)[k].base > th.at}
      k    == CHOOSE k \in rest : \A j \in rest : Arrays(c, t)[k].base <= Arrays(c, t)[j].base
  IN /\ th.pc = "scan"
     /\ IF rest = {}
        THEN /\ mutex' = [mutex EXCEPT ![c].readers = @ \ {t}]
             /\ To(c, t, "again")
             /\ UNCHANGED <<arrays, held, handed>>
        ELSE IF SlotOf(Arrays(c, t)[k]) # -1
        THEN /\ HandOut(c, t, k)
             /\ mutex' = [mutex EXCEPT ![c].readers = @ \ {t}]
        ELSE /\ arrays' = [arrays EXCEPT ![c][th.pool][th.region][k] = Allocated(@)]
             /\ alloc' = [alloc EXCEPT ![c][t].at = Arrays(c, t)[k].base]
             /\ UNCHANGED <<mutex, held, handed>>
     /\ UNCHANGED <<groups, pool, conn, qp, inbox, failed_over>>

(* Every array was full: the exclusive lock, the last registered chunk     *)
(* once more, and only then a new chunk.                                   *)
LastHasRoom(c, t) ==
  Arrays(c, t) # <<>> /\ SlotOf(Arrays(c, t)[Len(Arrays(c, t))]) # -1

(* The failed try of the last chunk raises its flag.                       *)
LastTried(c, t) ==
  LET th == alloc[c][t]
  IN arrays' = IF Arrays(c, t) = <<>> THEN arrays
               ELSE [arrays EXCEPT ![c][th.pool][th.region][Len(Arrays(c, t))] = Allocated(@)]

AllocateAgain(c, t) ==
  /\ alloc[c][t].pc = "again"
  /\ mutex[c] = [writer |-> None, readers |-> {}]
  /\ IF LastHasRoom(c, t)
     THEN HandOut(c, t, Len(Arrays(c, t))) /\ UNCHANGED mutex
     ELSE /\ mutex' = [mutex EXCEPT ![c].writer = t]
          /\ alloc' = [alloc EXCEPT ![c][t].pc = "post", ![c][t].back = "take",
                                    ![c][t].i = 1]
          /\ LastTried(c, t)
          /\ UNCHANGED <<held, handed>>
  /\ UNCHANGED <<groups, pool, conn, qp, inbox, failed_over>>

AllocateTake(c, t) ==
  /\ alloc[c][t].pc = "take"
  /\ HandOut(c, t, Len(Arrays(c, t)))
  /\ Unlocked(c)
  /\ UNCHANGED <<groups, pool, conn, qp, inbox, failed_over>>

(***************************************************************************)
(* Remote_Memory_Register, under the exclusive lock                        *)
(***************************************************************************)
Replicas(c, t) == GetReplicaSet(groups, alloc[c][t].region)

(* The replicas asked: all of them, so that their pools stay in step.      *)
Asking(c, t) == Replicas(c, t)

(* One send buffer for all requests: its reply address is set, then it is  *)
(* posted to the i-th replica.                                             *)
RegisterPost(c, t) ==
  LET th == alloc[c][t]
      m  == Asking(c, t)[th.i]
  IN /\ th.pc = "post"
     /\ alloc' = [alloc EXCEPT
          ![c][t].pc = "poll", ![c][t].sendbuf = th.i,
          ![c][t].reply = IF th.i = 1 THEN [j \in DOMAIN Asking(c, t) |-> None] ELSE @]
     /\ qp' = [qp EXCEPT ![c][m] = PostSend(@, [kind |-> "mr", thread |-> t])]
     /\ UNCHANGED <<groups, pool, arrays, mutex, conn, inbox, held, handed, failed_over>>

RegisterPoll(c, t) ==
  LET th == alloc[c][t]
      m  == Asking(c, t)[th.i]
  IN /\ th.pc = "poll"
     /\ CanPoll(qp[c][m])
     /\ qp' = [qp EXCEPT ![c][m] = Polled(@)]
     /\ alloc' = [alloc EXCEPT
          ![c][t].pc = IF th.i = Len(Asking(c, t)) THEN "replies" ELSE "post",
          ![c][t].i  = IF th.i = Len(Asking(c, t)) THEN @ ELSE @ + 1]
     /\ UNCHANGED <<groups, pool, arrays, mutex, conn, inbox, held, handed, failed_over>>

(* Every reply buffer has been written; the primary's chunk is the one     *)
(* that is used.                                                           *)
RegisterReplies(c, t) ==
  LET th == alloc[c][t]
  IN /\ th.pc = "replies"
     /\ \A j \in DOMAIN th.reply : th.reply[j] # None
     /\ arrays' = [arrays EXCEPT ![c][th.pool][th.region] =
                     Append(@, NewArray(th.reply[1], SlotsPerChunk(th.pool)))]
     /\ alloc' = [alloc EXCEPT ![c][t].pc = th.back, ![c][t].reply = <<>>]
     /\ UNCHANGED <<groups, pool, mutex, conn, qp, inbox, held, handed, failed_over>>

(***************************************************************************)
(* The adapter and the memory node                                         *)
(***************************************************************************)
(* The adapter reads the buffer now: the request carries the reply address *)
(* that stands in it.                                                      *)
Transmit(c, m) ==
  /\ CanTransmit(qp[c][m])
  /\ LET out == Outgoing(qp[c][m])
         msg == IF out.kind = "mr"
                THEN [kind |-> "mr", thread |-> out.thread,
                      region |-> alloc[c][out.thread].region,
                      reply |-> alloc[c][out.thread].sendbuf]
                ELSE [kind |-> "qp", thread |-> out.thread, region |-> 0, reply |-> 0]
     IN inbox' = [inbox EXCEPT ![m][c] = Append(@, msg)]
  /\ qp' = [qp EXCEPT ![c][m] = Transmitted(@)]
  /\ UNCHANGED <<groups, pool, arrays, mutex, alloc, conn, held, handed, failed_over>>

(* create_mr_1GB_handler: the last chunk of the region's pool, under       *)
(* local_mem_mutex, and the reply written to the address of the request.   *)
(* An empty pool ends the memory node's process (assert): no step.         *)
CreateMr(m, c) ==
  LET req == Head(inbox[m][c])
  IN /\ inbox[m][c] # <<>>
     /\ req.kind = "mr"
     /\ pool[m][req.region] # <<>>
     /\ pool' = [pool EXCEPT ![m][req.region] = SubSeq(@, 1, Len(@) - 1)]
     /\ alloc' = [alloc EXCEPT ![c][req.thread].reply[req.reply] =
                    pool[m][req.region][Len(pool[m][req.region])]]
     /\ inbox' = [inbox EXCEPT ![m][c] = Tail(@)]
     /\ UNCHANGED <<groups, arrays, mutex, conn, qp, held, handed, failed_over>>

(* create_qp_handler answers the connecting thread.                        *)
CreateQp(m, c) ==
  LET req == Head(inbox[m][c])
  IN /\ inbox[m][c] # <<>>
     /\ req.kind = "qp"
     /\ conn' = [conn EXCEPT ![c][req.thread].answered = TRUE]
     /\ inbox' = [inbox EXCEPT ![m][c] = Tail(@)]
     /\ UNCHANGED <<groups, pool, arrays, mutex, alloc, qp, held, handed, failed_over>>

(***************************************************************************)
(* Remote_Query_Pair_Connection: a thread's first use of a memory node     *)
(***************************************************************************)
ConnectPost(c, t) ==
  /\ conn[c][t].pc = "idle"
  /\ conn' = [conn EXCEPT ![c][t].pc = "poll"]
  /\ qp' = [qp EXCEPT ![c][Connects[c][t]] = PostSend(@, [kind |-> "qp", thread |-> t])]
  /\ UNCHANGED <<groups, pool, arrays, mutex, alloc, inbox, held, handed, failed_over>>

ConnectPoll(c, t) ==
  LET m == Connects[c][t]
  IN /\ conn[c][t].pc = "poll"
     /\ CanPoll(qp[c][m])
     /\ qp' = [qp EXCEPT ![c][m] = Polled(@)]
     /\ conn' = [conn EXCEPT ![c][t].pc = "reply"]
     /\ UNCHANGED <<groups, pool, arrays, mutex, alloc, inbox, held, handed, failed_over>>

ConnectReply(c, t) ==
  /\ conn[c][t].pc = "reply"
  /\ conn[c][t].answered
  /\ conn' = [conn EXCEPT ![c][t].pc = "done"]
  /\ UNCHANGED <<groups, pool, arrays, mutex, alloc, qp, inbox, held, handed, failed_over>>

(***************************************************************************)
(* The recovery of TpccBenchmarkMain.cpp: behind the fence every executor  *)
(* is paused, and a compute node allocates again only after it has edited  *)
(* its own lists, so one step edits them all.                              *)
(***************************************************************************)
Failover ==
  /\ ~failed_over
  /\ \A c \in AllocNodes : \A t \in Allocators[c] : alloc[c][t].pc = "idle"
  /\ \A c \in AllocNodes : \A t \in Connectors[c] : conn[c][t].pc \in {"idle", "done"}
  /\ failed_over' = TRUE
  /\ \/ groups' = HardRemovePrimary(groups)
     \/ groups' = RemoveFailedMemoryNode(groups, Max(Stores))
  /\ UNCHANGED <<pool, arrays, mutex, alloc, conn, qp, inbox, held, handed>>

PoolNext ==
  \/ \E c \in AllocNodes : \E t \in Allocators[c] :
        \/ \E n \in Needs[c][t] : AllocateBegin(c, t, n[1], n[2])
        \/ AllocateFirst(c, t) \/ AllocateUnlock(c, t) \/ AllocateShare(c, t)
        \/ AllocateScan(c, t) \/ AllocateAgain(c, t) \/ AllocateTake(c, t)
        \/ RegisterPost(c, t) \/ RegisterPoll(c, t) \/ RegisterReplies(c, t)
  \/ \E c \in AllocNodes : \E t \in Connectors[c] :
        \/ ConnectPost(c, t) \/ ConnectPoll(c, t) \/ ConnectReply(c, t)
  \/ \E c \in AllocNodes, m \in Stores :
        Transmit(c, m) \/ CreateMr(m, c) \/ CreateQp(m, c)
  \/ Failover

(***************************************************************************)
(* Properties                                                              *)
(***************************************************************************)
Overlap(x, y, m) == x.at[m] < y.at[m] + y.size /\ y.at[m] < x.at[m] + x.size

(* No byte of any memory node, on the primary or on a replica, belongs to  *)
(* two slots handed out by Allocate_Remote_RDMA_Slot, whichever compute    *)
(* nodes, threads and pools asked for them, before or after a failover:    *)
(* the region layout, the chunk pools and the free lists together.         *)
SlotsApart ==
  /\ \A c \in AllocNodes : Cardinality({h \in held : h.by = c}) = handed[c]
  /\ \A x, y \in held : x # y =>
       \A m \in DOMAIN x.at \cap DOMAIN y.at : ~Overlap(x, y, m)

(* A compute node registers another chunk only when every chunk it has for *)
(* that pool and region is used up, so at most one of them ever has room:  *)
(* the double test around remote_mem_mutex.                                *)
OneChunkOpen ==
  \A c \in AllocNodes, p \in Pools, l \in Lids :
    Cardinality({k \in DOMAIN arrays[c][p][l] : arrays[c][p][l][k].free # <<>>}) <= 1

(* With no registration under way, every replica of a region has handed    *)
(* out the same number of chunks, so a promoted replica goes on where the  *)
(* primary stopped.                                                        *)
Registering(c, t) == alloc[c][t].pc \in {"post", "poll", "replies"}
ReplicasInStep ==
  (\A c \in AllocNodes : \A t \in Allocators[c] : ~Registering(c, t)) =>
    \A l \in Lids : LET r == GetReplicaSet(groups, l)
                    IN \A i, j \in DOMAIN r : Len(pool[r[i]][l]) = Len(pool[r[j]][l])

(* A request that a memory node receives carries the reply buffer made for *)
(* that memory node: "Create separate receive buffers for each replica to  *)
(* avoid message mixing" (Remote_Memory_Register).                         *)
RepliesApart ==
  \A m \in Stores, c \in AllocNodes : \A k \in DOMAIN inbox[m][c] :
    inbox[m][c][k].kind = "mr" =>
      Replicas(c, inbox[m][c][k].thread)[inbox[m][c][k].reply] = m
=============================================================================
