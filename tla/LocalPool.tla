----------------------------- MODULE LocalPool -----------------------------
(* The registered memory of one node: Allocate_Local_RDMA_Slot,            *)
(* Local_Memory_Register, Deallocate_Local_RDMA_Slot of                    *)
(* src/storage/rdma.cc.  Every pool (messages, pages, ...) has regions of  *)
(* its own, cut into slots; all regions are also listed, in registration   *)
(* order, in local_mem_regions.  Addresses are the kernel's choice: a new  *)
(* region may lie above or below the others.                               *)
EXTENDS InUseArray, FiniteSets, FiniteSetsExt

CONSTANTS
  Users,         \* thread -> the pool it allocates from
  ChunkSize,     \* pool -> bytes of a slot (name_to_chunksize)
  RegionSlots,   \* pool -> slots of a region (name_to_allocated_size)
  Addresses,     \* where the kernel may place a region
  MaxHeld        \* bound: pool -> slots a thread holds at once

LocalPools == DOMAIN ChunkSize
RegionLength(p) == ChunkSize[p] * RegionSlots[p]

VARIABLES
  mem_pool,      \* pool -> address -> array (name_to_mem_pool)
  regions_list,  \* local_mem_regions: <<pool, address>>, oldest first
  local_lock,    \* local_mem_mutex: its writer and readers
  user,          \* thread -> its state
  owned          \* thread -> addresses it holds

localVars == <<mem_pool, regions_list, local_lock, user, owned>>

Nobody == "nobody"
NoArray == [a \in {} |-> NewArray(0, 0)]
AtRest == [pc |-> "idle", at |-> -1]

LocalInit ==
  /\ mem_pool = [p \in LocalPools |-> NoArray]
  /\ regions_list = <<>>
  /\ local_lock = [writer |-> Nobody, readers |-> {}]
  /\ user = [t \in DOMAIN Users |-> AtRest]
  /\ owned = [t \in DOMAIN Users |-> {}]

(* Local_Memory_Register: a region where the kernel finds room, listed and *)
(* entered in the pool.  The caller holds the exclusive lock.              *)
FreshAddress(p, a) ==
  \A i \in DOMAIN regions_list :
    LET r == regions_list[i]
    IN a + RegionLength(p) <= r[2] \/ r[2] + RegionLength(r[1]) <= a

Registered(arrays_of, p, a) ==
  [x \in DOMAIN arrays_of \cup {a} |->
     IF x = a THEN NewArray(a, RegionSlots[p]) ELSE arrays_of[x]]

Pool(t) == mem_pool[Users[t]]

Give(t, arrays_of, a) ==
  /\ mem_pool' = [mem_pool EXCEPT ![Users[t]] =
                    [arrays_of EXCEPT ![a] = Allocated(@)]]
  /\ owned' = [owned EXCEPT ![t] = @ \cup {a + SlotOf(arrays_of[a]) * ChunkSize[Users[t]]}]
  /\ user' = [user EXCEPT ![t] = AtRest]

(***************************************************************************)
(* Allocate_Local_RDMA_Slot                                                *)
(***************************************************************************)
LocalBegin(t) ==
  /\ user[t].pc = "idle"
  /\ Cardinality(owned[t]) < MaxHeld[Users[t]]
  /\ local_lock.writer = Nobody
  /\ IF DOMAIN Pool(t) = {}
     THEN user' = [user EXCEPT ![t].pc = "first"] /\ UNCHANGED local_lock
     ELSE /\ user' = [user EXCEPT ![t] = [pc |-> "scan", at |-> -1]]
          /\ local_lock' = [local_lock EXCEPT !.readers = @ \cup {t}]
  /\ UNCHANGED <<mem_pool, regions_list, owned>>

LocalFree == local_lock = [writer |-> Nobody, readers |-> {}]

(* The pool had no region: exclusive lock, second test, first region.      *)
LocalFirst(t) ==
  /\ user[t].pc = "first"
  /\ LocalFree
  /\ IF DOMAIN Pool(t) = {}
     THEN \E a \in Addresses :
            /\ FreshAddress(Users[t], a)
            /\ mem_pool' = [mem_pool EXCEPT ![Users[t]] = Registered(@, Users[t], a)]
            /\ regions_list' = Append(regions_list, <<Users[t], a>>)
     ELSE UNCHANGED <<mem_pool, regions_list>>
  /\ user' = [user EXCEPT ![t].pc = "share"]
  /\ UNCHANGED <<local_lock, owned>>

LocalShare(t) ==
  /\ user[t].pc = "share"
  /\ local_lock.writer = Nobody
  /\ local_lock' = [local_lock EXCEPT !.readers = @ \cup {t}]
  /\ user' = [user EXCEPT ![t] = [pc |-> "scan", at |-> -1]]
  /\ UNCHANGED <<mem_pool, regions_list, owned>>

(* The regions of the pool in address order, one try per step.             *)
LocalScan(t) ==
  LET rest == {a \in DOMAIN Pool(t) : a > user[t].at}
      a    == Min(rest)
  IN /\ user[t].pc = "scan"
     /\ IF rest = {}
        THEN /\ local_lock' = [local_lock EXCEPT !.readers = @ \ {t}]
             /\ user' = [user EXCEPT ![t].pc = "again"]
             /\ UNCHANGED <<mem_pool, owned>>
        ELSE IF SlotOf(Pool(t)[a]) # -1
        THEN /\ Give(t, Pool(t), a)
             /\ local_lock' = [local_lock EXCEPT !.readers = @ \ {t}]
        ELSE /\ mem_pool' = [mem_pool EXCEPT ![Users[t]][a] = Allocated(@)]
             /\ user' = [user EXCEPT ![t].at = a]
             /\ UNCHANGED <<local_lock, owned>>
     /\ UNCHANGED regions_list

(* All were full: the exclusive lock, the newest region of the node if it  *)
(* is of this pool, else a new region.                                     *)
LocalAgain(t) ==
  LET last == IF regions_list = <<>> THEN <<Nobody, -1>> ELSE regions_list[Len(regions_list)]
      mine == last[1] = Users[t] /\ last[2] \in DOMAIN Pool(t)
      tried == IF mine THEN [Pool(t) EXCEPT ![last[2]] = Allocated(@)] ELSE Pool(t)
  IN /\ user[t].pc = "again"
     /\ LocalFree
     /\ IF mine /\ SlotOf(Pool(t)[last[2]]) # -1
        THEN Give(t, Pool(t), last[2]) /\ UNCHANGED regions_list
        ELSE \E a \in Addresses :
               /\ FreshAddress(Users[t], a)
               /\ regions_list' = Append(regions_list, <<Users[t], a>>)
               /\ Give(t, Registered(tried, Users[t], a), a)
     /\ UNCHANGED local_lock

(***************************************************************************)
(* Deallocate_Local_RDMA_Slot: the region below the address (upper_bound   *)
(* minus one), the slot by its offset.  An address outside is left alone.  *)
(***************************************************************************)
RegionBelow(t, addr) == {a \in DOMAIN Pool(t) : a <= addr}

RegionOf(t, addr) == Max(RegionBelow(t, addr))

Deallocate(t, addr) ==
  /\ user[t].pc = "idle"
  /\ addr \in owned[t]
  /\ local_lock.writer = Nobody
  /\ LET a == RegionOf(t, addr)
         index == (addr - a) \div ChunkSize[Users[t]]
     IN mem_pool' = IF RegionBelow(t, addr) # {} /\ addr - a < RegionLength(Users[t])
                    THEN [mem_pool EXCEPT ![Users[t]][a] = Deallocated(@, index)]
                    ELSE mem_pool
  /\ owned' = [owned EXCEPT ![t] = @ \ {addr}]
  /\ UNCHANGED <<regions_list, local_lock, user>>

LocalNext ==
  \E t \in DOMAIN Users :
    \/ LocalBegin(t) \/ LocalFirst(t) \/ LocalShare(t) \/ LocalScan(t) \/ LocalAgain(t)
    \/ \E addr \in owned[t] : Deallocate(t, addr)

(***************************************************************************)
(* Properties                                                              *)
(***************************************************************************)
Extent(t, addr) == [from |-> addr, to |-> addr + ChunkSize[Users[t]]]

(* The registered memory of a node is shared out exactly: no two threads   *)
(* own overlapping buffers, whatever pools they use, and every slot of     *)
(* every region is free, once, or owned, however regions and slots come    *)
(* and go; the address arithmetic of Deallocate_Local_RDMA_Slot finds the  *)
(* region and the slot that a buffer came from.                            *)
BuffersApart ==
  /\ \A t, u \in DOMAIN Users : t # u =>
       \A x \in owned[t], y \in owned[u] :
         Extent(t, x).to <= Extent(u, y).from \/ Extent(u, y).to <= Extent(t, x).from
  /\ \A p \in LocalPools : \A a \in DOMAIN mem_pool[p] :
       LET free == mem_pool[p][a].free
           taken == {x \in UNION {owned[t] : t \in {u \in DOMAIN Users : Users[u] = p}} :
                       x \in a..(a + RegionLength(p) - 1)}
       IN /\ Len(free) + Cardinality(taken) = RegionSlots[p]
          /\ \A i, j \in DOMAIN free : i # j => free[i] # free[j]
          /\ \A i \in DOMAIN free : free[i] < RegionSlots[p]

(* The shortcut flag of an array is up only while its free list is empty,  *)
(* so no freed slot is skipped for good.                                   *)
UsedUpIsEmpty ==
  \A p \in LocalPools : \A a \in DOMAIN mem_pool[p] :
    mem_pool[p][a].used_up => mem_pool[p][a].free = <<>>
=============================================================================
