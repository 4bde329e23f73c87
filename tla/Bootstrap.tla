----------------------------- MODULE Bootstrap -----------------------------
(* How a deployment comes up: RDMA_Manager::Client_Set_Up_Resources with   *)
(* the threads it starts on every compute node (src/storage/rdma.cc), and  *)
(* Memory_Node_Keeper::server_communication_thread, one per connection, on *)
(* every memory node (src/memory_node/memory_node_keeper.cpp).  Each       *)
(* compute node dials every memory node, exchanges queue pair data and     *)
(* memory tables over the socket, exchanges queue pairs with every other   *)
(* compute node through memory node 1, meets the others at the socket      *)
(* barrier, and reads the region metadata from memcached.                  *)
EXTENDS Regions, Verbs

CONSTANT Coordinator  \* memory node 1

VARIABLES
  site,        \* the deployment, fixed
  mainpc,      \* compute node -> where Client_Set_Up_Resources is
  link,        \* compute -> memory: Get_Remote_qp_Info_Then_Connect
  serv,        \* memory -> compute: server_communication_thread
  memlock,     \* memory node -> holders of local_mem_mutex
  prereg,      \* memory node -> pre_allocated_flag
  said,        \* memory node -> regions already broadcast
  kv,          \* memcached: <<region, memory node>> -> value
  tables,      \* memory node -> number of the lock table (and oracle) made
  got,         \* compute -> memory -> the table it was sent
  counted,     \* memory node -> memory_connection_counter
  cross,       \* compute -> compute: Cross_Computes_RPC_Threads_Creator
  sendbuf,     \* compute -> compute: the creator's send message buffer
  mainqp,      \* compute node -> "main" queue pair to the coordinator
  mailbox,     \* compute node -> requests at the coordinator's thread
  qp_info,     \* qp_info_map_xcompute: the <<owner, target>> put so far
  answer,      \* compute -> compute: the reply to get_qp_info
  peer,        \* compute -> compute: the queue pair connected to
  up,          \* compute node -> bytes on its socket to the coordinator
  down,        \* compute node -> bytes on the way back
  syncer,      \* the sync_with_computes_Mside threads
  entered,     \* compute node -> barrier rounds entered
  left,        \* compute node -> barrier rounds left
  meta         \* compute node -> <<region, memory node>> -> fetched value

linkVars  == <<link, serv, memlock, prereg, said, tables, got, counted>>
crossVars == <<cross, sendbuf, mainqp, mailbox, qp_info, answer, peer>>
syncVars  == <<up, down, syncer, entered, left>>
bootVars  == <<site, mainpc, kv, meta, linkVars, crossVars, syncVars>>

Nil == <<>>

Cs == site.computes
Ms == site.memories
Others(c)  == Cs \ {c}
RegionPairs(groups, mems) ==
  {<<l, m>> \in (DOMAIN groups) \X mems : Hosts(groups, m, l)}

(* A deployment, its configuration lines read by both parsers.             *)
Parsed(d) ==
  LET client == ClientGroups(d.lines, d.memories)
  IN [computes |-> d.computes, memories |-> d.memories, client |-> client,
      pairs |-> RegionPairs(client, d.memories),
      keeper |-> KeeperGroups(d.lines, d.memories)]

(* What memory node m publishes for region l in this run; memcached may    *)
(* still hold what an earlier run published.                               *)
ThisRun(l, m) == [run |-> "this", base |-> BasePtr(site.keeper, m, l)]
OlderRun      == [run |-> "older", base |-> 0]

(* memcachedSet: an existing key takes the new value.                      *)
Stored(store, key, value) ==
  [k \in DOMAIN store \cup {key} |-> IF k = key THEN value ELSE store[k]]

(* A deployment is [computes, memories, lines, stale, linked, ahead].      *)
(* It starts with nothing connected, memcached empty or "stale", or, when  *)
(* "linked", with the sockets to the memory nodes served, everything       *)
(* published and the compute nodes "ahead" waiting for the replies to      *)
(* their gets: a state the steps below lead to, from which larger          *)
(* deployments are explored.                                               *)
BootInit(deployments) ==
  \E d \in deployments :
  LET Start(early, late) == IF d.linked THEN late ELSE early
      C == d.computes
      M == d.memories
      Other == [c \in C |-> C \ {c}]
  IN
  /\ site = Parsed(d)
  /\ mainpc = [c \in C |-> IF c \in d.ahead THEN "cross" ELSE "dial"]
  /\ link = [c \in C |-> [m \in M |-> Start("none", "done")]]
  /\ serv = [m \in M |-> [c \in C |-> Start("none", "serving")]]
  /\ memlock = [m \in M |-> {}]
  /\ prereg = [m \in M |-> d.linked]
  /\ said = [m \in M |-> Start({}, Hosted(site.keeper, m))]
  /\ kv = [p \in (IF d.stale \/ d.linked THEN site.pairs ELSE {}) |->
             Start(OlderRun, ThisRun(p[1], p[2]))]
  /\ tables = [m \in M |-> Start(0, 1)]
  /\ got = [c \in C |-> [m \in M |-> Start(0, 1)]]
  /\ counted = [m \in M |-> Start(0, Cardinality(C))]
  /\ cross = [c \in C |-> [o \in Other[c] |-> IF c \in d.ahead THEN "reply" ELSE "none"]]
  /\ sendbuf = [c \in C |-> [o \in Other[c] |-> IF c \in d.ahead THEN "get" ELSE ""]]
  /\ mainqp = [c \in C |-> NewQp]
  /\ mailbox = [c \in C |-> IF c \in d.ahead
                             THEN [i \in 1..Cardinality(Other[c]) |->
                                     <<"get", SetToSeq(Other[c])[i]>>] ELSE <<>>]
  /\ qp_info = {<<c, o>> \in d.ahead \X C : c # o}
  /\ answer = [c \in C |-> [o \in Other[c] |-> Nil]]
  /\ peer = [c \in C |-> [o \in Other[c] |-> Nil]]
  /\ up = [c \in C |-> 0]
  /\ down = [c \in C |-> 0]
  /\ syncer = Start(<<>>, <<[at |-> Min(C), ready |-> 0]>>)
  /\ entered = [c \in C |-> 0]
  /\ left = [c \in C |-> 0]
  /\ meta = [c \in C |-> [p \in {} |-> OlderRun]]

(***************************************************************************)
(* Client_Set_Up_Resources: the main thread of a compute node              *)
(***************************************************************************)
Main(c, from, to) == mainpc[c] = from /\ mainpc' = [mainpc EXCEPT ![c] = to]

(* client_sock_connect to the memory nodes in the order of their ids, each *)
(* accepted by a new server thread; both sides write their queue pair data *)
(* before they read.                                                       *)
Dial(c) ==
  LET rest == {m \in Ms : link[c][m] = "none"}
      m    == Min(rest)
  IN /\ mainpc[c] = "dial"
     /\ rest # {}
     /\ link' = [link EXCEPT ![c][m] = "hello"]
     /\ serv' = [serv EXCEPT ![m][c] = "hello"]
     /\ UNCHANGED <<site, mainpc, kv, meta, memlock, prereg, said, tables, got, counted,
                    crossVars, syncVars>>

(* while (memory_connection_counter != memory_nodes.size()), then one      *)
(* creator thread per other compute node.                                  *)
StartCreators(c) ==
  /\ Main(c, "dial", "cross")
  /\ \A m \in Ms : link[c][m] = "done"
  /\ cross' = [cross EXCEPT ![c] = [d \in Others(c) |-> "create"]]
  /\ UNCHANGED <<site, kv, meta, linkVars, sendbuf, mainqp, mailbox, qp_info, answer, peer,
                 syncVars>>

Connected(c) == {d \in Others(c) : cross[c][d] = "linked"}

(* sync_with_computes_Cside: a byte up, then wait for one down.            *)
EnterBarrier(c) ==
  /\ up' = [up EXCEPT ![c] = @ + 1]
  /\ entered' = [entered EXCEPT ![c] = @ + 1]

LeaveBarrier(c) ==
  /\ down[c] > 0
  /\ down' = [down EXCEPT ![c] = @ - 1]
  /\ left' = [left EXCEPT ![c] = @ + 1]

SetUpSync(c) ==
  /\ Main(c, "cross", "sync")
  /\ Connected(c) = Others(c)
  /\ EnterBarrier(c)
  /\ UNCHANGED <<site, kv, meta, linkVars, crossVars, down, syncer, left>>

SetUpSynced(c) ==
  /\ Main(c, "sync", "fetch")
  /\ LeaveBarrier(c)
  /\ UNCHANGED <<site, kv, meta, linkVars, crossVars, up, syncer, entered>>

(* fetchReplicaMetadata, region by region: memcachedGet waits for the key. *)
Fetch(c) ==
  LET rest == site.pairs \ DOMAIN meta[c]
      l    == Min({p[1] : p \in rest})
      list == SelectSeq(GetReplicaSet(site.client, l), LAMBDA m : <<l, m>> \in rest)
      pair == <<l, Head(list)>>
  IN /\ mainpc[c] = "fetch"
     /\ rest # {}
     /\ pair \in DOMAIN kv
     /\ meta' = [meta EXCEPT ![c] = Stored(@, pair, kv[pair])]
     /\ UNCHANGED <<site, mainpc, kv, linkVars, crossVars, syncVars>>

(* Get_Instance returns; the benchmark's main meets the others once more.  *)
NextSync(c) ==
  /\ Main(c, "fetch", "sync again")
  /\ DOMAIN meta[c] = site.pairs
  /\ EnterBarrier(c)
  /\ UNCHANGED <<site, kv, meta, linkVars, crossVars, down, syncer, left>>

NextSynced(c) ==
  /\ Main(c, "sync again", "run")
  /\ LeaveBarrier(c)
  /\ UNCHANGED <<site, kv, meta, linkVars, crossVars, up, syncer, entered>>

(***************************************************************************)
(* Get_Remote_qp_Info_Then_Connect                                         *)
(***************************************************************************)
(* Reads the server's queue pair data, connects, writes the second message.*)
ClientQp(c, m) ==
  /\ link[c][m] = "hello"
  /\ link' = [link EXCEPT ![c][m] = "sent"]
  /\ UNCHANGED <<site, mainpc, kv, meta, serv, memlock, prereg, said, tables, got, counted,
                 crossVars, syncVars>>

(* Reads the memory tables, stores them, counts the connection.            *)
ClientTables(c, m) ==
  /\ link[c][m] = "sent"
  /\ serv[m][c] \in {"await", "counted", "serving"}
  /\ link' = [link EXCEPT ![c][m] = "done"]
  /\ got' = [got EXCEPT ![c][m] = tables[m]]
  /\ UNCHANGED <<site, mainpc, kv, meta, serv, memlock, prereg, said, tables, counted,
                 crossVars, syncVars>>

(***************************************************************************)
(* server_communication_thread                                             *)
(***************************************************************************)
Serve(m, c, from, to) == serv[m][c] = from /\ serv' = [serv EXCEPT ![m][c] = to]

(* ConnectQPThroughSocket, the socket entered in sock_map, the receives    *)
(* posted, then the unlocked test of pre_allocated_flag.                   *)
ServerQp(m, c) ==
  /\ Serve(m, c, "hello", IF prereg[m] THEN "tables" ELSE "lock")
  /\ UNCHANGED <<site, mainpc, kv, meta, link, memlock, prereg, said, tables, got, counted,
                 crossVars, syncVars>>

(* Preregister_Memory once, the flag up before the broadcasts.             *)
ServerPreregister(m, c) ==
  /\ memlock[m] = {}
  /\ Serve(m, c, "lock", IF prereg[m] THEN "tables" ELSE "broadcast")
  /\ memlock' = [memlock EXCEPT ![m] = IF prereg[m] THEN {} ELSE {c}]
  /\ prereg' = [prereg EXCEPT ![m] = TRUE]
  /\ UNCHANGED <<site, mainpc, kv, meta, link, said, tables, got, counted, crossVars, syncVars>>

(* broadcastReplicaMetadata, a memcachedSet per hosted region.             *)
ServerBroadcast(m, c) ==
  LET rest == Hosted(site.keeper, m) \ said[m]
      l    == Min(rest)
  IN /\ serv[m][c] = "broadcast"
     /\ IF rest = {}
        THEN /\ serv' = [serv EXCEPT ![m][c] = "tables"]
             /\ memlock' = [memlock EXCEPT ![m] = {}]
             /\ UNCHANGED <<kv, said>>
        ELSE /\ kv' = Stored(kv, <<l, m>>, ThisRun(l, m))
             /\ said' = [said EXCEPT ![m] = @ \cup {l}]
             /\ UNCHANGED <<serv, memlock>>
     /\ UNCHANGED <<site, mainpc, meta, link, prereg, tables, got, counted, crossVars, syncVars>>

(* create_lock_table, create_index_table, create_timestamp_oracle: made by *)
(* the first caller under global_resources_mtx.                            *)
TableMade(n) == IF n = 0 THEN 1 ELSE n

ServerTables(m, c) ==
  /\ Serve(m, c, "tables", "await")
  /\ tables' = [tables EXCEPT ![m] = TableMade(@)]
  /\ UNCHANGED <<site, mainpc, kv, meta, link, memlock, prereg, said, got, counted,
                 crossVars, syncVars>>

(* The second message has come: memory_connection_counter.fetch_add.       *)
ServerCounts(m, c) ==
  /\ Serve(m, c, "await", "counted")
  /\ link[c][m] \in {"sent", "done"}
  /\ counted' = [counted EXCEPT ![m] = @ + 1]
  /\ UNCHANGED <<site, mainpc, kv, meta, link, memlock, prereg, said, tables, got,
                 crossVars, syncVars>>

(* The counter is read again: on memory node 1 every thread that finds it  *)
(* complete starts a sync thread.                                          *)
ServerStarts(m, c) ==
  /\ Serve(m, c, "counted", "serving")
  /\ syncer' = IF m = Coordinator /\ counted[m] = Cardinality(Cs)
               THEN Append(syncer, [at |-> Min(Cs), ready |-> 0]) ELSE syncer
  /\ UNCHANGED <<site, mainpc, kv, meta, link, memlock, prereg, said, tables, got, counted,
                 crossVars, up, down, entered, left>>

(***************************************************************************)
(* sync_with_computes_Mside: blocking reads of the sockets in map order,   *)
(* and a byte to everybody when as many reads as compute nodes succeeded.  *)
(***************************************************************************)
NextSocket(c) == IF \E d \in Cs : d > c THEN Min({d \in Cs : d > c}) ELSE Min(Cs)

(* Mutant: the round ends with one compute node missing.                   *)
RoundFullEarly(ready) == ready + 1 >= Cardinality(Cs)

RoundFull(ready) == ready = Cardinality(Cs)

SyncRead(k) ==
  LET s     == syncer[k]
      ready == s.ready + 1
      full  == RoundFull(ready)
  IN /\ up[s.at] > 0
     /\ up' = [up EXCEPT ![s.at] = 0]
     /\ syncer' = [syncer EXCEPT ![k] = [at |-> NextSocket(s.at),
                                         ready |-> IF full THEN 0 ELSE ready]]
     /\ down' = IF full THEN [c \in Cs |-> down[c] + 1] ELSE down
     /\ UNCHANGED <<site, mainpc, kv, meta, linkVars, crossVars, entered, left>>

(***************************************************************************)
(* Cross_Computes_RPC_Threads_Creator: thread of c for compute node d      *)
(***************************************************************************)
(* create_qp_xcompute and Put_qp_info_into_RemoteM up to the post: the     *)
(* request stands in the thread's own send buffer.                         *)
CrossPut(c, d) ==
  /\ cross[c][d] = "create"
  /\ cross' = [cross EXCEPT ![c][d] = "put"]
  /\ sendbuf' = [sendbuf EXCEPT ![c][d] = "put"]
  /\ mainqp' = [mainqp EXCEPT ![c] = PostSend(@, d)]
  /\ UNCHANGED <<site, mainpc, kv, meta, linkVars, mailbox, qp_info, answer, peer, syncVars>>

(* The poll, then sync_invalidation_qp_info_put.fetch_add(1).              *)
CrossPutDone(c, d) ==
  /\ cross[c][d] = "put"
  /\ CanPoll(mainqp[c])
  /\ cross' = [cross EXCEPT ![c][d] = "gate"]
  /\ mainqp' = [mainqp EXCEPT ![c] = Polled(@)]
  /\ UNCHANGED <<site, mainpc, kv, meta, linkVars, sendbuf, mailbox, qp_info, answer, peer,
                 syncVars>>

(* Mutant: the gate does not wait for the node's other creators.           *)
PutsUncounted(c) == TRUE

(* All creators of the node have put: "the RPC can get blocked if there is *)
(* one thread invoke Get_qp_info_from_RemoteM".                            *)
PutsCounted(c) == \A d \in Others(c) : cross[c][d] \notin {"none", "create", "put"}

CrossGet(c, d) ==
  /\ cross[c][d] = "gate"
  /\ PutsCounted(c)
  /\ cross' = [cross EXCEPT ![c][d] = "get"]
  /\ sendbuf' = [sendbuf EXCEPT ![c][d] = "get"]
  /\ mainqp' = [mainqp EXCEPT ![c] = PostSend(@, d)]
  /\ UNCHANGED <<site, mainpc, kv, meta, linkVars, mailbox, qp_info, answer, peer, syncVars>>

CrossGetDone(c, d) ==
  /\ cross[c][d] = "get"
  /\ CanPoll(mainqp[c])
  /\ cross' = [cross EXCEPT ![c][d] = "reply"]
  /\ mainqp' = [mainqp EXCEPT ![c] = Polled(@)]
  /\ UNCHANGED <<site, mainpc, kv, meta, linkVars, sendbuf, mailbox, qp_info, answer, peer,
                 syncVars>>

(* The reply: connect_qp_xcompute, the maps filled and the receives posted *)
(* under qp_cq_map_mutex, compute_connection_counter.fetch_add(1).  The    *)
(* thread then waits for the node's other creators and turns into the      *)
(* worker that polls d's requests.                                         *)
CrossConnect(c, d) ==
  /\ cross[c][d] = "reply"
  /\ answer[c][d] # Nil
  /\ cross' = [cross EXCEPT ![c][d] = "linked"]
  /\ peer' = [peer EXCEPT ![c][d] = answer[c][d]]
  /\ UNCHANGED <<site, mainpc, kv, meta, linkVars, sendbuf, mainqp, mailbox, qp_info, answer,
                 syncVars>>

(* The adapter sends what stands in the buffer now.                        *)
BootTransmit(c) ==
  /\ CanTransmit(mainqp[c])
  /\ mailbox' = [mailbox EXCEPT ![c] = Append(@, LET d == Outgoing(mainqp[c])
                                                 IN <<sendbuf[c][d], d>>)]
  /\ mainqp' = [mainqp EXCEPT ![c] = Transmitted(@)]
  /\ UNCHANGED <<site, mainpc, kv, meta, linkVars, cross, sendbuf, qp_info, answer, peer,
                 syncVars>>

(* put_qp_info at the coordinator: the queue pairs of c for d.             *)
ServerPut(c) ==
  LET msg == Head(mailbox[c])
  IN /\ serv[Coordinator][c] = "serving"
     /\ mailbox[c] # <<>>
     /\ msg[1] = "put"
     /\ qp_info' = qp_info \cup {<<c, msg[2]>>}
     /\ mailbox' = [mailbox EXCEPT ![c] = Tail(@)]
     /\ UNCHANGED <<site, mainpc, kv, meta, linkVars, cross, sendbuf, mainqp, answer, peer,
                    syncVars>>

ReadyForGet == Cardinality(qp_info) = Cardinality(Cs) * (Cardinality(Cs) - 1)

(* Get_qp_info_handler spins until everybody has put, in the thread that   *)
(* serves c, so what c sent after this request waits behind it.            *)
AskedPair(c, d) == <<d, c>>

ServerGet(c) ==
  LET msg == Head(mailbox[c])
  IN /\ serv[Coordinator][c] = "serving"
     /\ mailbox[c] # <<>>
     /\ msg[1] = "get"
     /\ ReadyForGet
     /\ answer' = [answer EXCEPT ![c][msg[2]] = AskedPair(c, msg[2])]
     /\ mailbox' = [mailbox EXCEPT ![c] = Tail(@)]
     /\ UNCHANGED <<site, mainpc, kv, meta, linkVars, cross, sendbuf, mainqp, qp_info, peer,
                    syncVars>>

BootNext ==
  \/ \E c \in Cs : \/ Dial(c) \/ StartCreators(c) \/ SetUpSync(c) \/ SetUpSynced(c)
                   \/ Fetch(c) \/ NextSync(c) \/ NextSynced(c)
                   \/ BootTransmit(c) \/ ServerPut(c) \/ ServerGet(c)
  \/ \E c \in Cs, m \in Ms : \/ ClientQp(c, m) \/ ClientTables(c, m)
                             \/ ServerQp(m, c) \/ ServerPreregister(m, c)
                             \/ ServerBroadcast(m, c) \/ ServerTables(m, c)
                             \/ ServerCounts(m, c) \/ ServerStarts(m, c)
  \/ \E k \in DOMAIN syncer : SyncRead(k)
  \/ \E c \in Cs : \E d \in Others(c) :
       \/ CrossPut(c, d) \/ CrossPutDone(c, d) \/ CrossGet(c, d) \/ CrossGetDone(c, d)
       \/ CrossConnect(c, d)

(***************************************************************************)
(* Properties                                                              *)
(***************************************************************************)
(* No compute node leaves a round of the socket barrier before every       *)
(* compute node entered it, even when two server threads of memory node 1  *)
(* both saw the counter complete and both started                          *)
(* sync_with_computes_Mside on the same sockets.                           *)
BarrierHolds == \A c, d \in Cs : left[c] <= entered[d]

(* A compute node that leaves the first barrier finds every other compute  *)
(* node connected to it, by the queue pairs that the two made for each     *)
(* other and with the receives posted, and finds one lock table and one    *)
(* timestamp oracle shared by all: its first invalidation or timestamp     *)
(* request meets no missing receive and no second oracle.                  *)
SetUpMeetsAll ==
  \A c \in Cs : left[c] > 0 =>
    /\ \A d \in Others(c) : peer[c][d] = <<d, c>> /\ peer[d][c] = <<c, d>>
    /\ \A d \in Others(c), m \in Ms : got[d][m] = got[c][m]

(* The region metadata a compute node works with after fetchReplicaMetadata*)
(* is what the memory nodes published in this run, on every replica, even  *)
(* when memcached still holds the values of an earlier run: a memory node  *)
(* publishes before any compute node can pass the barrier.                 *)
MetadataFresh ==
  \A c \in Cs : \A p \in DOMAIN meta[c] : meta[c][p] = ThisRun(p[1], p[2])

(* The deployment comes up: until every compute node runs, some thread can *)
(* move.  The exchange of queue pairs would block for ever if a creator    *)
(* could ask before all creators of its node have put.                     *)
BootGoesOn == (\E c \in Cs : mainpc[c] # "run") => ENABLED BootNext
=============================================================================
