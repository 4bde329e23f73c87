----------------------------- MODULE CrossQueue -----------------------------
(* A queue pair between two compute nodes, shared by all their threads:    *)
(* src/storage/rdma.cc, post_send_xcompute, RDMA_Write_xcompute,           *)
(* RDMA_Write_xcompute_localcopy, poll_completion_xcompute, and the        *)
(* receive ring of cross_compute_message_handling_worker_consolidated.     *)
(* A caller sends a request and spins on its reply buffer, which the       *)
(* worker of the other node writes; a pusher sends and goes on.            *)
(* The adapter reads a buffer when it transmits, except for inline sends;  *)
(* the places of unsignalled requests in the send queue come back when the *)
(* completion of a later signalled one is polled.                          *)
EXTENDS Naturals, Sequences, FiniteSets

CONSTANTS Callers,    \* thread -> its compute node: sends and awaits a reply
          Pushers,    \* thread -> its compute node: sends and goes on
          Ends,       \* the two compute nodes
          SendDepth,  \* SEND_OUTSTANDING_SIZE_XCOMPUTE
          RingSize,   \* RECEIVE_OUTSTANDING_SIZE
          MaxCalls,   \* thread -> bound on its requests
          MaxChanges  \* bound: changes of a node's page

ASSUME CrossAssumption ==
  /\ SendDepth \in Nat \ {0} /\ RingSize \in Nat \ {0}
  /\ \E m, n \in Ends : m # n /\ Ends = {m, n}
  /\ \A t \in DOMAIN Callers : Callers[t] \in Ends
  /\ \A t \in DOMAIN Pushers : Pushers[t] \in Ends

VARIABLES xqp,     \* node -> its end of the queue pair
          abuf,    \* node -> async buffers, qp_xcompute_asyncT
          ring,    \* node -> the receive buffers and the worker's position
          sender,  \* thread -> its program counter, requests made, reply buffer
          worker,  \* node -> the message handling worker
          page,    \* node -> the content of the page or section it serves
          owed,    \* node -> requests sent to it and not yet taken, in order
          due      \* thread -> what its reply buffer must receive

queueVars == <<xqp, abuf, ring, sender, worker, page, owed, due>>

Senders == DOMAIN Callers \cup DOMAIN Pushers
NodeOf(t) == IF t \in DOMAIN Callers THEN Callers[t] ELSE Pushers[t]
Peer(n) == CHOOSE p \in Ends : p # n

NoMsg == <<>>

(* create_qp_xcompute, and the receives the worker's creator posts.        *)
CrossInit ==
  /\ xqp = [n \in Ends |-> [os |-> 0, mtx |-> {}, wire |-> <<>>, unfreed |-> 0, done |-> 0]]
  /\ abuf = [n \in Ends |-> [i \in 0 .. SendDepth - 1 |-> NoMsg]]
  /\ ring = [n \in Ends |-> [slots |-> [i \in 0 .. RingSize - 1 |-> NoMsg], nic |-> 0,
                             next |-> 0, posted |-> RingSize, arrived |-> 0]]
  /\ sender = [t \in Senders |-> [pc |-> "idle", calls |-> 0, reply |-> NoMsg]]
  /\ worker = [n \in Ends |-> [pc |-> "idle", msg |-> NoMsg, op |-> "none"]]
  /\ page = [n \in Ends |-> 0]
  /\ owed = [n \in Ends |-> <<>>]
  /\ due = [t \in DOMAIN Callers |-> NoMsg]

-----------------------------------------------------------------------------
(* The three ways to post; each takes qp_xcompute_mtx and counts itself in *)
(* qp_xcompute_os_c.  A signalled request keeps the mutex until its        *)
(* completion is polled.                                                   *)

(* need_signal: the request that would fill the queue, and every request   *)
(* that must not be asynchronous.                                          *)
NeedSignal(n, async) == xqp[n].os >= SendDepth - 1 \/ ~async

Posted(n, t, wr) ==
  [xqp EXCEPT ![n] = [os |-> @.os + 1, mtx |-> IF wr.signaled THEN {t} ELSE {},
                      wire |-> Append(@.wire, wr), unfreed |-> @.unfreed + 1, done |-> @.done]]

Copied(n, data) == [abuf EXCEPT ![n][xqp[n].os] = data]

(* A work request: what it carries, where the adapter finds it, where it   *)
(* goes; `want' is what the poster means to send.                          *)
WR(kind, to, from, want, signaled) ==
  [kind |-> kind, to |-> to, from |-> from, want |-> want, signaled |-> signaled]
Inline(data) == <<"inline", data>>
InBuf(i)     == <<"buf", i>>
InPage       == <<"page">>

(* post_send_xcompute: inline in either branch.                            *)
PostSendXcompute(n, t, msg) ==
  LET sig == NeedSignal(n, TRUE) IN
  /\ xqp[n].mtx = {}
  /\ xqp' = Posted(n, t, WR("send", Peer(n), Inline(msg), msg, sig))
  /\ abuf' = IF sig THEN abuf ELSE Copied(n, msg)

(* Mutant: an unsignalled page is not copied to the async buffer.          *)
ForwardSourceShared(n, sig) == InPage

(* RDMA_Write_xcompute of a page: copied to the async buffer unless        *)
(* signalled, in which case the adapter reads the caller's page.           *)
ForwardSource(n, sig) == IF sig THEN InPage ELSE InBuf(xqp[n].os)

(* RDMA_Write_xcompute: a page, or a short reply, which goes inline.       *)
WriteXcompute(n, to, data, short, async) ==
  LET sig == NeedSignal(n, async) IN
  /\ xqp[n].mtx = {}
  /\ xqp' = Posted(n, n, WR("write", to, IF short THEN Inline(data) ELSE ForwardSource(n, sig),
                           data, sig))
  /\ abuf' = IF sig THEN abuf ELSE Copied(n, data)

(* RDMA_Write_xcompute_localcopy: always copied, so that the caller's lock *)
(* is released before the request is posted.                               *)
WriteLocalcopy(n, to, data) ==
  LET sig == NeedSignal(n, TRUE) IN
  /\ xqp[n].mtx = {}
  /\ xqp' = Posted(n, n, WR("write", to, InBuf(xqp[n].os), data, sig))
  /\ abuf' = Copied(n, data)

(* poll_completion_xcompute for one entry, os_start->store(0), unlock.     *)
Drained(n) ==
  [xqp EXCEPT ![n] = [os |-> 0, mtx |-> {}, wire |-> @.wire, unfreed |-> 0, done |-> @.done - 1]]

-----------------------------------------------------------------------------
(* Pull of a delta section, or an invalidation: clear the reply buffer,    *)
(* send, spin on the reply; BroadCastLeastSP: send.                        *)
After(t) == IF t \in DOMAIN Callers THEN "wait" ELSE "idle"

Send(t) ==
  LET n == NodeOf(t)
      msg == <<t, sender[t].calls>> IN
  /\ sender[t].pc = "idle" /\ sender[t].calls < MaxCalls[t]
  /\ PostSendXcompute(n, t, msg)
  /\ sender' = [sender EXCEPT ![t] = [pc |-> IF NeedSignal(n, TRUE) THEN "poll" ELSE After(t),
                                      calls |-> @.calls + 1, reply |-> NoMsg]]
  /\ owed' = [owed EXCEPT ![Peer(n)] = Append(@, msg)]
  /\ UNCHANGED <<ring, worker, page, due>>

SendPolled(t) ==
  LET n == NodeOf(t) IN
  /\ sender[t].pc = "poll" /\ xqp[n].done > 0
  /\ xqp' = Drained(n)
  /\ sender' = [sender EXCEPT ![t].pc = After(t)]
  /\ UNCHANGED <<abuf, ring, worker, page, owed, due>>

Replied(t) ==
  /\ sender[t].pc = "wait" /\ sender[t].reply # NoMsg
  /\ sender' = [sender EXCEPT ![t].pc = "idle"]
  /\ due' = [due EXCEPT ![t] = NoMsg]
  /\ UNCHANGED <<xqp, abuf, ring, worker, page, owed>>

(* The worker: poll the receive queue, copy the message out of the buffer  *)
(* at its position, post that buffer again, advance.                       *)
Reposted(r) == [r EXCEPT !.arrived = @ - 1, !.posted = @ + 1, !.next = (@ + 1) % RingSize]

TakeMessage(n) ==
  /\ worker[n].pc = "idle" /\ ring[n].arrived > 0
  /\ LET msg == ring[n].slots[ring[n].next] IN
       worker' = [worker EXCEPT ![n] = [pc |-> IF msg[1] \in DOMAIN Callers THEN "serve" ELSE "idle",
                                        msg |-> msg, op |-> "none"]]
  /\ ring' = [ring EXCEPT ![n] = Reposted(@)]
  /\ owed' = [owed EXCEPT ![n] = Tail(@)]
  /\ UNCHANGED <<xqp, abuf, sender, page, due>>

(* The handler replies with the page, with a part of the delta section, or *)
(* with `dropped', which it sends synchronously.                           *)
ServeMessage(n, op) ==
  LET t == worker[n].msg[1]
      async == op # "drop"
      data == IF op = "drop" THEN <<"dropped">> ELSE <<"page", page[n]>> IN
  /\ worker[n].pc = "serve"
  /\ IF op = "pull" THEN WriteLocalcopy(n, t, data)
                    ELSE WriteXcompute(n, t, data, op = "drop", async)
  /\ worker' = [worker EXCEPT ![n] = [pc |-> IF NeedSignal(n, async) THEN "poll" ELSE "idle",
                                      msg |-> @.msg, op |-> op]]
  /\ due' = [due EXCEPT ![t] = data]
  /\ UNCHANGED <<ring, sender, page, owed>>

ServePolled(n) ==
  /\ worker[n].pc = "poll" /\ xqp[n].done > 0
  /\ xqp' = Drained(n)
  /\ worker' = [worker EXCEPT ![n].pc = "idle"]
  /\ UNCHANGED <<abuf, ring, sender, page, owed, due>>

(* The page changes whenever its latch is free: the handler holds it while *)
(* it forwards the page, localcopy's caller only until the copy is made.   *)
ChangePage(n) ==
  /\ ~(worker[n].pc = "poll" /\ worker[n].op = "forward")
  /\ page[n] < MaxChanges
  /\ page' = [page EXCEPT ![n] = @ + 1]
  /\ UNCHANGED <<xqp, abuf, ring, sender, worker, owed, due>>

(* The adapter of n transmits the oldest request.  A send needs a posted   *)
(* receive at the other side and waits for one (the RNR retry is endless). *)
Content(n, from) ==
  CASE from[1] = "inline" -> from[2]
    [] from[1] = "buf"    -> abuf[n][from[2]]
    [] from[1] = "page"   -> <<"page", page[n]>>

Arrive(r, data) ==
  [r EXCEPT !.slots[r.nic] = data, !.nic = (@ + 1) % RingSize, !.posted = @ - 1, !.arrived = @ + 1]

Sent(n, signaled) ==
  [xqp EXCEPT ![n] = [os |-> @.os, mtx |-> @.mtx, wire |-> Tail(@.wire), unfreed |-> @.unfreed,
                      done |-> IF signaled THEN @.done + 1 ELSE @.done]]

Adapter(n) ==
  /\ xqp[n].wire # <<>>
  /\ LET wr == Head(xqp[n].wire)
         data == Content(n, wr.from) IN
     /\ xqp' = Sent(n, wr.signaled)
     /\ \/ /\ wr.kind = "send" /\ ring[wr.to].posted > 0
           /\ ring' = [ring EXCEPT ![wr.to] = Arrive(@, data)]
           /\ UNCHANGED sender
        \/ /\ wr.kind = "write"
           /\ sender' = [sender EXCEPT ![wr.to].reply = data]
           /\ UNCHANGED ring
  /\ UNCHANGED <<abuf, worker, page, owed, due>>

CrossProgress ==
  \/ \E t \in Senders : Send(t) \/ SendPolled(t) \/ Replied(t)
  \/ \E n \in Ends : TakeMessage(n) \/ ServePolled(n) \/ Adapter(n)
  \/ \E n \in Ends, op \in {"forward", "pull", "drop"} : ServeMessage(n, op)

CrossNext == CrossProgress \/ \E n \in Ends : ChangePage(n)

CrossSpec == CrossInit /\ [][CrossNext]_queueVars

-----------------------------------------------------------------------------
(* What arrives is what was meant.  The worker copies out the requests in  *)
(* the order they were sent, none overwritten in its ring (the ring        *)
(* position of the worker follows the adapter's), and a reply buffer       *)
(* receives the page as the handler saw it, although the page may change   *)
(* and the async buffers are used again before the adapter reads them.     *)
RepliesIntact ==
  /\ \A n \in Ends : \A i \in 1 .. ring[n].arrived :
       ring[n].slots[(ring[n].next + i - 1) % RingSize] = owed[n][i]
  /\ \A t \in DOMAIN Callers : sender[t].reply # NoMsg /\ sender[t].pc # "idle"
       => sender[t].reply = due[t]

(* The send queue never overflows: create_qp_xcompute asks for             *)
(* SEND_OUTSTANDING_SIZE_XCOMPUTE + 1 places, and the counter, reset by    *)
(* whoever polls the completion, counts every place not yet returned.      *)
SendQueueFits ==
  \A n \in Ends : /\ xqp[n].unfreed <= SendDepth + 1
                  /\ xqp[n].unfreed = xqp[n].os
                  /\ xqp[n].done > 0 => xqp[n].mtx # {}

(* Nobody waits forever: while a thread awaits a completion or a reply, or *)
(* a message is under way, some thread or adapter can move, though the     *)
(* poller keeps the mutex the worker needs and the ring may be full.       *)
CrossGoesOn ==
  (\/ \E t \in Senders : sender[t].pc # "idle"
   \/ \E n \in Ends : worker[n].pc # "idle" \/ xqp[n].wire # <<>> \/ ring[n].arrived > 0)
  => ENABLED CrossProgress
=============================================================================
