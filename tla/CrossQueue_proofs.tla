-------------------------- MODULE CrossQueue_proofs --------------------------
(***************************************************************************)
(* The send queue between two compute nodes, for every number of threads   *)
(* that share it and every depth: whoever posts the request that fills the *)
(* queue keeps qp_xcompute_mtx until its completion, so there is never a   *)
(* second completion to be taken for the first, and the counter of         *)
(* outstanding requests is exact whenever somebody may post.               *)
(***************************************************************************)
EXTENDS CrossQueue, TLAPS

Messages == (Senders \X Nat) \cup {<<"dropped">>} \cup ({"page"} \X Nat)
Sources  == ({"inline"} \X Messages) \cup ({"buf"} \X Nat) \cup {<<"page">>}
Requests == [kind : {"send", "write"}, to : Ends \cup Senders, from : Sources, want : Messages,
             signaled : BOOLEAN]

QueuePairs == [os : Nat, mtx : SUBSET (Senders \cup Ends), wire : Seq(Requests), unfreed : Nat,
               done : Nat]

IsSender(s) == s = [pc |-> s.pc, calls |-> s.calls, reply |-> s.reply]
IsWorker(w) == w = [pc |-> w.pc, msg |-> w.msg, op |-> w.op]

\* What the posted requests are made of.
QueueTypes ==
  /\ xqp \in [Ends -> QueuePairs]
  /\ DOMAIN sender = Senders
  /\ \A t \in Senders : IsSender(sender[t]) /\ sender[t].calls \in Nat
  /\ page \in [Ends -> Nat]
  /\ DOMAIN worker = Ends
  /\ \A n \in Ends : IsWorker(worker[n])
  /\ \A n \in Ends : worker[n].pc = "serve" => worker[n].msg[1] \in DOMAIN Callers

\* At most one signalled request is still to be sent, and it is the last.
OneSignaled(wire) == \A i \in 1 .. Len(wire) : wire[i].signaled => i = Len(wire)
NoneSignaled(wire) == \A i \in 1 .. Len(wire) : ~wire[i].signaled

(***************************************************************************)
(* The inductive invariant.  The property speaks of the counters only; why *)
(* they stay right is that at most one signalled request or completion is  *)
(* outstanding, and none while the mutex is free.                          *)
(***************************************************************************)
EndSound(q) ==
  /\ q.unfreed = q.os
  /\ q.os <= SendDepth
  /\ q.mtx = {} => q.os < SendDepth /\ q.done = 0 /\ NoneSignaled(q.wire)
  /\ q.done <= 1
  /\ q.done = 1 => NoneSignaled(q.wire)
  /\ OneSignaled(q.wire)

QueueInv == QueueTypes /\ \A n \in Ends : EndSound(xqp[n])

LEMMA NodeOfEnds == \A t \in Senders : NodeOf(t) \in Ends
BY CrossAssumption DEF NodeOf, Senders

LEMMA PeerEnds == \A n \in Ends : Peer(n) \in Ends
BY CrossAssumption DEF Peer

LEMMA QueueInitially == CrossInit => QueueInv
BY CrossAssumption
DEF CrossInit, QueueInv, QueueTypes, IsSender, IsWorker, QueuePairs, EndSound, NoneSignaled, OneSignaled

(***************************************************************************)
(* Posting, by any of the three functions, needs the mutex; the request is *)
(* signalled if it fills the queue.                                        *)
(***************************************************************************)
LEMMA PostingKeeps ==
  ASSUME NEW q \in QueuePairs, EndSound(q), q.mtx = {}, NEW wr \in Requests, NEW t,
         q.os >= SendDepth - 1 => wr.signaled
  PROVE  EndSound([os |-> q.os + 1, mtx |-> IF wr.signaled THEN {t} ELSE {},
                    wire |-> Append(q.wire, wr), unfreed |-> q.unfreed + 1, done |-> q.done])
<1> DEFINE w == Append(q.wire, wr)
<1>1. /\ q.wire \in Seq(Requests) /\ w \in Seq(Requests) /\ Len(w) = Len(q.wire) + 1
      /\ w[Len(w)] = wr /\ \A i \in 1 .. Len(q.wire) : w[i] = q.wire[i]
  BY DEF QueuePairs
<1>2. OneSignaled(w) /\ (~wr.signaled => NoneSignaled(w))
  BY <1>1 DEF EndSound, NoneSignaled, OneSignaled
<1>. QED BY <1>2, CrossAssumption DEF EndSound, QueuePairs, Requests

\* The adapter sends the oldest request.
LEMMA SendingKeeps ==
  ASSUME NEW q \in QueuePairs, EndSound(q), q.wire # <<>>
  PROVE  EndSound([os |-> q.os, mtx |-> q.mtx, wire |-> Tail(q.wire), unfreed |-> q.unfreed,
                   done |-> IF Head(q.wire).signaled THEN q.done + 1 ELSE q.done])
<1> DEFINE w == Tail(q.wire)
<1>1. /\ q.wire \in Seq(Requests) /\ w \in Seq(Requests) /\ Len(w) = Len(q.wire) - 1
      /\ Head(q.wire) = q.wire[1] /\ Len(q.wire) \in Nat \ {0}
      /\ \A i \in 1 .. Len(w) : w[i] = q.wire[i + 1]
  BY DEF QueuePairs
<1>2. OneSignaled(w) /\ (Head(q.wire).signaled => NoneSignaled(w))
  BY <1>1 DEF EndSound, NoneSignaled, OneSignaled
<1>3. NoneSignaled(q.wire) => NoneSignaled(w) /\ ~Head(q.wire).signaled
  BY <1>1 DEF NoneSignaled
<1>. QED BY <1>1, <1>2, <1>3 DEF EndSound, QueuePairs

\* Whoever polls the completion resets the counter and frees the mutex.
LEMMA DrainingKeeps ==
  ASSUME NEW q \in QueuePairs, EndSound(q), q.done > 0
  PROVE  EndSound([os |-> 0, mtx |-> {}, wire |-> q.wire, unfreed |-> 0, done |-> q.done - 1])
BY CrossAssumption DEF EndSound, QueuePairs

(***************************************************************************)
(* A posting function called by a sender or by the worker of end n.        *)
(***************************************************************************)
LEMMA PostedKeeps ==
  ASSUME QueueInv, NEW n \in Ends, xqp[n].mtx = {}, NEW wr \in Requests,
         NEW t \in Senders \cup Ends, xqp[n].os >= SendDepth - 1 => wr.signaled,
         xqp' = Posted(n, t, wr)
  PROVE  xqp' \in [Ends -> QueuePairs] /\ \A m \in Ends : EndSound(xqp'[m])
<1> DEFINE q == [os |-> xqp[n].os + 1, mtx |-> IF wr.signaled THEN {t} ELSE {},
                 wire |-> Append(xqp[n].wire, wr), unfreed |-> xqp[n].unfreed + 1,
                 done |-> xqp[n].done]
<1>1. xqp[n] \in QueuePairs /\ EndSound(xqp[n])
  BY DEF QueueInv, QueueTypes
<1>2. EndSound(q)
  BY <1>1, PostingKeeps
<1>3. q \in QueuePairs
  <2>1. Append(xqp[n].wire, wr) \in Seq(Requests)
    BY <1>1 DEF QueuePairs
  <2>. QED BY <1>1, <2>1 DEF QueuePairs
<1>4. xqp' = [xqp EXCEPT ![n] = q]
  BY DEF Posted
<1>. QED BY <1>2, <1>3, <1>4 DEF QueueInv, QueueTypes

LEMMA DrainedKeeps ==
  ASSUME QueueInv, NEW n \in Ends, xqp[n].done > 0, xqp' = Drained(n)
  PROVE  xqp' \in [Ends -> QueuePairs] /\ \A m \in Ends : EndSound(xqp'[m])
<1> DEFINE q == [os |-> 0, mtx |-> {}, wire |-> xqp[n].wire, unfreed |-> 0,
                 done |-> xqp[n].done - 1]
<1>1. xqp[n] \in QueuePairs /\ EndSound(xqp[n])
  BY DEF QueueInv, QueueTypes
<1>2. EndSound(q)
  BY <1>1, DrainingKeeps
<1>3. q \in QueuePairs
  BY <1>1 DEF QueuePairs
<1>4. xqp' = [xqp EXCEPT ![n] = q]
  BY DEF Drained
<1>. QED BY <1>2, <1>3, <1>4 DEF QueueInv, QueueTypes

LEMMA AdapterKeeps ==
  ASSUME QueueInv, NEW n \in Ends, Adapter(n)
  PROVE  xqp' \in [Ends -> QueuePairs] /\ \A m \in Ends : EndSound(xqp'[m])
<1> DEFINE q == [os |-> xqp[n].os, mtx |-> xqp[n].mtx, wire |-> Tail(xqp[n].wire),
                 unfreed |-> xqp[n].unfreed,
                 done |-> IF Head(xqp[n].wire).signaled THEN xqp[n].done + 1 ELSE xqp[n].done]
<1>1. xqp[n] \in QueuePairs /\ EndSound(xqp[n]) /\ xqp[n].wire # <<>>
  BY DEF QueueInv, QueueTypes, IsSender, Adapter
<1>2. EndSound(q)
  BY <1>1, SendingKeeps
<1>3. q \in QueuePairs
  <2>1. Tail(xqp[n].wire) \in Seq(Requests)
    BY <1>1 DEF QueuePairs
  <2>. QED BY <1>1, <2>1 DEF QueuePairs
<1>4. xqp' = [xqp EXCEPT ![n] = q]
  BY DEF Adapter, Sent
<1>. QED BY <1>2, <1>3, <1>4 DEF QueueInv, QueueTypes

LEMMA QueuePreserved == QueueInv /\ [CrossNext]_queueVars => QueueInv'
<1> SUFFICES ASSUME QueueInv, [CrossNext]_queueVars PROVE QueueInv'
  OBVIOUS
<1>1. ASSUME NEW t \in Senders, Send(t) PROVE QueueInv'
  <2> DEFINE n == NodeOf(t)
             msg == <<t, sender[t].calls>>
             wr == WR("send", Peer(n), Inline(msg), msg, NeedSignal(n, TRUE))
  <2>1. n \in Ends /\ Peer(n) \in Ends
    BY NodeOfEnds, PeerEnds
  <2>2. xqp[n].mtx = {} /\ xqp' = Posted(n, t, wr)
    BY <1>1 DEF Send, PostSendXcompute
  <2>3. msg \in Messages
    BY DEF QueueInv, QueueTypes, Messages
  <2>4. wr \in Requests
    BY <2>1, <2>3 DEF WR, Inline, Requests, Sources, NeedSignal
  <2>5. xqp[n].os >= SendDepth - 1 => wr.signaled
    BY DEF WR, NeedSignal
  <2>6. xqp' \in [Ends -> QueuePairs] /\ \A m \in Ends : EndSound(xqp'[m])
    BY <2>1, <2>2, <2>4, <2>5, PostedKeeps
  <2>7. DOMAIN sender' = Senders /\ UNCHANGED <<worker, page>>
    BY <1>1 DEF QueueInv, QueueTypes, Send
  <2>8. sender[t].calls \in Nat /\ sender[t].calls + 1 \in Nat
    BY DEF QueueInv, QueueTypes
  <2>9. /\ sender'[t].calls = sender[t].calls + 1 /\ IsSender(sender'[t])
        /\ \A u \in Senders \ {t} : sender'[u] = sender[u]
    BY <1>1 DEF QueueInv, QueueTypes, IsSender, Send
  <2>. QED BY <2>6, <2>7, <2>8, <2>9 DEF QueueInv, QueueTypes
<1>2. ASSUME NEW t \in Senders, SendPolled(t) PROVE QueueInv'
  <2>1. xqp' \in [Ends -> QueuePairs] /\ \A m \in Ends : EndSound(xqp'[m])
    BY <1>2, NodeOfEnds, DrainedKeeps DEF SendPolled
  <2>. QED BY <1>2, <2>1 DEF QueueInv, QueueTypes, IsSender, SendPolled
<1>3. ASSUME NEW t \in Senders, Replied(t) PROVE QueueInv'
  BY <1>3 DEF QueueInv, QueueTypes, IsSender, Replied
<1>4. ASSUME NEW n \in Ends, TakeMessage(n) PROVE QueueInv'
  BY <1>4 DEF QueueInv, QueueTypes, IsWorker, TakeMessage
<1>5. ASSUME NEW n \in Ends, NEW op \in {"forward", "pull", "drop"}, ServeMessage(n, op)
      PROVE  QueueInv'
  <2> DEFINE t == worker[n].msg[1]
             async == op # "drop"
             data == IF op = "drop" THEN <<"dropped">> ELSE <<"page", page[n]>>
             sig == NeedSignal(n, IF op = "pull" THEN TRUE ELSE async)
             from == IF op = "pull" THEN InBuf(xqp[n].os)
                     ELSE IF op = "drop" THEN Inline(data) ELSE ForwardSource(n, sig)
             wr == WR("write", t, from, data, sig)
  <2>1. t \in Senders
    BY <1>5 DEF ServeMessage, QueueInv, QueueTypes, Senders
  <2>2. xqp[n].mtx = {} /\ xqp' = Posted(n, n, wr)
    BY <1>5 DEF ServeMessage, WriteLocalcopy, WriteXcompute
  <2>3. data \in Messages
    BY DEF QueueInv, QueueTypes, Messages
  <2>4. from \in Sources
    BY <2>3 DEF Sources, InBuf, InPage, Inline, ForwardSource, QueueInv, QueueTypes, QueuePairs
  <2>5. wr \in Requests
    BY <2>1, <2>3, <2>4 DEF WR, Requests, NeedSignal
  <2>6. xqp[n].os >= SendDepth - 1 => wr.signaled
    BY DEF WR, NeedSignal
  <2>7. xqp' \in [Ends -> QueuePairs] /\ \A m \in Ends : EndSound(xqp'[m])
    BY <2>2, <2>5, <2>6, PostedKeeps
  <2>. QED BY <1>5, <2>7 DEF QueueInv, QueueTypes, IsWorker, ServeMessage
<1>6. ASSUME NEW n \in Ends, ServePolled(n) PROVE QueueInv'
  <2>1. xqp' \in [Ends -> QueuePairs] /\ \A m \in Ends : EndSound(xqp'[m])
    BY <1>6, DrainedKeeps DEF ServePolled
  <2>. QED BY <1>6, <2>1 DEF QueueInv, QueueTypes, IsWorker, ServePolled
<1>7. ASSUME NEW n \in Ends, Adapter(n) PROVE QueueInv'
  <2>1. xqp' \in [Ends -> QueuePairs] /\ \A m \in Ends : EndSound(xqp'[m])
    BY <1>7, AdapterKeeps
  <2>2. \A t \in Senders : sender'[t].calls = sender[t].calls /\ IsSender(sender'[t])
    BY <1>7 DEF QueueInv, QueueTypes, IsSender, Adapter
  <2>. QED BY <1>7, <2>1, <2>2 DEF QueueInv, QueueTypes, IsSender, Adapter
<1>8. ASSUME NEW n \in Ends, ChangePage(n) PROVE QueueInv'
  BY <1>8 DEF QueueInv, QueueTypes, ChangePage
<1>9. CASE UNCHANGED queueVars
  BY <1>9 DEF QueueInv, QueueTypes, queueVars
<1>. QED BY <1>1, <1>2, <1>3, <1>4, <1>5, <1>6, <1>7, <1>8, <1>9 DEF CrossNext, CrossProgress

(***************************************************************************)
(* The send queue of qp_xcompute never overflows, whatever the number of   *)
(* threads that send, push and answer over it: unsignalled requests are    *)
(* counted exactly, and only the holder of the mutex has a completion to   *)
(* poll.                                                                   *)
(***************************************************************************)
THEOREM SendQueueNeverOverflows == CrossSpec => []SendQueueFits
<1>1. QueueInv => SendQueueFits
  BY CrossAssumption DEF QueueInv, QueueTypes, QueuePairs, EndSound, SendQueueFits
<1>. QED BY <1>1, QueueInitially, QueuePreserved, PTL DEF CrossSpec

=============================================================================
