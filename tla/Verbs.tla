------------------------------- MODULE Verbs -------------------------------
(* The queue pair "main" that the threads of a compute node share toward   *)
(* one memory node: src/storage/rdma.cc, post_send and poll_completion.    *)
(* A posted send names its buffer; the adapter reads the buffer when it    *)
(* transmits, not when the send is posted.  Completions are polled by      *)
(* count, so a thread may take the completion of another thread's send.    *)
EXTENDS Naturals, Sequences

(* A queue pair: the posted and untransmitted buffers, in posting order,   *)
(* and the number of completions nobody has polled.                        *)
NewQp == [wire |-> <<>>, completed |-> 0]

(* post_send on "main": the work request names the buffer.                 *)
PostSend(q, buffer) == [q EXCEPT !.wire = Append(@, buffer)]

(* poll_completion(wc, 1, "main", true, target): whichever completion is   *)
(* next, the caller returns once it has counted one.                       *)
CanPoll(q) == q.completed > 0
Polled(q)  == [q EXCEPT !.completed = @ - 1]

(* The adapter sends the oldest posted buffer and completes it.            *)
CanTransmit(q)  == q.wire # <<>>
Outgoing(q)     == Head(q.wire)
Transmitted(q)  == [wire |-> Tail(q.wire), completed |-> q.completed + 1]
=============================================================================
