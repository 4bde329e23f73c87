----------------------------- MODULE InUseArray -----------------------------
(* class In_Use_Array of src/storage/rdma.h: the slots of one registered   *)
(* stretch of memory, handed out from the back of a free list.  Both       *)
(* operations run under the array's spin lock.                             *)
EXTENDS Integers, Sequences

NewArray(base, slots) ==
  [base |-> base, free |-> [i \in 1..slots |-> i - 1], used_up |-> FALSE]

(* allocate_memory_slot: -1 when the shortcut flag is up or the list is    *)
(* empty; an empty list raises the flag.                                   *)
SlotOf(a) == IF a.used_up \/ a.free = <<>> THEN -1 ELSE a.free[Len(a.free)]

Allocated(a) ==
  IF a.used_up THEN a
  ELSE IF a.free = <<>> THEN [a EXCEPT !.used_up = TRUE]
  ELSE [a EXCEPT !.free = SubSeq(@, 1, Len(@) - 1)]

(* deallocate_memory_slot: the slot goes to the back, the flag comes down. *)
Deallocated(a, index) ==
  [a EXCEPT !.free = Append(@, index), !.used_up = FALSE]
=============================================================================
