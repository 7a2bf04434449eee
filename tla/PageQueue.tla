----------------------------- MODULE PageQueue -----------------------------
(***************************************************************************)
(* What the kernel's page allocator promises, without its list: a queue of *)
(* free frames of fixed capacity.  Frames are granted from the front and   *)
(* given back at the end.  Giving back to a queue that is full, or that    *)
(* was drained to nothing, breaks the allocator.                           *)
(***************************************************************************)
EXTENDS Integers, Sequences

CONSTANT Frames       \* the physical page frames

VARIABLES queue, capacity, broken

vars == <<queue, capacity, broken>>

Init ==
  /\ queue \in Seq(Frames)
  /\ capacity = Len(queue)
  /\ broken = FALSE

(* A request for n pages is granted whole or not at all.                   *)
Take(n) ==
  /\ ~broken
  /\ n <= Len(queue)
  /\ queue' = SubSeq(queue, n + 1, Len(queue))
  /\ UNCHANGED <<capacity, broken>>

(* Before the list is switched to its final form, a granted frame takes    *)
(* its slot with it.                                                       *)
TakeSlot ==
  /\ ~broken
  /\ queue # <<>>
  /\ queue' = Tail(queue)
  /\ capacity' = capacity - 1
  /\ UNCHANGED broken

Give(f) ==
  /\ ~broken
  /\ \/ /\ Len(queue) \in 1..(capacity - 1)
        /\ queue' = Append(queue, f)
        /\ UNCHANGED <<capacity, broken>>
     \/ /\ Len(queue) \notin 1..(capacity - 1)
        /\ broken' = TRUE
        /\ UNCHANGED <<queue, capacity>>

Next ==
  \/ \E n \in 1..Len(queue) : Take(n)
  \/ TakeSlot
  \/ \E f \in Frames : Give(f)

Spec == Init /\ [][Next]_vars
=============================================================================
