--------------------------- MODULE ThreadSafeQueue ---------------------------
(***************************************************************************)
(* easysa::ThreadSafeQueue, the queue of the event bus and of the message  *)
(* thread.  The predicate of WaitAndTryPop is true of an empty queue: it   *)
(* pops what is not there, and std::queue counts down from zero.  A queue  *)
(* in that state holds no element and owes one; the next push only pays    *)
(* the debt, since its element is stored in front of the read position.    *)
(***************************************************************************)
EXTENDS Naturals, Sequences

EmptyQueue == [items |-> <<>>, debt |-> 0]

(* std::queue::empty(): the counted size is zero. *)
IsEmpty(q) == q.items = <<>> /\ q.debt = 0

(* Variant: the debt is forgotten. *)
PushedBehind(q, e) == [q EXCEPT !.items = Append(@, e)]

(* ThreadSafeQueue::Push *)
Pushed(q, e) ==
  IF q.debt > 0 THEN [q EXCEPT !.debt = @ - 1]
                ELSE [q EXCEPT !.items = Append(@, e)]

(* front() and pop(). *)
Popped(q) ==
  IF q.items = <<>> THEN [q EXCEPT !.debt = @ + 1]
                    ELSE [q EXCEPT !.items = Tail(@)]

(* What front() yields: with no element to read, anything that the storage *)
(* may hold.                                                               *)
FrontOf(q, garbage) == IF q.items = <<>> THEN garbage ELSE {Head(q.items)}

(* The predicate of WaitAndTryPop. *)
WaitAndTryPop(q) == IsEmpty(q)
=============================================================================
