---------------------------- MODULE MessageDeque ----------------------------
(***************************************************************************)
(* What a topic's queue promises to the rest of the broker, with no slots, *)
(* no indices and no goroutines: a double-ended queue of at most MaxLen    *)
(* messages.  Messages leave at the front.  A full deque makes room by     *)
(* dropping from the end opposite to the insertion.  A closed deque        *)
(* accepts nothing and can still be drained.                               *)
(*                                                                         *)
(* RingBuffer is shown to implement this specification; Topic uses         *)
(* Pushed and PushedFront for the queue it is composed with.               *)
(***************************************************************************)
EXTENDS DequeOps

CONSTANTS Messages, MaxLen

VARIABLES
  queue,      \* the messages, oldest first
  closed,     \* Close has been called
  returned    \* what the latest call that returned messages returned

dequeVars == <<queue, closed, returned>>

Init ==
  /\ queue = <<>>
  /\ closed = FALSE
  /\ returned = <<>>

Push(m) ==
  /\ ~closed
  /\ queue' = Pushed(queue, m, MaxLen)
  /\ UNCHANGED <<closed, returned>>

PushFront(m) ==
  /\ ~closed
  /\ queue' = PushedFront(queue, m, MaxLen)
  /\ UNCHANGED <<closed, returned>>

\* Take the n oldest messages, in order.
Take(n) ==
  /\ returned' = SubSeq(queue, 1, n)
  /\ queue' = SubSeq(queue, n + 1, Len(queue))
  /\ UNCHANGED closed

Close ==
  /\ closed' = TRUE
  /\ UNCHANGED <<queue, returned>>

Next ==
  \/ \E m \in Messages : Push(m) \/ PushFront(m)
  \/ \E n \in 1..Len(queue) : Take(n)
  \/ Close

Spec == Init /\ [][Next]_dequeVars
=============================================================================
