------------------------------ MODULE DequeOps ------------------------------
(***************************************************************************)
(* The value of a bounded deque after an insertion at either end           *)
(* (RingBuffer.Push and RingBuffer.PushFront, ring.go).                    *)
(***************************************************************************)
EXTENDS Naturals, Sequences

\* Push on a full ring of maximal capacity drops the oldest message.
Pushed(q, m, max) ==
  Append(IF Len(q) >= max THEN Tail(q) ELSE q, m)

\* PushFront on a full ring of maximal capacity drops the newest message.
PushedFront(q, m, max) ==
  <<m>> \o (IF Len(q) >= max THEN SubSeq(q, 1, Len(q) - 1) ELSE q)
=============================================================================
