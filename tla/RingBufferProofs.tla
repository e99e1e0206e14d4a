-------------------------- MODULE RingBufferProofs --------------------------
(***************************************************************************)
(* RingBuffer keeps its types, loses no wake-up, holds messages in exactly *)
(* the slots from head to tail and implements MessageDeque, for every set  *)
(* of messages, every finite set of consumers and all capacities.          *)
(***************************************************************************)
EXTENDS RingBuffer, FiniteSetTheorems, TLAPS

\* The time of a leaf that names no prover.
USE SMTT(30)

Indices == 0..(Modulus - 1)

\* The uint64 indices have a non-empty range.
LEMMA ModulusPositive == Modulus \in Nat \ {0}
  BY CapacityAssumption

-----------------------------------------------------------------------------
(* uint64 arithmetic.                                                      *)

\* Every index operation stays in range.
LEMMA IndexTypes ==
  ASSUME NEW x \in Indices, NEW y \in Indices, NEW k \in Indices
  PROVE  /\ Inc(x) \in Indices
         /\ Dec(x) \in Indices
         /\ Plus(x, k) \in Indices
         /\ Minus(x, y) \in Indices
  BY ModulusPositive DEF Indices, Inc, Dec, Plus, Minus

\* The distance from y to x follows the increments of either, wrapped or not.
LEMMA Distance ==
  ASSUME NEW x \in Indices, NEW y \in Indices
  PROVE  /\ (Minus(x, y) = 0) <=> (x = y)
         /\ Minus(x, y) < Modulus - 1 => Minus(Inc(x), y) = Minus(x, y) + 1
         /\ Minus(x, y) < Modulus - 1 => Minus(x, Dec(y)) = Minus(x, y) + 1
         /\ x # y => Minus(x, Inc(y)) = Minus(x, y) - 1
         /\ x # y => Minus(Dec(x), y) = Minus(x, y) - 1
         /\ \A n \in 0..Minus(x, y) : Minus(x, Plus(y, n)) = Minus(x, y) - n
  BY ModulusPositive DEF Indices, Inc, Dec, Plus, Minus

\* x & mask is a slot of the array.
LEMMA SlotInRange ==
  ASSUME NEW x \in Nat, NEW cap \in Nat \ {0}
  PROVE  Slot(x, cap) \in 0..(cap - 1)
  BY DEF Slot

-----------------------------------------------------------------------------
(* What the operations on the ring do to its types and to Count.           *)

RingType ==
  /\ capacity \in 1..(Modulus - 1)
  /\ nodes \in [0..(capacity - 1) -> Messages \cup {Nil}]
  /\ head \in Indices
  /\ tail \in Indices
  /\ Count <= capacity

WaitType ==
  /\ waiting \in [Consumers -> {"no", "asleep", "notified"}]
  /\ timed \in [Consumers -> BOOLEAN]
  /\ expired \in [Consumers -> BOOLEAN]
  /\ armed \subseteq Consumers
  /\ fired \subseteq Consumers

\* The type invariant is that of the ring, that of the waiters and that of closed.
LEMMA TypeOKParts == TypeOK <=> RingType /\ WaitType /\ closed \in BOOLEAN
  BY DEF TypeOK, RingType, WaitType, Indices

\* tail - head is the number of messages, and it is 0 exactly when Pop finds none.
LEMMA CountType ==
  ASSUME RingType
  PROVE  /\ Count \in 0..capacity
         /\ (Count = 0) <=> Empty
<1>1. Count \in Indices /\ ((Count = 0) <=> Empty)
  BY IndexTypes, Distance, Zenon DEF RingType, Count, Empty
<1> QED
  BY <1>1, CapacityAssumption DEF RingType, Indices

\* Making room for a message leaves a well-typed ring with a free slot, and
\* no more messages than before.
LEMMA RoomTypes ==
  ASSUME RingType, NEW r \in {RoomAtTail, RoomAtHead}
  PROVE  /\ r.capacity \in 1..(Modulus - 1)
         /\ r.nodes \in [0..(r.capacity - 1) -> Messages \cup {Nil}]
         /\ r.head \in Indices
         /\ r.tail \in Indices
         /\ Minus(r.tail, r.head) < r.capacity
         /\ Minus(r.tail, r.head) <= Count
<1> USE CapacityAssumption, CountType
<1>1. CASE Count < capacity
  BY <1>1 DEF RoomAtTail, RoomAtHead, Current, RingType, Count
<1>2. CASE ~(Count < capacity) /\ capacity >= MaxCapacity
  <2>1. Count = capacity /\ head # tail
    BY <1>2 DEF RingType, Empty
  <2>2. /\ Inc(head) \in Indices /\ Minus(tail, Inc(head)) = Count - 1
        /\ Dec(tail) \in Indices /\ Minus(Dec(tail), head) = Count - 1
    BY <2>1, IndexTypes, Distance, ZenonT(30) DEF RingType, Count
  <2> QED
    BY <1>2, <2>1, <2>2 DEF RoomAtTail, RoomAtHead, Current, RingType
<1>3. CASE ~(Count < capacity) /\ ~(capacity >= MaxCapacity)
  <2>1. r = Grown
    BY <1>3 DEF RoomAtTail, RoomAtHead
  <2>2. Count = capacity /\ 2 * capacity \in 1..(Modulus - 1)
    BY <1>3 DEF RingType
  <2>3. \A s \in Nat : s < Count => nodes[Slot(Plus(head, s), capacity)] \in Messages \cup {Nil}
    <3> SUFFICES ASSUME NEW s \in Nat, s < Count
                 PROVE  nodes[Slot(Plus(head, s), capacity)] \in Messages \cup {Nil}
      OBVIOUS
    <3>1. s \in Indices
      BY <2>2 DEF RingType, Indices
    <3>2. Plus(head, s) \in Indices
      BY <3>1, IndexTypes DEF RingType
    <3>3. Plus(head, s) \in Nat
      BY <3>2 DEF Indices
    <3> QED
      BY <3>3, SlotInRange DEF RingType
  <2>4. Grown.nodes \in [0..(2 * capacity - 1) -> Messages \cup {Nil}]
    BY <2>2, <2>3 DEF Grown
  <2>5. Count \in Indices /\ 0 \in Indices /\ Minus(Count, 0) = Count
    BY <2>2 DEF Indices, Minus, RingType
  <2> QED
    BY <2>1, <2>2, <2>4, <2>5 DEF Grown, RingType
<1> QED
  BY <1>1, <1>2, <1>3
\* Storing a message in a ring with room adds exactly one to its length.
LEMMA PushTypes ==
  ASSUME RingType, NEW m \in Messages, Push(m) \/ PushFront(m)
  PROVE  RingType' /\ Count' <= Count + 1
<1>1. CASE Push(m)
  <2> DEFINE r == RoomAtTail
  <2> HIDE DEF r
  <2>1. /\ r.capacity \in 1..(Modulus - 1)
        /\ r.nodes \in [0..(r.capacity - 1) -> Messages \cup {Nil}]
        /\ r.head \in Indices
        /\ r.tail \in Indices
        /\ Minus(r.tail, r.head) < r.capacity
        /\ Minus(r.tail, r.head) <= Count
    BY RoomTypes DEF r
  <2>2. /\ nodes' = [r.nodes EXCEPT ![Slot(r.tail, r.capacity)] = m]
        /\ head' = r.head
        /\ tail' = Inc(r.tail)
        /\ capacity' = r.capacity
    BY <1>1 DEF Push, r
  <2>a. Minus(r.tail, r.head) \in Indices
    BY <2>1, IndexTypes, Zenon
  <2>3. Minus(r.tail, r.head) \in Nat /\ Minus(r.tail, r.head) < Modulus - 1
    BY <2>1, <2>a, ModulusPositive DEF Indices
  <2>4. Count' = Minus(r.tail, r.head) + 1
    BY <2>1, <2>2, <2>3, Distance DEF Count
  <2>5. Inc(r.tail) \in Indices
    BY <2>1, IndexTypes, Zenon
  <2>6. nodes' \in [0..(capacity' - 1) -> Messages \cup {Nil}]
    BY <2>1, <2>2, Zenon
  <2>7. Count' <= capacity' /\ Count' <= Count + 1
    BY <2>1, <2>2, <2>3, <2>4, CountType, ModulusPositive
  <2> QED
    BY <2>1, <2>2, <2>5, <2>6, <2>7 DEF RingType
<1>2. CASE PushFront(m)
  <2> DEFINE r == RoomAtHead
  <2> HIDE DEF r
  <2>1. /\ r.capacity \in 1..(Modulus - 1)
        /\ r.nodes \in [0..(r.capacity - 1) -> Messages \cup {Nil}]
        /\ r.head \in Indices
        /\ r.tail \in Indices
        /\ Minus(r.tail, r.head) < r.capacity
        /\ Minus(r.tail, r.head) <= Count
    BY RoomTypes DEF r
  <2>2. /\ nodes' = [r.nodes EXCEPT ![Slot(Dec(r.head), r.capacity)] = m]
        /\ head' = Dec(r.head)
        /\ tail' = r.tail
        /\ capacity' = r.capacity
    BY <1>2 DEF PushFront, r
  <2>a. Minus(r.tail, r.head) \in Indices
    BY <2>1, IndexTypes, Zenon
  <2>3. Minus(r.tail, r.head) \in Nat /\ Minus(r.tail, r.head) < Modulus - 1
    BY <2>1, <2>a, ModulusPositive DEF Indices
  <2>4. Count' = Minus(r.tail, r.head) + 1
    BY <2>1, <2>2, <2>3, Distance, Zenon DEF Count
  <2>5. Dec(r.head) \in Indices
    BY <2>1, IndexTypes, Zenon
  <2>6. nodes' \in [0..(capacity' - 1) -> Messages \cup {Nil}]
    BY <2>1, <2>2, Zenon
  <2>7. Count' <= capacity' /\ Count' <= Count + 1
    BY <2>1, <2>2, <2>3, <2>4, CountType, ModulusPositive
  <2> QED
    BY <2>1, <2>2, <2>5, <2>6, <2>7 DEF RingType
<1> QED
  BY <1>1, <1>2

\* Taking n messages removes n.
LEMMA TakeTypes ==
  ASSUME RingType, NEW n \in 1..Count, Take(n)
  PROVE  RingType' /\ Count' = Count - n
<1>1. n \in Indices /\ n \in 0..Count
  BY CountType, ModulusPositive DEF RingType, Indices
<1>2. head' \in Indices
  BY <1>1, IndexTypes, Zenon DEF RingType, Take
<1>3. Count' = Count - n
  BY <1>1, Distance, Zenon DEF RingType, Take, Count
<1>4. nodes' \in [0..(capacity - 1) -> Messages \cup {Nil}]
  BY Zenon DEF RingType, Take
<1> QED
  BY <1>1, <1>2, <1>3, <1>4, CountType DEF RingType, Take

-----------------------------------------------------------------------------
(* What the condition variable does to sleepers and notified consumers.    *)

\* The consumers woken and not yet running can be counted.
LEMMA NotifiedFinite ==
  IsFiniteSet(Notified) /\ Cardinality(Notified) \in Nat
  BY ConsumersAssumption, FS_Subset, FS_CardinalityType, Zenon DEF Notified

\* While somebody is left asleep, Signal has woken somebody.
LEMMA SignalWakesOne ==
  ASSUME WaitType, Signal
  PROVE  /\ waiting' \in [Consumers -> {"no", "asleep", "notified"}]
         /\ Asleep' # {} => /\ Asleep # {}
                            /\ Cardinality(Notified') = Cardinality(Notified) + 1
<1>1. CASE Asleep = {} /\ UNCHANGED waiting
  BY <1>1, Zenon DEF WaitType, Asleep
<1>2. ASSUME NEW c \in Asleep, waiting' = [waiting EXCEPT ![c] = "notified"]
      PROVE  /\ waiting' \in [Consumers -> {"no", "asleep", "notified"}]
             /\ Asleep' # {} => /\ Asleep # {}
                                /\ Cardinality(Notified') = Cardinality(Notified) + 1
  <2>1. Notified' = Notified \cup {c} /\ c \notin Notified
    BY <1>2, Zenon DEF WaitType, Asleep, Notified
  <2>2. Cardinality(Notified') = Cardinality(Notified) + 1
    BY <2>1, NotifiedFinite, FS_AddElement, Zenon
  <2> QED
    BY <1>2, <2>2, Zenon DEF WaitType, Asleep
<1> QED
  BY <1>1, <1>2, Zenon DEF Signal

\* Broadcast, which Close calls, leaves nobody asleep.
LEMMA BroadcastWakesAll ==
  ASSUME WaitType, Broadcast
  PROVE  /\ waiting' \in [Consumers -> {"no", "asleep", "notified"}]
         /\ Asleep' = {}
  BY Zenon DEF WaitType, Broadcast, Asleep

\* A consumer that leaves the loop takes at most itself off the notified ones.
LEMMA LeaveKeeps ==
  ASSUME RingType, WaitType, NEW c \in Consumers, NEW late, Leave(c, late),
         waiting[c] # "asleep"
  PROVE  /\ RingType' /\ closed' = closed
         /\ Asleep' = Asleep
         /\ Empty => Count' = 0
         /\ ~Empty => Count' = Count - 1
         /\ Notified' = Notified \ {c}
         /\ waiting' \in [Consumers -> {"no", "asleep", "notified"}]
<1>1. /\ RingType' /\ closed' = closed
      /\ Empty => Count' = 0
      /\ ~Empty => Count' = Count - 1
  <2>1. CASE ~Empty /\ Take(1)
    <3>1. 1 \in 1..Count
      BY <2>1, CountType DEF RingType
    <3> QED
      BY <2>1, <3>1, TakeTypes, Zenon DEF Take
  <2>2. CASE Empty /\ UNCHANGED <<ringVars, returned>>
    BY <2>2, CountType, Zenon DEF ringVars, RingType, Count, Empty
  <2> QED
    BY <2>1, <2>2, Zenon DEF Leave
<1>2. waiting' = [waiting EXCEPT ![c] = "no"]
  BY Zenon DEF Leave
<1> QED
  BY <1>1, <1>2, Zenon DEF WaitType, Asleep, Notified
-----------------------------------------------------------------------------
(* Both properties are inductive together.                                 *)

Inv == TypeOK /\ NoLostWakeup

\* A new buffer satisfies the inductive invariant.
LEMMA InitInv == Init => Inv
<1> SUFFICES ASSUME Init PROVE Inv
  OBVIOUS
<1>1. RingType
  <2>1. 0 \in Indices /\ Minus(0, 0) = 0
    BY CapacityAssumption DEF Indices, Minus
  <2> QED
    BY <2>1, CapacityAssumption DEF Init, RingType, Count
<1>2. WaitType /\ Asleep = {}
  BY DEF Init, WaitType, Asleep
<1> QED
  BY <1>1, <1>2, TypeOKParts, Zenon DEF Init, Inv, NoLostWakeup

\* Every step of a buffer operation, a waiter or a timer keeps the inductive invariant.
LEMMA StepInv == Inv /\ [Next]_vars => Inv'
<1> SUFFICES ASSUME Inv, [Next]_vars PROVE Inv'
  OBVIOUS
<1>1. RingType /\ WaitType /\ closed \in BOOLEAN /\ NoLostWakeup
  BY TypeOKParts DEF Inv
<1>2. SUFFICES RingType' /\ WaitType' /\ closed' \in BOOLEAN /\ NoLostWakeup'
  <2>1. TypeOK' <=> (RingType' /\ WaitType' /\ closed' \in BOOLEAN)
    BY Zenon DEF TypeOK, RingType, WaitType, Indices
  <2> QED
    BY <2>1 DEF Inv
<1>3. Count \in Nat /\ (Count = 0 <=> Empty)
  BY <1>1, CountType, ModulusPositive DEF RingType
<1>4. Cardinality(Notified) \in Nat /\ Cardinality(Notified') \in Nat
  <2>1. Notified' \in SUBSET Consumers
    BY DEF Notified
  <2> QED
    BY <2>1, NotifiedFinite, ConsumersAssumption, FS_Subset, FS_CardinalityType
<1>5. ASSUME NEW m \in Messages, Push(m) \/ PushFront(m)
      PROVE  RingType' /\ WaitType' /\ closed' \in BOOLEAN /\ NoLostWakeup'
  <2>1. RingType' /\ Count' <= Count + 1
    BY <1>1, <1>5, PushTypes
  <2>2. Count' \in Nat
    BY <2>1, IndexTypes, ModulusPositive DEF RingType, Count, Indices
  <2>3. Signal /\ UNCHANGED <<closed, timed, expired, armed, fired>>
    BY <1>5 DEF Push, PushFront
  <2>4. WaitType'
    BY <1>1, <2>3, SignalWakesOne DEF WaitType
  <2>5. NoLostWakeup'
    BY <1>1, <1>3, <1>4, <2>1, <2>2, <2>3, SignalWakesOne DEF NoLostWakeup
  <2> QED
    BY <1>1, <2>1, <2>3, <2>4, <2>5
<1>6. ASSUME NEW n \in 1..Count, Take(n), UNCHANGED waitVars
      PROVE  RingType' /\ WaitType' /\ closed' \in BOOLEAN /\ NoLostWakeup'
  <2>1. RingType' /\ Count' = Count - n /\ closed' = closed
    BY <1>1, <1>6, TakeTypes, Zenon DEF Take
  <2>2. WaitType' /\ Asleep' = Asleep /\ Notified' = Notified
    BY <1>1, <1>6, Zenon DEF waitVars, WaitType, Asleep, Notified
  <2> QED
    BY <1>1, <1>3, <1>4, <1>6, <2>1, <2>2 DEF NoLostWakeup
<1>7. CASE Pop
  <2>1. 1 \in 1..Count
    BY <1>3, <1>7 DEF Pop
  <2> QED
    BY <1>6, <1>7, <2>1, Zenon DEF Pop
<1>8. ASSUME NEW max \in 1..MaxCapacity, PopBatch(max)
      PROVE  RingType' /\ WaitType' /\ closed' \in BOOLEAN /\ NoLostWakeup'
  <2> DEFINE n == IF max > Count THEN Count ELSE max
  <2>1. n \in 1..Count
    BY <1>3, <1>8, CapacityAssumption DEF PopBatch
  <2> QED
    BY <1>6, <1>8, <2>1, Zenon DEF PopBatch
<1>9. ASSUME NEW c \in Consumers, NEW late, Leave(c, late), waiting[c] # "asleep",
             UNCHANGED fired
      PROVE  RingType' /\ WaitType' /\ closed' \in BOOLEAN /\ NoLostWakeup'
  <2>1. /\ RingType' /\ closed' = closed
        /\ Asleep' = Asleep
        /\ Empty => Count' = 0
        /\ ~Empty => Count' = Count - 1
        /\ Notified' = Notified \ {c}
        /\ waiting' \in [Consumers -> {"no", "asleep", "notified"}]
    BY <1>1, <1>9, LeaveKeeps, Zenon
  <2>2. WaitType'
    BY <1>1, <1>9, <2>1, Zenon DEF WaitType, Leave
  <2>3. Cardinality(Notified') >= Cardinality(Notified) - 1
    BY <1>4, <2>1, NotifiedFinite, FS_RemoveElement
  <2>4. NoLostWakeup'
    BY <1>1, <1>3, <1>4, <2>1, <2>3 DEF NoLostWakeup
  <2> QED
    BY <1>1, <2>1, <2>2, <2>4, Zenon
<1>10. ASSUME NEW c \in Consumers, NEW bounded \in BOOLEAN, NEW late,
              Sleep(c, bounded, late), UNCHANGED fired
       PROVE  RingType' /\ WaitType' /\ closed' \in BOOLEAN /\ NoLostWakeup'
  <2>1. RingType' /\ closed' = closed /\ Count' = 0
    BY <1>1, <1>3, <1>10, Zenon DEF Sleep, ringVars, RingType, Count
  <2>2. WaitType'
    BY <1>1, <1>10, Zenon DEF WaitType, Sleep
  <2> QED
    BY <1>1, <1>4, <2>1, <2>2 DEF NoLostWakeup
<1>11. ASSUME NEW c \in Consumers, NEW bounded \in BOOLEAN, PopWait(c, bounded)
       PROVE  RingType' /\ WaitType' /\ closed' \in BOOLEAN /\ NoLostWakeup'
  BY <1>9, <1>10, <1>11, Zenon DEF PopWait
<1>12. ASSUME NEW c \in Consumers, Resume(c)
       PROVE  RingType' /\ WaitType' /\ closed' \in BOOLEAN /\ NoLostWakeup'
  <2>1. timed[c] \in BOOLEAN
    BY <1>1 DEF WaitType
  <2> QED
    BY <1>9, <1>10, <1>12, <2>1 DEF Resume
<1>13. ASSUME NEW c \in Consumers, DeadlinePasses(c) \/ TimerFires(c)
       PROVE  RingType' /\ WaitType' /\ closed' \in BOOLEAN /\ NoLostWakeup'
  <2>1. UNCHANGED <<nodes, head, tail, capacity, closed, waiting>>
    BY <1>13 DEF DeadlinePasses, TimerFires, ringVars
  <2>2. WaitType'
    BY <1>1, <1>13, Zenon DEF WaitType, DeadlinePasses, TimerFires
  <2>3. RingType' /\ NoLostWakeup'
    BY <1>1, <2>1 DEF RingType, NoLostWakeup, Count, Asleep, Notified
  <2> QED
    BY <1>1, <2>1, <2>2, <2>3
<1>14. ASSUME Broadcast, UNCHANGED <<nodes, head, tail, capacity>>,
              closed' \in BOOLEAN, fired' \subseteq Consumers,
              UNCHANGED <<timed, expired, armed>>
       PROVE  RingType' /\ WaitType' /\ closed' \in BOOLEAN /\ NoLostWakeup'
  <2>1. WaitType' /\ Asleep' = {}
    BY <1>1, <1>14, BroadcastWakesAll DEF WaitType
  <2>2. RingType'
    BY <1>1, <1>14 DEF RingType, Count
  <2> QED
    BY <1>14, <2>1, <2>2 DEF NoLostWakeup
<1>15. ASSUME NEW c \in Consumers, TimerBroadcasts(c)
       PROVE  RingType' /\ WaitType' /\ closed' \in BOOLEAN /\ NoLostWakeup'
  BY <1>1, <1>14, <1>15 DEF TimerBroadcasts, ringVars, WaitType
<1>16. CASE Close
  BY <1>1, <1>14, <1>16, Zenon DEF Close, WaitType
<1>17. CASE UNCHANGED vars
  BY <1>1, <1>17, Zenon DEF vars, ringVars, waitVars, RingType, WaitType, NoLostWakeup,
                     Count, Asleep, Notified
<1> QED
  BY <1>5, <1>7, <1>8, <1>11, <1>12, <1>13, <1>15, <1>16, <1>17 DEF Next

(***************************************************************************)
(* The ring keeps its types and its length never exceeds its capacity,     *)
(* through wrap-around, growth and drops (ring.go).                        *)
(***************************************************************************)
THEOREM TypeCorrect == Spec => []TypeOK
<1>1. Inv => TypeOK
  BY Zenon DEF Inv
<1> QED
  BY <1>1, InitInv, StepInv, PTL DEF Spec

(***************************************************************************)
(* No wake-up is lost: while a consumer sleeps in PopWait, every message   *)
(* in the ring has a consumer that has already been notified (ring.go,     *)
(* Push, PushFront and PopWait).                                           *)
(***************************************************************************)
THEOREM WakeupsAreNotLost == Spec => []NoLostWakeup
<1>1. Inv => NoLostWakeup
  BY DEF Inv
<1> QED
  BY <1>1, InitInv, StepInv, PTL DEF Spec

-----------------------------------------------------------------------------
(* The slot of an index.  Modulus is a multiple of every capacity, so that *)
(* neighbouring indices denote neighbouring slots, wrapped around or not.  *)

\* A sum of two slot numbers, brought back into the array.
Wrap(a, cap) == IF a < cap THEN a ELSE a - cap

\* Division with remainder.
LEMMA Division ==
  ASSUME NEW c \in Nat \ {0}, NEW y \in Nat
  PROVE  \E q \in Nat : \E r \in 0..(c - 1) : r = y % c /\ y = q * c + r
<1>1. /\ (y % c) \in 0..(c - 1)
      /\ (y \div c) \in Nat
      /\ y = (y \div c) * c + (y % c)
  OBVIOUS
<1> QED
  BY <1>1, Zenon

\* The remainder is determined by the division.
LEMMA Remainder ==
  ASSUME NEW c \in Nat \ {0}, NEW q \in Int, NEW r \in 0..(c - 1), NEW y \in Nat, y = q * c + r
  PROVE  y % c = r
OBVIOUS

\* One multiple of c further on.
LEMMA OneMultiple ==
  ASSUME NEW c \in Nat \ {0}, NEW q \in Int
  PROVE  (q + 1) * c = q * c + c /\ q * c \in Int
OBVIOUS

\* n multiples of c back.
LEMMA MultiplesBack ==
  ASSUME NEW c \in Nat \ {0}, NEW q \in Int, NEW n \in Int
  PROVE  (q - n) * c = q * c - n * c /\ q * c \in Int /\ n * c \in Int
OBVIOUS

\* Going on by k slots.
LEMMA SlotAfter ==
  ASSUME NEW c \in Nat \ {0}, NEW y \in Nat, NEW k \in 0..c
  PROVE  (y + k) % c = Wrap((y % c) + k, c)
<1>1. PICK q \in Nat : \E r \in 0..(c - 1) : r = y % c /\ y = q * c + r
  BY Division, Zenon
<1>a. PICK r \in 0..(c - 1) : r = y % c /\ y = q * c + r
  BY <1>1, Zenon
<1>2. (q + 1) * c = q * c + c /\ q * c \in Int
  BY OneMultiple
<1>3. PICK z \in Nat : z = y + k
  OBVIOUS
<1>4. CASE r + k < c
  <2>1. PICK w \in 0..(c - 1) : w = r + k
    BY <1>4
  <2>2. z = q * c + w
    BY <1>a, <1>2, <1>3, <2>1
  <2>3. z % c = w
    BY <2>2, Remainder
  <2> QED
    BY <1>a, <1>3, <1>4, <2>1, <2>3, Zenon DEF Wrap
<1>5. CASE ~(r + k < c)
  <2>1. PICK w \in 0..(c - 1) : w = r + k - c
    BY <1>5
  <2>2. PICK p \in Int : p = q + 1
    OBVIOUS
  <2>3. z = p * c + w
    BY <1>a, <1>2, <1>3, <2>1, <2>2
  <2>4. z % c = w
    BY <2>3, Remainder
  <2> QED
    BY <1>a, <1>3, <1>5, <2>1, <2>4 DEF Wrap
<1> QED
  BY <1>4, <1>5, Zenon

\* Adding a multiple of c changes no remainder.
LEMMA SlotWraps ==
  ASSUME NEW c \in Nat \ {0}, NEW y \in Nat, NEW n \in Nat, NEW z \in Nat,
         n % c = 0, y = z + n
  PROVE  z % c = y % c
<1>1. PICK q \in Nat : \E r \in 0..(c - 1) : r = y % c /\ y = q * c + r
  BY Division, ZenonT(30)
<1>a. PICK r \in 0..(c - 1) : r = y % c /\ y = q * c + r
  BY <1>1, Zenon
<1>2. PICK p \in Nat : n = p * c
  <2>1. PICK p \in Nat : \E r1 \in 0..(c - 1) : r1 = n % c /\ n = p * c + r1
    BY Division, Zenon
  <2>2. p * c \in Int
    OBVIOUS
  <2> QED
    BY <2>1, <2>2
<1>3. PICK t \in Int : t = q - p
  OBVIOUS
<1>4. t * c = q * c - p * c /\ q * c \in Int /\ p * c \in Int
  BY <1>3, MultiplesBack
<1>5. z = t * c + r
  BY <1>a, <1>2, <1>4
<1>6. z % c = r
  BY <1>5
<1> QED
  BY <1>a, <1>6

\* The capacities for which a slot survives the wrap-around of its index.
Fits(cap) == cap \in 1..(Modulus - 1) /\ Modulus % cap = 0

\* The slot of an index k further on, whether or not the index wraps around.
LEMMA SlotOfPlus ==
  ASSUME NEW cap, Fits(cap), NEW x \in Indices, NEW k \in 0..cap
  PROVE  Slot(Plus(x, k), cap) = Wrap(Slot(x, cap) + k, cap)
<1>1. cap \in Nat \ {0} /\ x \in Nat /\ Modulus \in Nat /\ Modulus % cap = 0
  BY ModulusPositive DEF Fits, Indices
<1>2. (x + k) % cap = Wrap((x % cap) + k, cap)
  BY <1>1, SlotAfter, Zenon
<1>3. CASE x + k < Modulus
  BY <1>2, <1>3 DEF Plus, Slot
<1>4. CASE ~(x + k < Modulus)
  <2>1. PICK y \in Nat, z \in Nat : y = x + k /\ y = z + Modulus /\ z = Plus(x, k)
    <3>1. x + k \in Nat /\ x + k - Modulus \in Nat
      BY <1>1, <1>4
    <3> QED
      BY <1>1, <1>4, <3>1 DEF Plus
  <2>2. z % cap = y % cap
    BY <1>1, <2>1, SlotWraps, Zenon
  <2> QED
    BY <1>2, <2>1, <2>2 DEF Slot
<1> QED
  BY <1>3, <1>4, Zenon

\* cap consecutive indices denote different slots, all slots among them, and the
\* index cap further on denotes the same slot.
LEMMA Window ==
  ASSUME NEW cap, Fits(cap), NEW x \in Indices
  PROVE  /\ \A i \in 0..cap : Slot(Plus(x, i), cap) \in 0..(cap - 1)
         /\ \A i, j \in 0..(cap - 1) :
              Slot(Plus(x, i), cap) = Slot(Plus(x, j), cap) => i = j
         /\ Slot(Plus(x, cap), cap) = Slot(Plus(x, 0), cap)
<1>1. cap \in Nat \ {0} /\ x \in Nat
  BY ModulusPositive DEF Fits, Indices
<1>2. PICK s \in 0..(cap - 1) : s = Slot(x, cap)
  BY <1>1, SlotInRange
<1>3. \A i \in 0..cap : Slot(Plus(x, i), cap) = Wrap(s + i, cap)
  BY <1>2, SlotOfPlus
<1>4. \A i \in 0..cap : Wrap(s + i, cap) \in 0..(cap - 1)
  BY <1>1 DEF Wrap
<1>5. \A i, j \in 0..(cap - 1) : Wrap(s + i, cap) = Wrap(s + j, cap) => i = j
  BY <1>1 DEF Wrap
<1>6. Wrap(s + cap, cap) = Wrap(s + 0, cap)
  BY <1>1 DEF Wrap
<1> QED
  BY <1>1, <1>3, <1>4, <1>5, <1>6

\* Index arithmetic: steps add up, modulo the range of uint64.
LEMMA Steps ==
  ASSUME NEW x \in Indices, NEW y \in Indices
  PROVE  /\ Plus(x, 0) = x
         /\ Plus(y, Minus(x, y)) = x
         /\ \A i \in Indices : i + 1 \in Indices => Plus(Inc(x), i) = Plus(x, i + 1)
         /\ \A i \in Indices : i + 1 \in Indices => Plus(Dec(x), i + 1) = Plus(x, i)
         /\ \A n, i \in Indices : n + i \in Indices => Plus(Plus(x, n), i) = Plus(x, n + i)
  BY ModulusPositive DEF Indices, Plus, Minus, Inc, Dec

-----------------------------------------------------------------------------
(* The ring as a sequence and as a set of slots: n messages from index h   *)
(* on, in an array nd of cap slots.                                        *)

Held(nd, h, n, cap) == [i \in 1..n |-> nd[Slot(Plus(h, i - 1), cap)]]

LiveSlots(h, n, cap) == {Slot(Plus(h, i), cap) : i \in 0..(n - 1)}

\* Exactly the live slots are in use, the slot t apart, which is about to be
\* overwritten.
ExactBut(nd, h, n, cap, t) ==
  \A s \in 0..(cap - 1) : s # t => ((nd[s] # Nil) <=> (s \in LiveSlots(h, n, cap)))

Exact(nd, h, n, cap) ==
  \A s \in 0..(cap - 1) : (nd[s] # Nil) <=> (s \in LiveSlots(h, n, cap))

Arrays(cap) == [0..(cap - 1) -> Messages \cup {Nil}]

\* What the ring holds is a sequence of n entries.
LEMMA HeldType ==
  ASSUME NEW cap, Fits(cap), NEW h \in Indices, NEW n \in 0..cap, NEW nd \in Arrays(cap)
  PROVE  /\ Held(nd, h, n, cap) \in Seq(Messages \cup {Nil})
         /\ Len(Held(nd, h, n, cap)) = n
         /\ DOMAIN Held(nd, h, n, cap) = 1..n
         /\ \A i \in 1..n : Held(nd, h, n, cap)[i] = nd[Slot(Plus(h, i - 1), cap)]
<1>1. cap \in Nat \ {0} /\ n \in Nat
  BY ModulusPositive DEF Fits
<1> DEFINE q == Held(nd, h, n, cap)
<1>2. ASSUME NEW i \in 1..n
      PROVE  q[i] = nd[Slot(Plus(h, i - 1), cap)] /\ q[i] \in Messages \cup {Nil}
  <2>1. i - 1 \in 0..cap
    BY <1>1
  <2>2. Slot(Plus(h, i - 1), cap) \in 0..(cap - 1)
    BY <2>1, Window
  <2> QED
    BY <2>2 DEF Held, Arrays
<1>3. q = [i \in 1..n |-> q[i]]
  BY DEF Held
<1> HIDE DEF q
<1> QED
  BY <1>1, <1>2, <1>3 DEF q

\* A sequence with one entry more is an Append ...
LEMMA IsAppend ==
  ASSUME NEW S, NEW s \in Seq(S), NEW t \in Seq(S), Len(t) = Len(s) + 1,
         \A i \in 1..Len(s) : t[i] = s[i]
  PROVE  t = Append(s, t[Len(t)])
OBVIOUS

\* A message stored after the newest one.
LEMMA StoreAtTail ==
  ASSUME NEW cap, Fits(cap), NEW h \in Indices, NEW n \in 0..(cap - 1),
         NEW nd \in Arrays(cap), NEW m \in Messages,
         NEW t, t = Slot(Plus(h, n), cap), ExactBut(nd, h, n, cap, t)
  PROVE  /\ Exact([nd EXCEPT ![t] = m], h, n + 1, cap)
         /\ Held([nd EXCEPT ![t] = m], h, n + 1, cap) = Append(Held(nd, h, n, cap), m)
<1> DEFINE at(i) == Slot(Plus(h, i), cap)
<1>1. cap \in Nat \ {0} /\ n \in Nat
  BY ModulusPositive DEF Fits
<1>2. /\ \A i \in 0..cap : at(i) \in 0..(cap - 1)
      /\ \A i, j \in 0..(cap - 1) : at(i) = at(j) => i = j
      /\ t = at(n)
  BY Window
<1> DEFINE nd2 == [nd EXCEPT ![t] = m]
<1>3. \A s \in 0..(cap - 1) : nd2[s] = IF s = t THEN m ELSE nd[s]
  BY DEF Arrays
<1>4. LiveSlots(h, n + 1, cap) = LiveSlots(h, n, cap) \cup {t}
  <2>1. \A i : i \in 0..(n + 1 - 1) <=> i \in 0..(n - 1) \/ i = n
    BY <1>1
  <2> QED
    BY <1>2, <2>1 DEF LiveSlots
<1> HIDE DEF nd2
<1>5. Exact(nd2, h, n + 1, cap)
  BY <1>3, <1>4, NilAssumption DEF Exact, ExactBut
<1> DEFINE s1 == Held(nd, h, n, cap)
           s2 == Held(nd2, h, n + 1, cap)
<1>6. \A i \in 1..n : s2[i] = s1[i]
  <2> SUFFICES ASSUME NEW i \in 1..n PROVE s2[i] = s1[i]
    BY Zenon
  <2>1. i \in 1..(n + 1) /\ i - 1 \in 0..(cap - 1) /\ i - 1 \in 0..cap /\ i - 1 # n /\ n \in 0..(cap - 1)
    BY <1>1
  <2>2. at(i - 1) \in 0..(cap - 1) /\ at(i - 1) # t
    BY <1>2, <2>1, Zenon
  <2>3. s2[i] = nd2[at(i - 1)] /\ s1[i] = nd[at(i - 1)]
    BY <2>1, Zenon DEF Held
  <2> QED
    BY <1>3, <2>2, <2>3, Zenon
<1>7. s2[n + 1] = m
  <2>1. n + 1 \in 1..(n + 1) /\ n + 1 - 1 = n /\ n \in 0..cap
    BY <1>1
  <2>2. s2[n + 1] = nd2[t] /\ t \in 0..(cap - 1)
    BY <1>2, <2>1 DEF Held
  <2> QED
    BY <1>3, <2>2, Zenon
<1>8. /\ s1 \in Seq(Messages \cup {Nil}) /\ Len(s1) = n
      /\ s2 \in Seq(Messages \cup {Nil}) /\ Len(s2) = n + 1
  <2>1. nd2 \in Arrays(cap)
    BY Zenon DEF Arrays, nd2
  <2>2. n \in 0..cap /\ n + 1 \in 0..cap
    BY <1>1
  <2> QED
    BY <2>1, <2>2, HeldType, Zenon
<1> HIDE DEF s1, s2
<1>9. s2 = Append(s1, m)
  BY <1>6, <1>7, <1>8, IsAppend
<1> QED
  BY <1>5, <1>9, Zenon DEF s1, s2, nd2

\* ... or a concatenation with a first entry.
LEMMA IsPrepend ==
  ASSUME NEW S, NEW s \in Seq(S), NEW t \in Seq(S), Len(t) = Len(s) + 1,
         \A i \in 1..Len(s) : t[i + 1] = s[i]
  PROVE  t = <<t[1]>> \o s
<1>1. t[1] \in S
  OBVIOUS
<1>2. <<t[1]>> \o s \in Seq(S) /\ Len(<<t[1]>> \o s) = Len(t)
  BY <1>1
<1>3. ASSUME NEW i \in 1..Len(t)
      PROVE  (<<t[1]>> \o s)[i] = t[i]
  <2>1. CASE i = 1
    BY <2>1
  <2>2. CASE i # 1
    <3>1. i - 1 \in 1..Len(s) /\ (i - 1) + 1 = i
      BY <2>2
    <3>2. (<<t[1]>> \o s)[i] = s[i - 1]
      BY <2>2, <3>1
    <3> QED
      BY <3>1, <3>2, Zenon
  <2> QED
    BY <2>1, <2>2
<1> QED
  BY <1>2, <1>3

\* A message m is stored before the oldest one, at index x.
StoringAtHead(cap, x, n, nd, m, t, h, nd2) ==
  /\ Fits(cap) /\ x \in Indices /\ n \in 0..(cap - 1) /\ nd \in Arrays(cap)
  /\ m \in Messages /\ t = Slot(x, cap) /\ h = Inc(x) /\ ExactBut(nd, h, n, cap, t)
  /\ nd2 = [nd EXCEPT ![t] = m]

StoredAtHead(cap, x, n, nd, m, h, nd2) ==
  /\ Exact(nd2, x, n + 1, cap)
  /\ Held(nd2, x, n + 1, cap) = <<m>> \o Held(nd, h, n, cap)

\* Then it is the first of the messages held.
LEMMA StoreAtHead ==
  ASSUME NEW cap, NEW x, NEW n, NEW nd, NEW m, NEW t, NEW h, NEW nd2,
         StoringAtHead(cap, x, n, nd, m, t, h, nd2)
  PROVE  StoredAtHead(cap, x, n, nd, m, h, nd2)
<1> /\ Fits(cap) /\ x \in Indices /\ n \in 0..(cap - 1) /\ nd \in Arrays(cap)
    /\ m \in Messages /\ t = Slot(x, cap) /\ h = Inc(x) /\ ExactBut(nd, h, n, cap, t)
  BY Zenon DEF StoringAtHead
<1>0. nd2 = [nd EXCEPT ![t] = m]
  BY Zenon DEF StoringAtHead
<1> DEFINE at(i) == Slot(Plus(x, i), cap)
<1>1. cap \in Nat \ {0} /\ n \in Nat /\ cap < Modulus /\ Modulus \in Nat
  BY ModulusPositive DEF Fits
<1>2. /\ \A i \in 0..cap : at(i) \in 0..(cap - 1)
      /\ \A i, j \in 0..(cap - 1) : at(i) = at(j) => i = j
  BY Window, Zenon
<1>3. t = at(0) /\ t \in 0..(cap - 1)
  BY <1>1, <1>2, Steps
<1>4. h \in Indices /\ \A i \in 0..(n - 1) : Slot(Plus(h, i), cap) = at(i + 1)
  <2>1. h \in Indices
    BY IndexTypes, Zenon
  <2>2. \A i \in 0..(n - 1) : i \in Indices /\ i + 1 \in Indices
    BY <1>1 DEF Indices
  <2> QED
    BY <2>1, <2>2, Steps
<1>5. \A s \in 0..(cap - 1) : nd2[s] = IF s = t THEN m ELSE nd[s]
  BY <1>0, Zenon DEF Arrays
<1>6. LiveSlots(x, n + 1, cap) = LiveSlots(h, n, cap) \cup {t}
  <2>1. \A i : i \in 0..(n + 1 - 1) => i = 0 \/ (i - 1 \in 0..(n - 1) /\ (i - 1) + 1 = i)
    BY <1>1
  <2>2. 0 \in 0..(n + 1 - 1) /\ \A i \in 0..(n - 1) : i + 1 \in 0..(n + 1 - 1)
    BY <1>1
  <2>3. ASSUME NEW s \in LiveSlots(x, n + 1, cap)
        PROVE  s \in LiveSlots(h, n, cap) \cup {t}
    <3>1. PICK i \in 0..(n + 1 - 1) : s = at(i)
      BY DEF LiveSlots
    <3>2. CASE i = 0
      BY <1>3, <3>1, <3>2, Zenon
    <3>3. CASE i # 0
      <4>1. i - 1 \in 0..(n - 1) /\ s = Slot(Plus(h, i - 1), cap)
        BY <1>4, <2>1, <3>1, <3>3, Zenon
      <4> QED
        BY <4>1, Zenon DEF LiveSlots
    <3> QED
      BY <3>2, <3>3, Zenon
  <2>4. t \in LiveSlots(x, n + 1, cap)
    BY <1>3, <2>2 DEF LiveSlots
  <2>5. LiveSlots(h, n, cap) \subseteq LiveSlots(x, n + 1, cap)
    BY <1>4, <2>2 DEF LiveSlots
  <2> QED
    BY <2>3, <2>4, <2>5, Zenon
<1>7. Exact(nd2, x, n + 1, cap)
  BY <1>5, <1>6, NilAssumption, Zenon DEF Exact, ExactBut
<1> DEFINE s1 == Held(nd, h, n, cap)
           s2 == Held(nd2, x, n + 1, cap)
<1>8. /\ s1 \in Seq(Messages \cup {Nil}) /\ Len(s1) = n
      /\ s2 \in Seq(Messages \cup {Nil}) /\ Len(s2) = n + 1
      /\ \A i \in 1..n : s1[i] = nd[Slot(Plus(h, i - 1), cap)]
      /\ \A i \in 1..(n + 1) : s2[i] = nd2[at(i - 1)]
  <2>1. nd2 \in Arrays(cap)
    BY <1>0, ZenonT(30) DEF Arrays
  <2>2. n \in 0..cap /\ n + 1 \in 0..cap
    BY <1>1
  <2>3. /\ s1 \in Seq(Messages \cup {Nil}) /\ Len(s1) = n
        /\ \A i \in 1..n : s1[i] = nd[Slot(Plus(h, i - 1), cap)]
    BY <1>4, <2>2, HeldType
  <2>4. PICK k \in 0..cap : k = n + 1
    BY <2>2
  <2>5. /\ Held(nd2, x, k, cap) \in Seq(Messages \cup {Nil}) /\ Len(Held(nd2, x, k, cap)) = k
        /\ \A i \in 1..k : Held(nd2, x, k, cap)[i] = nd2[at(i - 1)]
    <3>1. nd2 \in Arrays(cap) /\ k \in 0..cap
      BY <2>1, Zenon
    <3> QED
      BY <3>1, HeldType, Zenon
  <2> QED
    BY <2>3, <2>4, <2>5, Zenon
<1> HIDE DEF s1, s2
<1>9. s2[1] = m
  BY <1>1, <1>3, <1>5, <1>8
<1>10. ASSUME NEW i \in 1..n
       PROVE  s2[i + 1] = s1[i]
  <2>1. /\ i + 1 \in 1..(n + 1) /\ (i + 1) - 1 = i /\ i - 1 \in 0..(n - 1) /\ (i - 1) + 1 = i
        /\ i \in 0..(cap - 1) /\ 0 \in 0..(cap - 1) /\ i # 0 /\ i \in 0..cap
    BY <1>1
  <2>2. s2[i + 1] = nd2[at(i)] /\ s1[i] = nd[at(i)]
    BY <1>4, <1>8, <2>1, Zenon
  <2>3. at(i) # t /\ at(i) \in 0..(cap - 1)
    BY <1>2, <1>3, <2>1, Zenon
  <2> QED
    BY <1>5, <2>2, <2>3, Zenon
<1>11. s2 = <<m>> \o s1
  BY <1>8, <1>9, <1>10, IsPrepend, Zenon
<1> QED
  BY <1>7, <1>11, Zenon DEF s1, s2, StoredAtHead

\* The slots from n messages further on.
LEMMA SlotsFurther ==
  ASSUME NEW cap, Fits(cap), NEW h \in Indices, NEW count \in 0..cap, NEW n \in 0..count,
         NEW x, x = Plus(h, n)
  PROVE  /\ x \in Indices
         /\ \A i \in 0..(count - n - 1) : Slot(Plus(x, i), cap) = Slot(Plus(h, n + i), cap)
<1>1. cap \in Nat /\ cap < Modulus /\ Modulus \in Nat /\ n \in Indices
  BY ModulusPositive DEF Fits, Indices
<1>2. ASSUME NEW i \in 0..(count - n - 1)
      PROVE  Slot(Plus(x, i), cap) = Slot(Plus(h, n + i), cap)
  <2>1. i \in Indices /\ n + i \in Indices
    BY <1>1 DEF Indices
  <2> QED
    BY <1>1, <2>1, Steps
<1> QED
  BY <1>1, <1>2, IndexTypes, Zenon

\* n off the front: the rest is held from x on, and the n before it.
SplitAt(nd, h, count, n, cap, x) ==
  /\ Held(nd, x, count - n, cap) = SubSeq(Held(nd, h, count, cap), n + 1, count)
  /\ Held(nd, h, n, cap) = SubSeq(Held(nd, h, count, cap), 1, n)

\* The n oldest messages, and those after them, are parts of the sequence.
LEMMA AfterTake ==
  ASSUME NEW cap, Fits(cap), NEW h \in Indices, NEW count \in 0..cap, NEW n \in 0..count,
         NEW nd \in Arrays(cap), NEW x, x = Plus(h, n)
  PROVE  SplitAt(nd, h, count, n, cap, x)
<1>1. cap \in Nat \ {0} /\ count \in Nat /\ n \in Nat /\ n \in 0..cap
  BY ModulusPositive DEF Fits
<1>2. PICK k \in 0..cap : k = count - n
  BY <1>1
<1>3. x \in Indices /\ \A i \in 0..(count - n - 1) : Slot(Plus(x, i), cap) = Slot(Plus(h, n + i), cap)
  BY SlotsFurther, Zenon
<1> DEFINE q == Held(nd, h, count, cap)
           rest == Held(nd, x, k, cap)
           first == Held(nd, h, n, cap)
<1>4. /\ q \in Seq(Messages \cup {Nil}) /\ Len(q) = count
      /\ \A i \in 1..count : q[i] = nd[Slot(Plus(h, i - 1), cap)]
  BY HeldType, Zenon
<1>5. /\ rest \in Seq(Messages \cup {Nil}) /\ Len(rest) = k
      /\ \A i \in 1..k : rest[i] = nd[Slot(Plus(x, i - 1), cap)]
  BY <1>3, HeldType, Zenon
<1>6. /\ first \in Seq(Messages \cup {Nil}) /\ Len(first) = n
      /\ \A i \in 1..n : first[i] = nd[Slot(Plus(h, i - 1), cap)]
  BY <1>1, HeldType
<1> HIDE DEF q, rest, first
<1>7. \A i \in 1..k : rest[i] = q[n + i]
  <2> SUFFICES ASSUME NEW i \in 1..k PROVE rest[i] = q[n + i]
    BY Zenon
  <2>1. i - 1 \in 0..(count - n - 1) /\ n + i \in 1..count /\ n + (i - 1) = (n + i) - 1
    BY <1>1, <1>2
  <2> QED
    BY <1>3, <1>4, <1>5, <2>1
<1>8. rest = SubSeq(q, n + 1, count)
  BY <1>1, <1>2, <1>4, <1>5, <1>7
<1>9. first = SubSeq(q, 1, n)
  <2>1. \A i \in 1..n : i \in 1..count
    BY <1>1
  <2>2. \A i \in 1..n : first[i] = q[i]
    BY <1>4, <1>6, <2>1, Zenon
  <2> QED
    BY <1>1, <1>4, <1>6, <2>2
<1> QED
  BY <1>2, <1>8, <1>9, Zenon DEF q, rest, first, SplitAt

\* Take clears exactly the slots of the messages it returns.
LEMMA TakeExact ==
  ASSUME NEW cap, Fits(cap), NEW h \in Indices, NEW count \in 0..cap, NEW n \in 1..count,
         NEW nd \in Arrays(cap), NEW x, x = Plus(h, n), Exact(nd, h, count, cap),
         NEW nd2, nd2 = [s \in 0..(cap - 1) |->
                           IF \E i \in 0..(n - 1) : s = Slot(Plus(h, i), cap)
                           THEN Nil ELSE nd[s]]
  PROVE  /\ Exact(nd2, x, count - n, cap)
         /\ nd2 \in Arrays(cap)
         /\ Held(nd2, x, count - n, cap) = Held(nd, x, count - n, cap)
<1> DEFINE at(i) == Slot(Plus(h, i), cap)
<1>1. cap \in Nat \ {0} /\ count \in Nat /\ n \in 0..count /\ n \in Nat
  BY ModulusPositive DEF Fits
<1>2. /\ \A i \in 0..cap : at(i) \in 0..(cap - 1)
      /\ \A i, j \in 0..(cap - 1) : at(i) = at(j) => i = j
  BY Window
<1>3. x \in Indices /\ \A i \in 0..(count - n - 1) : Slot(Plus(x, i), cap) = at(n + i)
  BY <1>1, SlotsFurther
<1>4. \A s \in 0..(cap - 1) : nd2[s] = IF \E i \in 0..(n - 1) : s = at(i) THEN Nil ELSE nd[s]
  BY Zenon
<1>5. nd2 \in Arrays(cap)
  BY Zenon DEF Arrays
<1>6. ASSUME NEW i \in 0..(count - n - 1)
      PROVE  /\ at(n + i) \in 0..(cap - 1)
             /\ nd2[at(n + i)] = nd[at(n + i)]
             /\ ~ \E j \in 0..(n - 1) : at(n + i) = at(j)
  <2>1. n + i \in 0..(cap - 1) /\ n + i \in 0..cap
    BY <1>1
  <2>2. \A j \in 0..(n - 1) : j \in 0..(cap - 1) /\ j # n + i
    BY <1>1
  <2> QED
    BY <1>2, <1>4, <2>1, <2>2, Zenon
<1>7. ASSUME NEW s \in 0..(cap - 1)
      PROVE  (nd2[s] # Nil) <=> (s \in LiveSlots(x, count - n, cap))
  <2>1. s \in LiveSlots(x, count - n, cap) <=> \E i \in 0..(count - n - 1) : s = at(n + i)
    BY <1>3, Zenon DEF LiveSlots
  <2>2. nd[s] # Nil <=> \E i \in 0..(count - 1) : s = at(i)
    BY DEF Exact, LiveSlots
  <2>3. CASE \E i \in 0..(n - 1) : s = at(i)
    BY <1>4, <1>6, <2>1, <2>3, Zenon
  <2>4. CASE ~ \E i \in 0..(n - 1) : s = at(i)
    <3>1. nd2[s] = nd[s]
      BY <1>4, <2>4, Zenon
    <3>2. \A i \in 0..(count - 1) : i \in 0..(n - 1) \/ (i - n \in 0..(count - n - 1) /\ n + (i - n) = i)
      BY <1>1
    <3>3. \A i \in 0..(count - n - 1) : n + i \in 0..(count - 1)
      BY <1>1
    <3> QED
      BY <2>1, <2>2, <2>4, <3>1, <3>2, <3>3
  <2> QED
    BY <2>3, <2>4, Zenon
<1>8. \A i \in 1..(count - n) : nd2[Slot(Plus(x, i - 1), cap)] = nd[Slot(Plus(x, i - 1), cap)]
  <2> SUFFICES ASSUME NEW i \in 1..(count - n)
               PROVE  nd2[Slot(Plus(x, i - 1), cap)] = nd[Slot(Plus(x, i - 1), cap)]
    BY Zenon
  <2>1. i - 1 \in 0..(count - n - 1)
    BY <1>1
  <2> QED
    BY <1>3, <1>6, <2>1, Zenon
<1> QED
  BY <1>5, <1>7, <1>8, Zenon DEF Exact, Held

\* Push on a full ring: the slot of the oldest message is the one after the newest.
LEMMA DropOldest ==
  ASSUME NEW cap, Fits(cap), NEW h \in Indices, NEW nd \in Arrays(cap),
         Exact(nd, h, cap, cap), NEW x, x = Inc(h),
         NEW t, t = Slot(Plus(x, cap - 1), cap)
  PROVE  /\ x \in Indices
         /\ ExactBut(nd, x, cap - 1, cap, t)
         /\ Held(nd, x, cap - 1, cap) = Tail(Held(nd, h, cap, cap))
<1> DEFINE at(i) == Slot(Plus(h, i), cap)
<1>1. cap \in Nat \ {0} /\ cap < Modulus /\ Modulus \in Nat /\ 1 \in 0..cap /\ cap \in 0..cap
  BY ModulusPositive DEF Fits
<1>2. x = Plus(h, 1)
  BY <1>1 DEF Inc, Plus, Indices
<1>3. x \in Indices /\ \A i \in 0..(cap - 1 - 1) : Slot(Plus(x, i), cap) = at(1 + i)
  BY <1>1, <1>2, SlotsFurther
<1>4. t = at(0)
  <2>1. 1 \in Indices /\ cap - 1 \in Indices /\ 1 + (cap - 1) \in Indices /\ 1 + (cap - 1) = cap
    BY <1>1 DEF Indices
  <2>2. Plus(x, cap - 1) = Plus(h, cap)
    BY <1>2, <2>1, Steps
  <2> QED
    BY <2>2, Window, Zenon
<1>5. ExactBut(nd, x, cap - 1, cap, t)
  <2> SUFFICES ASSUME NEW s \in 0..(cap - 1), s # t
               PROVE  (nd[s] # Nil) <=> (s \in LiveSlots(x, cap - 1, cap))
    BY Zenon DEF ExactBut
  <2>1. s \in LiveSlots(x, cap - 1, cap) <=> \E i \in 0..(cap - 1 - 1) : s = at(1 + i)
    BY <1>3, Zenon DEF LiveSlots
  <2>2. nd[s] # Nil <=> \E i \in 0..(cap - 1) : s = at(i)
    BY Zenon DEF Exact, LiveSlots
  <2>3. \A i \in 0..(cap - 1) : i = 0 \/ (i - 1 \in 0..(cap - 1 - 1) /\ 1 + (i - 1) = i)
    BY <1>1
  <2>4. \A i \in 0..(cap - 1 - 1) : 1 + i \in 0..(cap - 1)
    BY <1>1
  <2> QED
    BY <1>4, <2>1, <2>2, <2>3, <2>4, Zenon
<1>6. Held(nd, x, cap - 1, cap) = SubSeq(Held(nd, h, cap, cap), 2, cap)
  <2>1. PICK one \in 0..cap : one = 1
    BY <1>1, Zenon
  <2>2. x = Plus(h, one) /\ cap \in 0..cap
    BY <1>1, <1>2, <2>1
  <2>3. SplitAt(nd, h, cap, one, cap, x)
    BY <2>2, AfterTake, Zenon
  <2> QED
    BY <2>1, <2>3 DEF SplitAt
<1>7. /\ Held(nd, h, cap, cap) \in Seq(Messages \cup {Nil})
      /\ Len(Held(nd, h, cap, cap)) = cap
  BY <1>1, HeldType
<1>8. ASSUME NEW q \in Seq(Messages \cup {Nil}), Len(q) = cap
      PROVE  SubSeq(q, 2, cap) = Tail(q)
  <2>1. q # <<>>
    BY <1>1, <1>8
  <2>2. Tail(q) \in Seq(Messages \cup {Nil}) /\ Len(Tail(q)) = cap - 1
    BY <1>1, <1>8, <2>1
  <2>3. SubSeq(q, 2, cap) \in Seq(Messages \cup {Nil}) /\ Len(SubSeq(q, 2, cap)) = cap - 1
    BY <1>1, <1>8
  <2>4. \A i \in 1..(cap - 1) : Tail(q)[i] = q[i + 1] /\ SubSeq(q, 2, cap)[i] = q[i + 1]
    BY <1>1, <1>8, <2>1
  <2> QED
    BY <2>2, <2>3, <2>4
<1> QED
  BY <1>3, <1>5, <1>6, <1>7, <1>8, Zenon

\* PushFront on a full ring: the slot of the newest message is the one before the
\* oldest, at index x.
LEMMA DropNewest ==
  ASSUME NEW cap, Fits(cap), NEW h \in Indices, NEW nd \in Arrays(cap),
         Exact(nd, h, cap, cap), NEW x, x = Dec(h), NEW t, t = Slot(x, cap)
  PROVE  /\ ExactBut(nd, h, cap - 1, cap, t)
         /\ Held(nd, h, cap - 1, cap) = SubSeq(Held(nd, h, cap, cap), 1, cap - 1)
<1> DEFINE at(i) == Slot(Plus(h, i), cap)
<1>1. /\ cap \in Nat \ {0} /\ cap < Modulus /\ Modulus \in Nat /\ cap \in 0..cap
      /\ cap - 1 \in 0..cap
  BY ModulusPositive DEF Fits
<1>2. t = at(cap - 1)
  <2>1. cap - 1 \in Indices /\ (cap - 1) + 1 \in Indices /\ (cap - 1) + 1 = cap
    BY <1>1 DEF Indices
  <2>2. x \in Indices /\ Plus(x, cap) = Plus(h, cap - 1) /\ Plus(x, 0) = x
    BY <2>1, Steps, IndexTypes
  <2> QED
    BY <2>2, Window
<1>3. ExactBut(nd, h, cap - 1, cap, t)
  <2> SUFFICES ASSUME NEW s \in 0..(cap - 1), s # t
               PROVE  (nd[s] # Nil) <=> (s \in LiveSlots(h, cap - 1, cap))
    BY Zenon DEF ExactBut
  <2>1. \A i : i \in 0..(cap - 1) <=> i \in 0..(cap - 1 - 1) \/ i = cap - 1
    BY <1>1
  <2> QED
    BY <1>2, <2>1, Zenon DEF Exact, LiveSlots
<1>4. Held(nd, h, cap - 1, cap) = SubSeq(Held(nd, h, cap, cap), 1, cap - 1)
  <2>1. PICK x1 : x1 = Plus(h, cap - 1)
    BY Zenon
  <2> QED
    BY <1>1, <2>1, AfterTake, Zenon DEF SplitAt
<1> QED
  BY <1>3, <1>4

\* grow() moves the messages to the beginning of an array twice as long.
LEMMA GrowExact ==
  ASSUME NEW cap, Fits(cap), Fits(2 * cap), NEW h \in Indices, NEW n \in 0..cap,
         NEW nd \in Arrays(cap), Exact(nd, h, n, cap),
         NEW nd2, nd2 = [s \in 0..(2 * cap - 1) |->
                           IF s < n THEN nd[Slot(Plus(h, s), cap)] ELSE Nil]
  PROVE  /\ nd2 \in Arrays(2 * cap)
         /\ Exact(nd2, 0, n, 2 * cap)
         /\ Held(nd2, 0, n, 2 * cap) = Held(nd, h, n, cap)
<1> DEFINE at(i) == Slot(Plus(h, i), cap)
<1>1. cap \in Nat \ {0} /\ 2 * cap < Modulus /\ Modulus \in Nat /\ n \in Nat
  BY ModulusPositive DEF Fits
<1>2. \A i \in 0..(2 * cap - 1) : Slot(Plus(0, i), 2 * cap) = i
  <2> SUFFICES ASSUME NEW i \in 0..(2 * cap - 1) PROVE Slot(Plus(0, i), 2 * cap) = i
    BY Zenon
  <2>1. Plus(0, i) = i
    BY <1>1 DEF Plus
  <2>2. PICK c2 \in Nat \ {0} : c2 = 2 * cap
    BY <1>1
  <2>3. i = 0 * c2 + i /\ i \in 0..(c2 - 1) /\ i \in Nat
    BY <2>2
  <2>4. i % c2 = i
    BY <2>3
  <2> QED
    BY <2>1, <2>2, <2>4, Zenon DEF Slot
<1>3. \A i \in 0..cap : at(i) \in 0..(cap - 1)
  BY Window, Zenon
<1>4. ASSUME NEW s \in 0..(n - 1)
      PROVE  /\ s \in 0..(2 * cap - 1) /\ s < n
             /\ nd2[s] = nd[at(s)] /\ nd[at(s)] # Nil /\ nd[at(s)] \in Messages \cup {Nil}
  <2>1. s \in 0..(2 * cap - 1) /\ s < n /\ s \in 0..cap
    BY <1>1
  <2>2. at(s) \in 0..(cap - 1) /\ at(s) \in LiveSlots(h, n, cap)
    BY <1>3, <2>1, Zenon DEF LiveSlots
  <2> QED
    BY <2>1, <2>2, Zenon DEF Exact, Arrays
<1>5. \A s \in 0..(2 * cap - 1) : s \notin 0..(n - 1) => nd2[s] = Nil
  BY <1>1
<1>6. nd2 \in Arrays(2 * cap)
  <2>1. \A s \in 0..(2 * cap - 1) : nd2[s] \in Messages \cup {Nil}
    BY <1>4, <1>5, Zenon
  <2> QED
    BY <2>1, Zenon DEF Arrays
<1>7. LiveSlots(0, n, 2 * cap) = 0..(n - 1)
  BY <1>2, <1>4, Zenon DEF LiveSlots
<1>8. Exact(nd2, 0, n, 2 * cap)
  BY <1>4, <1>5, <1>7, Zenon DEF Exact
<1>9. \A i \in 1..n : nd2[Slot(Plus(0, i - 1), 2 * cap)] = nd[at(i - 1)]
  <2>1. \A i \in 1..n : i - 1 \in 0..(n - 1)
    BY <1>1
  <2> QED
    BY <1>2, <1>4, <2>1, Zenon
<1> QED
  BY <1>6, <1>8, <1>9, Zenon DEF Held

-----------------------------------------------------------------------------
(* The ring's own invariant, and what each operation does to the contents. *)

\* The capacities that doubling reaches from the first one.
Reached(cap) ==
  /\ Fits(cap)
  /\ \/ cap = InitialCapacity /\ InitialCapacity >= MaxCapacity
     \/ InitialCapacity < MaxCapacity /\ cap <= MaxCapacity /\ MaxCapacity % cap = 0

RingInv == RingType /\ Reached(capacity) /\ SlotsExact

MaxLen == IF InitialCapacity > MaxCapacity THEN InitialCapacity ELSE MaxCapacity

\* A ring that grows stays in the range where a full one can be told from an
\* empty one, and never passes MaxCapacity.
LEMMA GrowthReaches ==
  ASSUME NEW cap, Reached(cap), cap < MaxCapacity
  PROVE  Reached(2 * cap)
<1>1. /\ cap \in Nat \ {0} /\ MaxCapacity \in Nat \ {0} /\ MaxCapacity < Modulus /\ Modulus \in Nat
      /\ MaxCapacity % cap = 0 /\ Modulus % cap = 0 /\ 2 * MaxCapacity <= Modulus
      /\ InitialCapacity < MaxCapacity
  BY CapacityAssumption DEF Reached, Fits
<1>2. cap \in 1..(MaxCapacity - 1) /\ cap \in 1..(Modulus - 1)
  BY <1>1
<1>3. MaxCapacity % (2 * cap) = 0 /\ Modulus % (2 * cap) = 0
  BY <1>1, <1>2, PowersOfTwoAssumption, Zenon
<1>4. 2 * cap <= MaxCapacity
  <2> SUFFICES ASSUME 2 * cap > MaxCapacity PROVE FALSE
    BY <1>1
  <2>1. PICK c \in Nat \ {0} : c = 2 * cap
    BY <1>1
  <2>2. MaxCapacity = 0 * c + MaxCapacity /\ MaxCapacity \in 0..(c - 1)
    BY <1>1, <2>1
  <2>3. MaxCapacity % c = MaxCapacity
    BY <1>1, <2>2
  <2> QED
    BY <1>1, <1>3, <2>1, <2>3, Zenon
<1>5. 2 * cap \in 1..(Modulus - 1)
  BY <1>1
<1> QED
  BY <1>1, <1>3, <1>4, <1>5 DEF Reached, Fits

\* The contents and the exactness of the slots, in the terms above.
LEMMA RingParts ==
  /\ Contents = Held(nodes, head, Count, capacity)
  /\ SlotsExact <=> Exact(nodes, head, Count, capacity)
BY Zenon DEF Contents, Held, SlotsExact, Exact, LiveSlots

\* What RingInv says about the array and its length.
LEMMA RingFacts ==
  ASSUME RingInv
  PROVE  /\ Fits(capacity) /\ head \in Indices /\ tail \in Indices
         /\ nodes \in Arrays(capacity)
         /\ Count \in 0..capacity /\ capacity \in Nat \ {0}
         /\ capacity <= MaxLen
         /\ capacity >= MaxCapacity => capacity = MaxLen
         /\ Exact(nodes, head, Count, capacity)
         /\ tail = Plus(head, Count)
<1>1. RingType /\ Fits(capacity) /\ Exact(nodes, head, Count, capacity)
  BY RingParts, Zenon DEF RingInv, Reached
<1>2. Count \in 0..capacity
  BY <1>1, CountType, Zenon
<1>3. tail = Plus(head, Count)
  BY <1>1, Steps, Zenon DEF RingType, Count
<1>4. capacity <= MaxLen /\ (capacity >= MaxCapacity => capacity = MaxLen)
  BY <1>1, CapacityAssumption DEF RingInv, Reached, RingType, MaxLen
<1>5. capacity \in Nat \ {0}
  BY <1>1, ModulusPositive DEF Fits
<1> QED
  BY <1>1, <1>2, <1>3, <1>4, <1>5, Zenon DEF RingType, Arrays

\* A full ring that grows keeps its messages, and any free slot may be written.
LEMMA GrownExact ==
  ASSUME RingInv, Count = capacity, capacity < MaxCapacity, NEW r, r = Grown, NEW t
  PROVE  /\ Count \in 0..(r.capacity - 1) /\ ~(Count >= MaxLen)
         /\ Reached(r.capacity) /\ r.nodes \in Arrays(r.capacity)
         /\ r.head \in Indices /\ r.tail = Plus(r.head, Count)
         /\ ExactBut(r.nodes, r.head, Count, r.capacity, t)
         /\ Held(r.nodes, r.head, Count, r.capacity) = Contents
<1>1. /\ Fits(capacity) /\ head \in Indices /\ nodes \in Arrays(capacity)
      /\ Count \in 0..capacity /\ capacity \in Nat \ {0}
      /\ Exact(nodes, head, Count, capacity)
  BY RingFacts, Zenon
<1>2. /\ Contents = Held(nodes, head, Count, capacity)
      /\ MaxLen \in Nat /\ MaxCapacity \in Nat /\ MaxCapacity <= MaxLen
  BY RingParts, CapacityAssumption DEF MaxLen
<1>3. Reached(2 * capacity)
  BY GrowthReaches, Zenon DEF RingInv
<1>4. PICK nd2 : nd2 = [s \in 0..(2 * capacity - 1) |->
                         IF s < Count THEN nodes[Slot(Plus(head, s), capacity)] ELSE Nil]
  BY Zenon
<1>5. /\ nd2 \in Arrays(2 * capacity)
      /\ Exact(nd2, 0, Count, 2 * capacity)
      /\ Held(nd2, 0, Count, 2 * capacity) = Held(nodes, head, Count, capacity)
  BY <1>1, <1>3, <1>4, GrowExact DEF Reached
<1>6. r.nodes = nd2 /\ r.head = 0 /\ r.tail = Count /\ r.capacity = 2 * capacity
  BY <1>4 DEF Grown
<1>7. /\ 0 \in Indices /\ Plus(0, Count) = Count
      /\ Count \in 0..(2 * capacity - 1) /\ ~(Count >= MaxLen)
  BY <1>1, <1>2, ModulusPositive DEF Fits, Indices, Plus
<1>8. ExactBut(nd2, 0, Count, 2 * capacity, t)
  BY <1>5, Zenon DEF Exact, ExactBut
<1> QED
  BY <1>2, <1>3, <1>5, <1>6, <1>7, <1>8, Zenon

\* After making room at the tail the slot there may be written.
LEMMA RoomAtTailExact ==
  ASSUME RingInv, NEW r, r = RoomAtTail
  PROVE  \E n \in 0..(r.capacity - 1) :
           /\ Reached(r.capacity) /\ r.nodes \in Arrays(r.capacity)
           /\ r.head \in Indices /\ r.tail = Plus(r.head, n)
           /\ ExactBut(r.nodes, r.head, n, r.capacity, Slot(r.tail, r.capacity))
           /\ Held(r.nodes, r.head, n, r.capacity)
                = IF Count >= MaxLen THEN Tail(Contents) ELSE Contents
<1>1. /\ Fits(capacity) /\ head \in Indices /\ tail \in Indices
      /\ nodes \in Arrays(capacity)
      /\ Count \in 0..capacity /\ capacity \in Nat \ {0}
      /\ capacity <= MaxLen
      /\ capacity >= MaxCapacity => capacity = MaxLen
      /\ Exact(nodes, head, Count, capacity)
      /\ tail = Plus(head, Count)
  BY RingFacts, Zenon
<1>2. Contents = Held(nodes, head, Count, capacity) /\ MaxLen \in Nat /\ MaxCapacity \in Nat
  BY RingParts, CapacityAssumption, Zenon DEF MaxLen
<1>3. CASE Count < capacity
  <2>1. r = Current
    BY <1>3, Zenon DEF RoomAtTail
  <2>2. ExactBut(nodes, head, Count, capacity, Slot(tail, capacity))
    BY <1>1, Zenon DEF Exact, ExactBut
  <2>3. Count \in 0..(capacity - 1) /\ ~(Count >= MaxLen)
    BY <1>1, <1>2, <1>3
  <2> QED
    BY <1>1, <1>2, <2>1, <2>2, <2>3 DEF Current, RingInv
<1>4. CASE Count >= capacity /\ capacity >= MaxCapacity
  <2>1. r = [Current EXCEPT !.head = Inc(head)]
    BY <1>1, <1>4 DEF RoomAtTail
  <2>2. Count = capacity /\ capacity = MaxLen /\ capacity - 1 \in 0..(capacity - 1)
    BY <1>1, <1>4
  <2>3. PICK x : x = Inc(head)
    BY Zenon
  <2>4. PICK t : t = Slot(Plus(x, capacity - 1), capacity)
    BY Zenon
  <2>5. /\ x \in Indices
        /\ ExactBut(nodes, x, capacity - 1, capacity, t)
        /\ Held(nodes, x, capacity - 1, capacity) = Tail(Held(nodes, head, capacity, capacity))
    BY <1>1, <2>2, <2>3, <2>4, DropOldest, Zenon
  <2>6. tail = Plus(x, capacity - 1)
    <3>1. capacity - 1 \in Indices /\ (capacity - 1) + 1 \in Indices /\ (capacity - 1) + 1 = capacity
      BY <1>1, ModulusPositive DEF Fits, Indices
    <3> QED
      BY <1>1, <2>2, <2>3, <3>1, Steps
  <2> QED
    BY <1>1, <1>2, <2>1, <2>2, <2>3, <2>4, <2>5, <2>6, Zenon DEF Current, RingInv
<1>5. CASE Count >= capacity /\ ~(capacity >= MaxCapacity)
  <2>1. r = Grown
    BY <1>1, <1>5 DEF RoomAtTail
  <2>2. Count = capacity /\ capacity < MaxCapacity
    BY <1>1, <1>2, <1>5
  <2> QED
    BY <1>2, <2>1, <2>2, GrownExact, Zenon
<1> QED
  BY <1>1, <1>3, <1>4, <1>5

\* A full message sequence of the ring has Count messages.
LEMMA ContentsType ==
  ASSUME RingInv
  PROVE  Contents \in Seq(Messages \cup {Nil}) /\ Len(Contents) = Count
<1>1. /\ Fits(capacity) /\ head \in Indices /\ nodes \in Arrays(capacity) /\ Count \in 0..capacity
  BY RingFacts, Zenon
<1> QED
  BY <1>1, HeldType, RingParts, Zenon

\* Counting on from an index, and back.
LEMMA PlusMinus ==
  ASSUME NEW x \in Indices, NEW k \in Indices, k + 1 \in Indices
  PROVE  /\ Minus(Plus(x, k), x) = k
         /\ Minus(Inc(Plus(x, k)), x) = k + 1
         /\ Inc(Dec(x)) = x
         /\ Minus(Plus(x, k), Dec(x)) = k + 1
BY ModulusPositive DEF Indices, Plus, Minus, Inc, Dec

\* After making room at the head the slot before it may be written.
LEMMA RoomAtHeadExact ==
  ASSUME RingInv, NEW r, r = RoomAtHead, NEW t, t = Slot(Dec(r.head), r.capacity)
  PROVE  \E n \in 0..(r.capacity - 1) :
           /\ Reached(r.capacity) /\ r.nodes \in Arrays(r.capacity)
           /\ r.head \in Indices /\ r.tail = Plus(r.head, n)
           /\ ExactBut(r.nodes, r.head, n, r.capacity, t)
           /\ Held(r.nodes, r.head, n, r.capacity)
                = IF Count >= MaxLen THEN SubSeq(Contents, 1, Count - 1) ELSE Contents
<1>1. /\ Fits(capacity) /\ head \in Indices /\ tail \in Indices
      /\ nodes \in Arrays(capacity)
      /\ Count \in 0..capacity /\ capacity \in Nat \ {0}
      /\ capacity <= MaxLen
      /\ capacity >= MaxCapacity => capacity = MaxLen
      /\ Exact(nodes, head, Count, capacity)
      /\ tail = Plus(head, Count)
  BY RingFacts, Zenon
<1>2. Contents = Held(nodes, head, Count, capacity) /\ MaxLen \in Nat /\ MaxCapacity \in Nat
  BY RingParts, CapacityAssumption, Zenon DEF MaxLen
<1>3. CASE Count < capacity
  <2>1. r = Current
    BY <1>3, Zenon DEF RoomAtHead
  <2>2. ExactBut(nodes, head, Count, capacity, t)
    BY <1>1, Zenon DEF Exact, ExactBut
  <2>3. Count \in 0..(capacity - 1) /\ ~(Count >= MaxLen)
    BY <1>1, <1>2, <1>3
  <2> QED
    BY <1>1, <1>2, <2>1, <2>2, <2>3 DEF Current, RingInv
<1>4. CASE Count >= capacity /\ capacity >= MaxCapacity
  <2>1. r = [Current EXCEPT !.tail = Dec(tail)]
    BY <1>1, <1>4 DEF RoomAtHead
  <2>2. Count = capacity /\ capacity = MaxLen /\ capacity - 1 \in 0..(capacity - 1)
    BY <1>1, <1>4
  <2>3. PICK x : x = Dec(head)
    BY Zenon
  <2>4. r.head = head /\ r.nodes = nodes /\ r.capacity = capacity /\ r.tail = Dec(tail)
    BY <2>1, Zenon DEF Current
  <2>5. /\ ExactBut(nodes, head, capacity - 1, capacity, t)
        /\ Held(nodes, head, capacity - 1, capacity)
             = SubSeq(Held(nodes, head, capacity, capacity), 1, capacity - 1)
    <3>1. t = Slot(x, capacity)
      BY <2>3, <2>4, Zenon
    <3> QED
      BY <1>1, <2>2, <2>3, <3>1, DropNewest, Zenon
  <2>6. Dec(tail) = Plus(head, capacity - 1)
    BY <1>1, <2>2, ModulusPositive DEF Fits, Indices, Dec, Plus
  <2> QED
    BY <1>1, <1>2, <2>2, <2>4, <2>5, <2>6, Zenon DEF RingInv
<1>5. CASE Count >= capacity /\ ~(capacity >= MaxCapacity)
  <2>1. r = Grown
    BY <1>1, <1>5 DEF RoomAtHead
  <2>2. Count = capacity /\ capacity < MaxCapacity
    BY <1>1, <1>2, <1>5
  <2> QED
    BY <1>2, <2>1, <2>2, GrownExact, Zenon
<1> QED
  BY <1>1, <1>3, <1>4, <1>5

\* Push adds the message behind the others, at the cost of the oldest when the ring
\* is full and cannot grow.
LEMMA PushStep ==
  ASSUME RingInv, NEW m \in Messages, Push(m)
  PROVE  RingInv' /\ Contents' = Deque!Pushed(Contents, m, MaxLen)
<1>1. PICK r : r = RoomAtTail
  BY Zenon
<1>2. PICK n \in 0..(r.capacity - 1) :
           /\ Reached(r.capacity) /\ r.nodes \in Arrays(r.capacity)
           /\ r.head \in Indices /\ r.tail = Plus(r.head, n)
           /\ ExactBut(r.nodes, r.head, n, r.capacity, Slot(r.tail, r.capacity))
           /\ Held(r.nodes, r.head, n, r.capacity)
                = IF Count >= MaxLen THEN Tail(Contents) ELSE Contents
  BY <1>1, RoomAtTailExact, Zenon
<1>3. /\ nodes' = [r.nodes EXCEPT ![Slot(r.tail, r.capacity)] = m]
      /\ head' = r.head
      /\ tail' = Inc(r.tail)
      /\ capacity' = r.capacity
  BY <1>1, Zenon DEF Push
<1>4. PICK t : t = Slot(r.tail, r.capacity)
  BY Zenon
<1>5. /\ Exact(nodes', head', n + 1, capacity')
      /\ Held(nodes', head', n + 1, capacity') = Append(Held(r.nodes, r.head, n, r.capacity), m)
  <2>1. t = Slot(Plus(r.head, n), r.capacity)
    BY <1>2, <1>4, Zenon
  <2>2. /\ Exact([r.nodes EXCEPT ![t] = m], r.head, n + 1, r.capacity)
        /\ Held([r.nodes EXCEPT ![t] = m], r.head, n + 1, r.capacity)
             = Append(Held(r.nodes, r.head, n, r.capacity), m)
    <3>1. PICK cap, hd, nd : cap = r.capacity /\ hd = r.head /\ nd = r.nodes
      OBVIOUS
    <3>2. /\ Fits(cap) /\ hd \in Indices /\ n \in 0..(cap - 1) /\ nd \in Arrays(cap)
          /\ t = Slot(Plus(hd, n), cap) /\ ExactBut(nd, hd, n, cap, t)
      BY <1>2, <1>4, <2>1, <3>1 DEF Reached
    <3>3. /\ Exact([nd EXCEPT ![t] = m], hd, n + 1, cap)
          /\ Held([nd EXCEPT ![t] = m], hd, n + 1, cap) = Append(Held(nd, hd, n, cap), m)
      BY <3>2, StoreAtTail, ZenonT(30)
    <3> QED
      BY <3>1, <3>3, Zenon
  <2> QED
    BY <1>3, <1>4, <2>2, Zenon
<1>6. Count' = n + 1
  <2>1. n \in Indices /\ n + 1 \in Indices
    BY <1>2, ModulusPositive DEF Reached, Fits, Indices
  <2> QED
    BY <1>2, <1>3, <2>1, PlusMinus DEF Count
<1>7. RingType' /\ Reached(capacity')
  BY <1>2, <1>3, PushTypes, ZenonT(30) DEF RingInv
<1>8. /\ Contents' = Held(nodes', head', Count', capacity')
      /\ SlotsExact' <=> Exact(nodes', head', Count', capacity')
  BY Zenon DEF Contents, Held, SlotsExact, Exact, LiveSlots
<1> QED
  BY <1>2, <1>5, <1>6, <1>7, <1>8, ContentsType, Zenon DEF RingInv, Deque!Pushed

\* PushFront adds the message before the others, at the cost of the newest when the
\* ring is full and cannot grow.
LEMMA PushFrontStep ==
  ASSUME RingInv, NEW m \in Messages, PushFront(m)
  PROVE  RingInv' /\ Contents' = Deque!PushedFront(Contents, m, MaxLen)
<1>1. PICK r : r = RoomAtHead
  OBVIOUS
<1>2. PICK x : x = Dec(r.head)
  OBVIOUS
<1>3. PICK t : t = Slot(x, r.capacity)
  OBVIOUS
<1>4. PICK n \in 0..(r.capacity - 1) :
           /\ Reached(r.capacity) /\ r.nodes \in Arrays(r.capacity)
           /\ r.head \in Indices /\ r.tail = Plus(r.head, n)
           /\ ExactBut(r.nodes, r.head, n, r.capacity, t)
           /\ Held(r.nodes, r.head, n, r.capacity)
                = IF Count >= MaxLen THEN SubSeq(Contents, 1, Count - 1) ELSE Contents
  <2>1. t = Slot(Dec(r.head), r.capacity)
    BY <1>2, <1>3, Zenon
  <2> QED
    BY <1>1, <2>1, RoomAtHeadExact
<1>5. /\ nodes' = [r.nodes EXCEPT ![t] = m]
      /\ head' = x
      /\ tail' = r.tail
      /\ capacity' = r.capacity
  BY <1>1, <1>2, <1>3, Zenon DEF PushFront
<1>6. n \in Indices /\ n + 1 \in Indices /\ x \in Indices /\ Inc(x) = r.head
  <2>1. n \in Indices /\ n + 1 \in Indices
    BY <1>4, ModulusPositive DEF Reached, Fits, Indices
  <2> QED
    BY <1>2, <1>4, <2>1, PlusMinus, IndexTypes, Zenon
<1>7. /\ Exact([r.nodes EXCEPT ![t] = m], x, n + 1, r.capacity)
      /\ Held([r.nodes EXCEPT ![t] = m], x, n + 1, r.capacity)
           = <<m>> \o Held(r.nodes, r.head, n, r.capacity)
  <2>1. PICK cap, hd, nd : cap = r.capacity /\ hd = r.head /\ nd = r.nodes
    OBVIOUS
  <2>4. PICK nd2 : nd2 = [nd EXCEPT ![t] = m]
    BY Zenon
  <2>2. StoringAtHead(cap, x, n, nd, m, t, hd, nd2)
    BY <1>3, <1>4, <1>6, <2>1, <2>4 DEF Reached, StoringAtHead
  <2>3. StoredAtHead(cap, x, n, nd, m, hd, nd2)
    BY <2>2, StoreAtHead, Zenon
  <2> QED
    BY <2>1, <2>3, <2>4, Zenon DEF StoredAtHead
<1>8. Count' = n + 1
  <2>1. PICK hd : hd = r.head
    BY Zenon
  <2>2. Minus(Plus(hd, n), Dec(hd)) = n + 1
    <3>1. hd \in Indices
      BY <1>4, <2>1, Zenon
    <3> QED
      BY <1>6, <3>1, PlusMinus, Zenon
  <2> QED
    BY <1>2, <1>4, <1>5, <2>1, <2>2, Zenon DEF Count
<1>9. RingType' /\ Reached(capacity')
  BY <1>4, <1>5, PushTypes, Zenon DEF RingInv
<1>10. /\ Contents' = Held(nodes', head', Count', capacity')
       /\ SlotsExact' <=> Exact(nodes', head', Count', capacity')
  BY DEF Contents, Held, SlotsExact, Exact, LiveSlots
<1> QED
  BY <1>4, <1>5, <1>7, <1>8, <1>9, <1>10, ContentsType, Zenon DEF RingInv, Deque!PushedFront

\* Pop, PopBatch and PopWait return the oldest messages in order and leave the rest.
LEMMA TakeStep ==
  ASSUME RingInv, NEW n \in 1..Count, Take(n)
  PROVE  /\ RingInv'
         /\ returned' = SubSeq(Contents, 1, n)
         /\ Contents' = SubSeq(Contents, n + 1, Len(Contents))
<1>1. /\ Fits(capacity) /\ head \in Indices /\ nodes \in Arrays(capacity)
      /\ Count \in 0..capacity /\ Exact(nodes, head, Count, capacity)
      /\ n \in 0..Count
  BY RingFacts
<1>2. /\ nodes' = [s \in 0..(capacity - 1) |->
                     IF \E i \in 0..(n - 1) : s = Slot(Plus(head, i), capacity)
                     THEN Nil ELSE nodes[s]]
      /\ head' = Plus(head, n) /\ capacity' = capacity
      /\ returned' = Held(nodes, head, n, capacity)
  BY DEF Take, Held
<1>3. PICK x : x = head'
  OBVIOUS
<1>4. PICK nd2 : nd2 = nodes'
  OBVIOUS
<1>5. /\ Exact(nd2, x, Count - n, capacity)
      /\ Held(nd2, x, Count - n, capacity) = Held(nodes, x, Count - n, capacity)
  <2>1. PICK count \in 0..capacity : count = Count
    BY <1>1, Zenon
  <2>2. x = Plus(head, n) /\ n \in 1..count /\ Exact(nodes, head, count, capacity)
    BY <1>1, <1>2, <1>3, <2>1, Zenon
  <2>3. nd2 = [s \in 0..(capacity - 1) |->
                 IF \E i \in 0..(n - 1) : s = Slot(Plus(head, i), capacity)
                 THEN Nil ELSE nodes[s]]
    BY <1>2, <1>4, Zenon
  <2>4. /\ Exact(nd2, x, count - n, capacity)
        /\ Held(nd2, x, count - n, capacity) = Held(nodes, x, count - n, capacity)
    BY <1>1, <2>2, <2>3, TakeExact
  <2> QED
    BY <2>1, <2>4
<1>6. /\ Held(nodes, x, Count - n, capacity) = SubSeq(Held(nodes, head, Count, capacity), n + 1, Count)
      /\ Held(nodes, head, n, capacity) = SubSeq(Held(nodes, head, Count, capacity), 1, n)
  <2>1. PICK count \in 0..capacity : count = Count
    BY <1>1
  <2>2. /\ x = Plus(head, n) /\ n \in 0..count /\ Fits(capacity)
        /\ head \in Indices /\ nodes \in Arrays(capacity)
    BY <1>1, <1>2, <1>3, <2>1, Zenon
  <2>3. SplitAt(nodes, head, count, n, capacity, x)
    BY <2>2, AfterTake, Zenon
  <2> QED
    BY <2>1, <2>3, Zenon DEF SplitAt
<1>7. RingType' /\ Count' = Count - n
  BY TakeTypes DEF RingInv
<1>8. /\ Contents' = Held(nodes', head', Count', capacity')
      /\ SlotsExact' <=> Exact(nodes', head', Count', capacity')
  BY DEF Contents, Held, SlotsExact, Exact, LiveSlots
<1> QED
  BY <1>2, <1>3, <1>4, <1>5, <1>6, <1>7, <1>8, ContentsType, RingParts, Zenon DEF RingInv

\* A new buffer satisfies the ring's invariant and is an empty deque.
LEMMA RingInit == Init => RingInv /\ Deque!Init
<1> SUFFICES ASSUME Init PROVE RingInv /\ Deque!Init
  OBVIOUS
<1>1. RingType
  BY InitInv, TypeOKParts DEF Inv
<1>2. Count = 0 /\ nodes = [s \in 0..(capacity - 1) |-> Nil] /\ capacity = InitialCapacity
  BY CapacityAssumption DEF Init, Count, Minus
<1>3. Reached(capacity)
  BY <1>2, CapacityAssumption, PowersOfTwoAssumption DEF Reached, Fits
<1>4. SlotsExact
  BY <1>2 DEF SlotsExact
<1>5. Contents = <<>>
  BY <1>2 DEF Contents
<1> QED
  BY <1>1, <1>3, <1>4, <1>5 DEF RingInv, Init, Deque!Init

\* Every step keeps the ring's invariant, and is a step of the deque or leaves the
\* deque as it is.
LEMMA RingStep ==
  ASSUME RingInv, [Next]_vars
  PROVE  RingInv' /\ [Deque!Next]_(Deque!dequeVars)
<1>1. Count \in Nat /\ (Count = 0 <=> Empty) /\ Len(Contents) = Count
  BY CountType, ContentsType, RingFacts DEF RingInv
<1>2. ASSUME UNCHANGED <<nodes, head, tail, capacity>>
      PROVE  RingInv' /\ Contents' = Contents
  BY <1>2 DEF RingInv, RingType, SlotsExact, Count, Contents
<1>3. ASSUME NEW n \in 1..Count, Take(n)
      PROVE  RingInv' /\ Deque!Next
  <2>1. /\ RingInv'
        /\ returned' = SubSeq(Contents, 1, n)
        /\ Contents' = SubSeq(Contents, n + 1, Len(Contents))
        /\ closed' = closed
    BY <1>3, TakeStep, Zenon DEF Take
  <2>2. n \in 1..Len(Contents) /\ Deque!Take(n)
    BY <1>1, <2>1 DEF Deque!Take
  <2> QED
    BY <2>1, <2>2 DEF Deque!Next
<1>4. ASSUME NEW m \in Messages, Push(m)
      PROVE  RingInv' /\ Deque!Next
  <2>1. RingInv' /\ Contents' = Deque!Pushed(Contents, m, MaxLen)
    BY <1>4, PushStep
  <2>2. Deque!Push(m)
    BY <1>4, <2>1 DEF Push, Deque!Push, MaxLen
  <2> QED
    BY <2>1, <2>2 DEF Deque!Next
<1>5. ASSUME NEW m \in Messages, PushFront(m)
      PROVE  RingInv' /\ Deque!Next
  <2>1. RingInv' /\ Contents' = Deque!PushedFront(Contents, m, MaxLen)
    BY <1>5, PushFrontStep
  <2>2. Deque!PushFront(m)
    BY <1>5, <2>1, Zenon DEF PushFront, Deque!PushFront, MaxLen
  <2> QED
    BY <2>1, <2>2, Zenon DEF Deque!Next
<1>6. CASE Pop
  <2>1. 1 \in 1..Count
    BY <1>1, <1>6 DEF Pop
  <2> QED
    BY <1>3, <1>6, <2>1, Zenon DEF Pop
<1>7. ASSUME NEW max \in 1..MaxCapacity, PopBatch(max)
      PROVE  RingInv' /\ Deque!Next
  <2> DEFINE n == IF max > Count THEN Count ELSE max
  <2>1. n \in 1..Count
    BY <1>1, <1>7, CapacityAssumption DEF PopBatch
  <2> QED
    BY <1>3, <1>7, <2>1, Zenon DEF PopBatch
<1>8. ASSUME NEW c, NEW late, Leave(c, late)
      PROVE  RingInv' /\ [Deque!Next]_(Deque!dequeVars)
  <2>1. CASE ~Empty /\ Take(1)
    <3>1. 1 \in 1..Count
      BY <1>1, <2>1
    <3> QED
      BY <1>3, <2>1, <3>1, Zenon
  <2>2. CASE UNCHANGED <<ringVars, returned>>
    BY <1>2, <2>2, Zenon DEF ringVars, Deque!dequeVars
  <2> QED
    BY <1>8, <2>1, <2>2, Zenon DEF Leave
<1>9. ASSUME UNCHANGED <<ringVars, returned>>
      PROVE  RingInv' /\ [Deque!Next]_(Deque!dequeVars)
  BY <1>2, <1>9, Zenon DEF ringVars, Deque!dequeVars
<1>10. ASSUME NEW c \in Consumers, NEW bounded \in BOOLEAN, PopWait(c, bounded)
       PROVE  RingInv' /\ [Deque!Next]_(Deque!dequeVars)
  BY <1>8, <1>9, <1>10, Zenon DEF PopWait, Sleep
<1>11. ASSUME NEW c \in Consumers, Resume(c)
       PROVE  RingInv' /\ [Deque!Next]_(Deque!dequeVars)
  BY <1>8, <1>9, <1>11 DEF Resume, Sleep
<1>12. ASSUME NEW c \in Consumers, DeadlinePasses(c) \/ TimerFires(c) \/ TimerBroadcasts(c)
       PROVE  RingInv' /\ [Deque!Next]_(Deque!dequeVars)
  BY <1>9, <1>12 DEF DeadlinePasses, TimerFires, TimerBroadcasts
<1>13. CASE Close
  <2>1. RingInv' /\ Contents' = Contents
    BY <1>2, <1>13, Zenon DEF Close
  <2>2. Deque!Close
    BY <1>13, <2>1, Zenon DEF Close, Deque!Close
  <2> QED
    BY <2>1, <2>2, Zenon DEF Deque!Next
<1>14. CASE UNCHANGED vars
  BY <1>9, <1>14, Zenon DEF vars
<1> QED
  BY <1>4, <1>5, <1>6, <1>7, <1>10, <1>11, <1>12, <1>13, <1>14 DEF Next

(***************************************************************************)
(* The slots from head to tail hold messages and all others are nil, so a  *)
(* pop returns no nil message and no slot retains a popped one, whatever   *)
(* indices wrap around, whenever the array grows or drops (ring.go).       *)
(***************************************************************************)
THEOREM SlotsAreExact == Spec => []SlotsExact
<1>1. RingInv => SlotsExact
  BY Zenon DEF RingInv
<1>2. RingInv /\ [Next]_vars => RingInv'
  BY RingStep, Zenon
<1> QED
  BY <1>1, <1>2, RingInit, PTL DEF Spec

(***************************************************************************)
(* The ring buffer is a bounded deque: its contents, read from head to     *)
(* tail, change as MessageDeque says under Push, PushFront and the pops,   *)
(* and every call returns what the deque would return (ring.go).           *)
(***************************************************************************)
THEOREM ImplementsDeque == Spec => RefinesDeque
<1>1. RingInv /\ [Next]_vars => RingInv' /\ [Deque!Next]_(Deque!dequeVars)
  BY RingStep, Zenon
<1> QED
  BY <1>1, RingInit, PTL DEF Spec, RefinesDeque, Deque!Spec
=============================================================================
