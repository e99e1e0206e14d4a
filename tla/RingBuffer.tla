----------------------------- MODULE RingBuffer -----------------------------
(***************************************************************************)
(* The circular buffer behind every topic (internal/queue/ring.go): a      *)
(* power-of-two array of slots addressed by two free-running uint64        *)
(* indices, a mutex and one condition variable on which consumers sleep.   *)
(*                                                                         *)
(* Every method holds rb.mu from its first line to its last, so a call is  *)
(* one action.  The exception is PopWait: cond.Wait gives the mutex up, so *)
(* a call that has to sleep is an action PopWait (the call, up to Wait)    *)
(* and an action Resume for every time the consumer gets the mutex back.   *)
(***************************************************************************)
EXTENDS Integers, FiniteSets, Sequences

CONSTANTS
  Messages,       \* *Message pointers
  Nil,            \* the nil pointer of an empty slot
  Consumers,      \* goroutines that call PopWait
  Requested,      \* the argument of NewRingBuffer
  MinCapacity,    \* 1024 in the code
  MaxCapacity,    \* 16777216 in the code: no growth from here on
  Modulus         \* 2^64 in the code: the range of head and tail

\* The least power of two that is at least n.
RoundUp(n) ==
  LET k == CHOOSE k \in 0..n : 2^k >= n /\ \A j \in 0..(k - 1) : 2^j < n
  IN  2^k

InitialCapacity ==
  IF RoundUp(Requested) < MinCapacity THEN MinCapacity ELSE RoundUp(Requested)

ASSUME NilAssumption == Nil \notin Messages
ASSUME ConsumersAssumption == IsFiniteSet(Consumers)
ASSUME CapacityAssumption ==
  /\ MaxCapacity \in Nat
  /\ Modulus \in Nat
  /\ InitialCapacity \in Nat \ {0}
  /\ InitialCapacity < Modulus
  /\ 2 * MaxCapacity <= Modulus

\* The capacities, MaxCapacity and Modulus are powers of two: a slot stays the
\* same when an index wraps around, and doubling a capacity meets MaxCapacity.
ASSUME PowersOfTwoAssumption ==
  /\ Modulus % InitialCapacity = 0
  /\ InitialCapacity < MaxCapacity => MaxCapacity % InitialCapacity = 0
  /\ \A n \in {MaxCapacity, Modulus} :
       \A c \in 1..(n - 1) : n % c = 0 => n % (2 * c) = 0

VARIABLES
  nodes,      \* the slots
  head,       \* index of the oldest message
  tail,       \* index after the newest message
  capacity,   \* number of slots
  closed,
  waiting,    \* where a consumer is in PopWait
  timed,      \* its timeout is not 0
  expired,    \* the deadline of its call has passed
  armed,      \* consumers whose time.AfterFunc timer is running
  fired,      \* consumers whose timer has fired and waits for rb.mu
  returned    \* what the latest call that returned messages returned

ringVars == <<nodes, head, tail, capacity, closed>>
waitVars == <<waiting, timed, expired, armed, fired>>
vars == <<ringVars, waitVars, returned>>

-----------------------------------------------------------------------------
(* uint64 arithmetic on the indices, and the slot an index denotes.        *)

Inc(x) == IF x = Modulus - 1 THEN 0 ELSE x + 1

Dec(x) == IF x = 0 THEN Modulus - 1 ELSE x - 1

\* x + k for k < Modulus.
Plus(x, k) == IF x + k < Modulus THEN x + k ELSE x + k - Modulus

\* tail - head, where tail may have wrapped around and head not yet.
Minus(x, y) == IF x >= y THEN x - y ELSE x + Modulus - y

\* x & mask: mask = capacity - 1 and capacity is a power of two.
Slot(x, cap) == x % cap

Count == Minus(tail, head)
Empty == head = tail

\* The messages held, oldest first.
Contents == [i \in 1..Count |-> nodes[Slot(Plus(head, i - 1), capacity)]]

Asleep == {c \in Consumers : waiting[c] = "asleep"}
Notified == {c \in Consumers : waiting[c] = "notified"}

-----------------------------------------------------------------------------
Init ==
  /\ capacity = InitialCapacity
  /\ nodes = [s \in 0..(capacity - 1) |-> Nil]
  /\ head = 0
  /\ tail = 0
  /\ closed = FALSE
  /\ waiting = [c \in Consumers |-> "no"]
  /\ timed = [c \in Consumers |-> FALSE]
  /\ expired = [c \in Consumers |-> FALSE]
  /\ armed = {}
  /\ fired = {}
  /\ returned = <<>>

\* Slip: signal only the first message of a burst.
SignalIfEmpty ==
  \/ /\ Asleep = {} \/ ~Empty
     /\ UNCHANGED waiting
  \/ /\ Empty
     /\ \E c \in Asleep : waiting' = [waiting EXCEPT ![c] = "notified"]

\* cond.Signal wakes one sleeper, if there is one.
Signal ==
  \/ /\ Asleep = {}
     /\ UNCHANGED waiting
  \/ \E c \in Asleep : waiting' = [waiting EXCEPT ![c] = "notified"]

\* cond.Broadcast wakes them all.
Broadcast ==
  waiting' = [c \in Consumers |->
                IF waiting[c] = "asleep" THEN "notified" ELSE waiting[c]]

\* Slip: copy the array as it lies, not from head on.
GrownUnrotated ==
  [nodes |-> [s \in 0..(2 * capacity - 1) |-> IF s < Count THEN nodes[s] ELSE Nil],
   head |-> 0,
   tail |-> Count,
   capacity |-> 2 * capacity]

\* The ring after grow(), as a record of the fields it assigns.
Grown ==
  [nodes |-> [s \in 0..(2 * capacity - 1) |->
                IF s < Count THEN nodes[Slot(Plus(head, s), capacity)]
                             ELSE Nil],
   head |-> 0,
   tail |-> Count,
   capacity |-> 2 * capacity]

Current ==
  [nodes |-> nodes, head |-> head, tail |-> tail, capacity |-> capacity]

\* Slip: > instead of >= in the test for a full ring.
RoomAtTailTooLate ==
  IF Count <= capacity THEN Current
  ELSE IF capacity >= MaxCapacity THEN [Current EXCEPT !.head = Inc(head)]
  ELSE Grown

\* Push makes room by growing or, at the maximal capacity, by dropping the
\* oldest message.
RoomAtTail ==
  IF Count < capacity THEN Current
  ELSE IF capacity >= MaxCapacity THEN [Current EXCEPT !.head = Inc(head)]
  ELSE Grown

\* PushFront drops the newest message instead.
RoomAtHead ==
  IF Count < capacity THEN Current
  ELSE IF capacity >= MaxCapacity THEN [Current EXCEPT !.tail = Dec(tail)]
  ELSE Grown

Push(m) ==
  /\ ~closed
  /\ LET r == RoomAtTail
     IN  /\ nodes' = [r.nodes EXCEPT ![Slot(r.tail, r.capacity)] = m]
         /\ head' = r.head
         /\ tail' = Inc(r.tail)
         /\ capacity' = r.capacity
  /\ Signal
  /\ UNCHANGED <<closed, timed, expired, armed, fired, returned>>

PushFront(m) ==
  /\ ~closed
  /\ LET r == RoomAtHead
         h == Dec(r.head)
     IN  /\ nodes' = [r.nodes EXCEPT ![Slot(h, r.capacity)] = m]
         /\ head' = h
         /\ tail' = r.tail
         /\ capacity' = r.capacity
  /\ Signal
  /\ UNCHANGED <<closed, timed, expired, armed, fired, returned>>

\* Slip: the slots keep their messages.
TakeWithoutClearing(n) ==
  /\ returned' = [i \in 1..n |-> nodes[Slot(Plus(head, i - 1), capacity)]]
  /\ head' = Plus(head, n)
  /\ UNCHANGED <<nodes, tail, capacity, closed>>

\* Take n > 0 messages off the head, clearing their slots.
Take(n) ==
  /\ returned' = [i \in 1..n |-> nodes[Slot(Plus(head, i - 1), capacity)]]
  /\ nodes' = [s \in 0..(capacity - 1) |->
                 IF \E i \in 0..(n - 1) : s = Slot(Plus(head, i), capacity)
                 THEN Nil ELSE nodes[s]]
  /\ head' = Plus(head, n)
  /\ UNCHANGED <<tail, capacity, closed>>

Pop ==
  /\ ~Empty
  /\ Take(1)
  /\ UNCHANGED waitVars

PopBatch(max) ==
  /\ max > 0
  /\ ~Empty
  /\ Take(IF max > Count THEN Count ELSE max)
  /\ UNCHANGED waitVars

-----------------------------------------------------------------------------
(* PopWait.  Leave and Sleep are the two ways on for a consumer that holds *)
(* rb.mu at the loop test; late says that its deadline has passed.         *)

\* Return the oldest message, or nothing because the ring is closed or the
\* deadline has passed.
Leave(c, late) ==
  /\ \/ /\ ~Empty
        /\ Take(1)
     \/ /\ Empty
        /\ closed \/ late
        /\ UNCHANGED <<ringVars, returned>>
  /\ waiting' = [waiting EXCEPT ![c] = "no"]
  /\ timed' = [timed EXCEPT ![c] = FALSE]
  /\ expired' = [expired EXCEPT ![c] = FALSE]
  /\ armed' = armed \ {c}

\* Slip: a bounded wait without a timer.
SleepWithoutTimer(c, bounded, late) ==
  /\ Empty
  /\ ~closed
  /\ ~late
  /\ waiting' = [waiting EXCEPT ![c] = "asleep"]
  /\ timed' = [timed EXCEPT ![c] = bounded]
  /\ UNCHANGED <<ringVars, expired, armed, returned>>

\* cond.Wait, with a timer started first when the wait is bounded.
Sleep(c, bounded, late) ==
  /\ Empty
  /\ ~closed
  /\ ~late
  /\ waiting' = [waiting EXCEPT ![c] = "asleep"]
  /\ timed' = [timed EXCEPT ![c] = bounded]
  /\ armed' = IF bounded THEN armed \cup {c} ELSE armed
  /\ UNCHANGED <<ringVars, expired, returned>>

\* The call.  One with a deadline already passed, on an empty ring, returns
\* at once and changes nothing.
PopWait(c, bounded) ==
  /\ waiting[c] = "no"
  /\ Leave(c, FALSE) \/ Sleep(c, bounded, FALSE)
  /\ UNCHANGED fired

\* Wait returns with rb.mu held; timer.Stop comes before the loop test.
Resume(c) ==
  /\ waiting[c] = "notified"
  /\ \/ Leave(c, timed[c] /\ expired[c])
     \/ Sleep(c, timed[c], timed[c] /\ expired[c])
  /\ UNCHANGED fired

\* Time reaches the deadline of a bounded call that has not returned.
DeadlinePasses(c) ==
  /\ waiting[c] # "no"
  /\ timed[c]
  /\ ~expired[c]
  /\ expired' = [expired EXCEPT ![c] = TRUE]
  /\ UNCHANGED <<ringVars, waiting, timed, armed, fired, returned>>

\* The timer's goroutine starts.  From here timer.Stop comes too late: the
\* broadcast will happen even if the call returns first.
TimerFires(c) ==
  /\ c \in armed \ fired
  /\ expired[c]
  /\ armed' = armed \ {c}
  /\ fired' = fired \cup {c}
  /\ UNCHANGED <<ringVars, waiting, timed, expired, returned>>

\* It gets rb.mu and broadcasts.
TimerBroadcasts(c) ==
  /\ c \in fired
  /\ fired' = fired \ {c}
  /\ Broadcast
  /\ UNCHANGED <<ringVars, timed, expired, armed, returned>>

\* Slip: Signal instead of Broadcast.
CloseWakesOne ==
  /\ closed' = TRUE
  /\ Signal
  /\ UNCHANGED <<nodes, head, tail, capacity, timed, expired, armed, fired,
                 returned>>

Close ==
  /\ closed' = TRUE
  /\ Broadcast
  /\ UNCHANGED <<nodes, head, tail, capacity, timed, expired, armed, fired,
                 returned>>

-----------------------------------------------------------------------------
Next ==
  \/ \E m \in Messages : Push(m) \/ PushFront(m)
  \/ Pop
  \/ \E max \in 1..MaxCapacity : PopBatch(max)
  \/ \E c \in Consumers :
       \/ \E bounded \in BOOLEAN : PopWait(c, bounded)
       \/ Resume(c)
       \/ DeadlinePasses(c)
       \/ TimerFires(c)
       \/ TimerBroadcasts(c)
  \/ Close

Spec == Init /\ [][Next]_vars

(***************************************************************************)
(* A goroutine that can run eventually runs, a mutex is granted to whoever *)
(* waits for it, time passes and timers fire.  Nothing is assumed of       *)
(* producers, of new calls, or of Close.                                   *)
(***************************************************************************)
Fairness ==
  \A c \in Consumers :
    /\ WF_vars(Resume(c))
    /\ WF_vars(DeadlinePasses(c))
    /\ WF_vars(TimerFires(c))
    /\ WF_vars(TimerBroadcasts(c))

FairSpec == Spec /\ Fairness

-----------------------------------------------------------------------------
(* Properties.                                                             *)

\* Type invariant: the indices stay in the range of uint64, the capacity in
\* the range where the indices can tell a full ring from an empty one, and the
\* ring never holds more messages than slots.
TypeOK ==
  /\ capacity \in 1..(Modulus - 1)
  /\ nodes \in [0..(capacity - 1) -> Messages \cup {Nil}]
  /\ head \in 0..(Modulus - 1)
  /\ tail \in 0..(Modulus - 1)
  /\ Count <= capacity
  /\ closed \in BOOLEAN
  /\ waiting \in [Consumers -> {"no", "asleep", "notified"}]
  /\ timed \in [Consumers -> BOOLEAN]
  /\ expired \in [Consumers -> BOOLEAN]
  /\ armed \subseteq Consumers
  /\ fired \subseteq Consumers

(***************************************************************************)
(* The slots between head and tail hold messages and all others are nil:   *)
(* a pop never returns a nil message, and a popped message is not retained *)
(* by its slot ("Avoid memory retention", ring.go:113), across wrap-around *)
(* of either index, growth, and drops at the maximal capacity.             *)
(***************************************************************************)
SlotsExact ==
  LET live == {Slot(Plus(head, i), capacity) : i \in 0..(Count - 1)}
  IN  \A s \in 0..(capacity - 1) : (nodes[s] # Nil) <=> (s \in live)

(***************************************************************************)
(* Signal wakes one sleeper per message, and sleepers are only joined when *)
(* the ring is empty: as long as somebody sleeps, every message in the     *)
(* ring has a consumer that is already on its way to it.  No wake-up is    *)
(* lost to a consumer that times out, or to one that finds the ring        *)
(* emptied by somebody else and goes back to sleep.                        *)
(***************************************************************************)
NoLostWakeup ==
  Asleep # {} => Cardinality(Notified) >= Count

(***************************************************************************)
(* A bounded PopWait returns, whatever the other goroutines do: its timer  *)
(* cannot broadcast before the consumer is asleep.                         *)
(***************************************************************************)
BoundedWaitReturns ==
  \A c \in Consumers : (waiting[c] # "no" /\ timed[c]) ~> (waiting[c] = "no")

(***************************************************************************)
(* Messages and waiting consumers do not coexist for ever.                 *)
(***************************************************************************)
WaitersAreServed ==
  (~Empty /\ Asleep \cup Notified # {}) ~> (Empty \/ Asleep \cup Notified = {})

(***************************************************************************)
(* Close releases every consumer inside PopWait, unbounded waits included  *)
(* ("blocks indefinitely until a message arrives or buffer is closed",     *)
(* ring.go:120): broker shutdown depends on it.                            *)
(***************************************************************************)
CloseReleases ==
  \A c \in Consumers : (closed /\ waiting[c] # "no") ~> (waiting[c] = "no")

(***************************************************************************)
(* The ring is a deque: the messages come out in the order the deque would *)
(* give them, whatever the indices and the array do.                       *)
(***************************************************************************)
Deque == INSTANCE MessageDeque WITH
  queue <- Contents,
  MaxLen <- IF InitialCapacity > MaxCapacity THEN InitialCapacity
                                             ELSE MaxCapacity

RefinesDeque == Deque!Spec
=============================================================================
