---------------------------- MODULE TimingWheel -----------------------------
(***************************************************************************)
(* The hashed timing wheel of a topic (internal/queue/timingwheel.go) and  *)
(* the ticker that drives it.  Time passes in units; the ticker fires      *)
(* every Interval units into a channel of capacity one, and the wheel's    *)
(* goroutine takes the tick when it is scheduled, which may be late.       *)
(*                                                                         *)
(* A bucket is the set of the messages in its linked list: the order in    *)
(* which one bucket's messages are dispatched is left open.  A message is  *)
(* in the wheel at most once (Topic!ExactlyOneHome).                       *)
(***************************************************************************)
EXTENDS Integers, FiniteSets

CONSTANTS
  Messages,
  Interval,     \* units between two ticks, 50 ms in the code
  Slots,        \* 3600 in the code
  MaxDelay      \* bound on the delay of a message, in units

ASSUME IntervalAssumption == Interval \in Nat \ {0}
ASSUME SlotsAssumption == Slots \in Nat \ {0}
ASSUME MaxDelayAssumption == MaxDelay \in Nat

VARIABLES
  buckets,      \* slot -> messages
  rounds,       \* message -> turns of the wheel left, while in a bucket
  currentSlot,
  closed,
  tick,         \* ticker.C holds a tick
  phase,        \* units since the ticker last fired
  running,      \* the goroutine of run has not returned
  expired,      \* taken off by advance, not yet passed to onExpire
  delay,        \* history: message -> the delay it was last added with
  advances,     \* history: message -> calls of advance since it was added
  age           \* history: message -> units since it was added

vars == <<buckets, rounds, currentSlot, closed, tick, phase, running, expired,
          delay, advances, age>>

SlotIDs == 0..(Slots - 1)
InWheel == UNION {buckets[s] : s \in SlotIDs}

\* The history of age is not followed past the longest delay.
MaxAge == MaxDelay + 1

Init ==
  /\ buckets = [s \in SlotIDs |-> {}]
  /\ rounds = [m \in Messages |-> 0]
  /\ currentSlot = 0
  /\ closed = FALSE
  /\ tick = FALSE
  /\ phase = 0
  /\ running = TRUE
  /\ expired = {}
  /\ delay = [m \in Messages |-> 0]
  /\ advances = [m \in Messages |-> 0]
  /\ age = [m \in Messages |-> 0]

\* Slip: rounded up to one interval too few.
TicksShort(d) == IF d \div Interval <= 1 THEN 1 ELSE d \div Interval - 1

\* The number of intervals in a delay, rounded down but at least one.
Ticks(d) == IF d \div Interval = 0 THEN 1 ELSE d \div Interval

\* Slip: the wheel's position is forgotten.
TargetSlotFromZero(d) == Ticks(d) % Slots

TargetSlot(d) == (currentSlot + (Ticks(d) % Slots)) % Slots

\* Slip: the next slot without wrapping.
NextSlotUnwrapped == currentSlot + 1

NextSlot == (currentSlot + 1) % Slots

\* Slip: an Add after Stop is accepted.
AddAfterStop(m, d) ==
  /\ m \notin InWheel \cup expired
  /\ rounds' = [rounds EXCEPT ![m] = Ticks(d) \div Slots]
  /\ buckets' = [buckets EXCEPT ![TargetSlot(d)] = @ \cup {m}]
  /\ delay' = [delay EXCEPT ![m] = d]
  /\ advances' = [advances EXCEPT ![m] = 0]
  /\ age' = [age EXCEPT ![m] = 0]
  /\ UNCHANGED <<currentSlot, closed, tick, phase, running, expired>>

\* Add with a positive delay.  (With none it calls onExpire in the caller.)
Add(m, d) ==
  /\ m \notin InWheel \cup expired
  /\ ~closed
  /\ rounds' = [rounds EXCEPT ![m] = Ticks(d) \div Slots]
  /\ buckets' = [buckets EXCEPT ![TargetSlot(d)] = @ \cup {m}]
  /\ delay' = [delay EXCEPT ![m] = d]
  /\ advances' = [advances EXCEPT ![m] = 0]
  /\ age' = [age EXCEPT ![m] = 0]
  /\ UNCHANGED <<currentSlot, closed, tick, phase, running, expired>>

\* Slip: an entry with one round left is taken off.
RipeEarly == {m \in buckets[currentSlot] : rounds[m] <= 1}

\* The entries of the current bucket that advance takes off ...
Ripe == {m \in buckets[currentSlot] : rounds[m] <= 0}

\* Slip: what is taken off stays in the list.
RemainingAll == buckets[currentSlot]

\* ... those it retains ...
Remaining == buckets[currentSlot] \ Ripe

\* ... and the rounds they have left.
CountedDown ==
  [m \in Messages |-> IF m \in Remaining THEN rounds[m] - 1 ELSE rounds[m]]

\* advance, in the goroutine of run, when it has taken a tick: the bucket of
\* the current slot, with tw.mu held ...
Advance ==
  /\ running
  /\ tick
  /\ expired = {}
  /\ tick' = FALSE
  /\ currentSlot' = NextSlot
  /\ expired' = Ripe
  /\ buckets' = [buckets EXCEPT ![currentSlot] = Remaining]
  /\ rounds' = CountedDown
  /\ advances' = [m \in Messages |-> IF m \in InWheel THEN advances[m] + 1
                                                      ELSE advances[m]]
  /\ UNCHANGED <<closed, phase, running, delay, age>>

\* ... and onExpire for each message, with tw.mu released.
Dispatch(m) ==
  /\ m \in expired
  /\ expired' = expired \ {m}
  /\ UNCHANGED <<buckets, rounds, currentSlot, closed, tick, phase, running,
                 delay, advances, age>>

\* Stop.  A tick that is in the channel may still be taken before quit is.
Stop ==
  /\ closed' = TRUE
  /\ UNCHANGED <<buckets, rounds, currentSlot, tick, phase, running, expired,
                 delay, advances, age>>

\* Slip: the loop of run is left although nobody has stopped the wheel.
QuitUnasked ==
  /\ running
  /\ expired = {}
  /\ running' = FALSE
  /\ UNCHANGED <<buckets, rounds, currentSlot, closed, tick, phase, expired,
                 delay, advances, age>>

\* run takes quit and returns.
Quit ==
  /\ closed
  /\ running
  /\ expired = {}
  /\ running' = FALSE
  /\ UNCHANGED <<buckets, rounds, currentSlot, closed, tick, phase, expired,
                 delay, advances, age>>

\* One unit passes.  The ticker drops a tick that finds the channel full.
TimePasses ==
  /\ age' = [m \in Messages |->
               IF m \in InWheel /\ age[m] < MaxAge THEN age[m] + 1 ELSE age[m]]
  /\ phase' = (phase + 1) % Interval
  /\ tick' = (tick \/ (~closed /\ phase' = 0))
  /\ UNCHANGED <<buckets, rounds, currentSlot, closed, running, expired, delay,
                 advances>>

Next ==
  \/ \E m \in Messages : \/ \E d \in 1..MaxDelay : Add(m, d)
                         \/ Dispatch(m)
  \/ Advance
  \/ Stop
  \/ Quit
  \/ TimePasses

Spec == Init /\ [][Next]_vars

\* Time passes, and the wheel's goroutine is scheduled again and again.
Fairness ==
  /\ WF_vars(TimePasses)
  /\ WF_vars(Advance)
  /\ WF_vars(Quit)
  /\ \A m \in Messages : WF_vars(Dispatch(m))

FairSpec == Spec /\ Fairness

-----------------------------------------------------------------------------
(* Properties.                                                             *)

\* Type invariant: slots and rounds stay in range, through every wrap of
\* currentSlot.
TypeOK ==
  /\ buckets \in [SlotIDs -> SUBSET Messages]
  /\ rounds \in [Messages -> Nat]
  /\ currentSlot \in SlotIDs
  /\ closed \in BOOLEAN
  /\ tick \in BOOLEAN
  /\ phase \in 0..(Interval - 1)
  /\ running \in BOOLEAN
  /\ expired \subseteq Messages
  /\ delay \in [Messages -> 0..MaxDelay]
  /\ advances \in [Messages -> Nat]
  /\ age \in [Messages -> 0..MaxAge]

\* How many calls of advance lie before the one that visits slot s.
Distance(s) == IF s >= currentSlot THEN s - currentSlot ELSE s - currentSlot + Slots

(***************************************************************************)
(* Slot and rounds together count down exactly: an entry has as many calls *)
(* of advance before it as Add computed, less those that have happened,    *)
(* wherever the wheel stood when it was added and however often it wraps.  *)
(***************************************************************************)
ExactCountdown ==
  \A s \in SlotIDs : \A m \in buckets[s] :
    rounds[m] * Slots + Distance(s) + advances[m] = Ticks(delay[m])

(***************************************************************************)
(* A message is in one bucket at most, and not in it any more once advance *)
(* has taken it off: it is dispatched once for each Add.                   *)
(***************************************************************************)
NoDoubleEntry ==
  /\ \A s, t \in SlotIDs : s # t => buckets[s] \cap buckets[t] = {}
  /\ InWheel \cap expired = {}

(***************************************************************************)
(* advance takes a message off on exactly the (Ticks + 1)-th call: neither *)
(* a round early nor a round late.                                         *)
(***************************************************************************)
ExpiresOnItsTick ==
  \A m \in expired : advances[m] = Ticks(delay[m]) + 1

(***************************************************************************)
(* However late the goroutine takes its ticks, a message is less than two  *)
(* intervals early: one is lost to rounding the delay down, one to a tick  *)
(* that was already in the channel.                                        *)
(***************************************************************************)
EarlyByLessThanTwoIntervals ==
  \A m \in expired : age[m] + 2 * Interval > delay[m]

(***************************************************************************)
(* "Add schedules a message to be executed after the specified delay"      *)
(* (timingwheel.go): no message is dispatched before its delay is over.    *)
(***************************************************************************)
NeverEarly == \A m \in expired : age[m] >= delay[m]

\* Every message that is added is taken off and handed over in the end, for
\* any delay, unless the wheel is stopped.
EveryEntryExpires ==
  \A m \in Messages : m \in InWheel \cup expired ~> m \notin InWheel \cup expired \/ closed

\* The wheel is the delay queue that a topic relies on.
Delays == INSTANCE DelayQueue WITH scheduled <- InWheel, due <- expired, stopped <- closed

RefinesDelayQueue == Delays!Spec
=============================================================================
