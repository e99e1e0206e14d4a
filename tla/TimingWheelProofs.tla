------------------------- MODULE TimingWheelProofs --------------------------
(***************************************************************************)
(* The timing wheel counts down exactly, is early by less than two         *)
(* intervals and implements DelayQueue, for any number of slots, any tick  *)
(* interval, any delays and any number of messages.                        *)
(***************************************************************************)
EXTENDS TimingWheel, TLAPS

\* The time of a leaf that names no prover.
USE SMTT(30)

USE IntervalAssumption, SlotsAssumption, MaxDelayAssumption

\* The inductive invariant.  ExactCountdown needs NoDoubleEntry, because the
\* rounds of a message in two buckets would be counted down twice a turn, and
\* ExpiresOnItsTick follows from ExactCountdown when advance finds rounds 0.
Inv == TypeOK /\ NoDoubleEntry /\ ExactCountdown /\ ExpiresOnItsTick

\* A remainder by Slots is a slot.
LEMMA RemainderIsSlot ==
  ASSUME NEW n \in Nat
  PROVE  n % Slots \in SlotIDs
BY DEF SlotIDs

\* The ticks of a positive delay, split by Add into turns and a distance.
LEMMA TicksSplit ==
  ASSUME NEW t \in Nat
  PROVE  /\ t \div Slots \in Nat
         /\ t % Slots \in 0..(Slots - 1)
         /\ (t \div Slots) * Slots + (t % Slots) = t
OBVIOUS

\* One call of advance on: an entry elsewhere comes one slot nearer (p stands
\* for its rounds times Slots) ...
LEMMA OneNearer ==
  ASSUME NEW p \in Int, NEW dist \in Int, NEW a \in Int, NEW t,
         p + dist + a = t
  PROVE  p + (dist - 1) + (a + 1) = t
OBVIOUS

\* ... and one in the current slot trades a round for a full turn.
LEMMA OneRoundLess ==
  ASSUME NEW r \in Int, NEW a \in Int, NEW t, r * Slots + 0 + a = t
  PROVE  (r - 1) * Slots + (Slots - 1) + (a + 1) = t
<1>1. (r - 1) * Slots = r * Slots - Slots /\ r * Slots \in Int
  OBVIOUS
<1> QED
  BY <1>1

\* Going k slots on from slot c, with at most one wrap.
LEMMA SlotAfter ==
  ASSUME NEW c \in SlotIDs, NEW k \in SlotIDs
  PROVE  (c + k) % Slots = IF c + k < Slots THEN c + k ELSE c + k - Slots
BY DEF SlotIDs

\* Add rounds every delay to at least one tick.
LEMMA TicksType ==
  ASSUME NEW d \in Nat
  PROVE  Ticks(d) \in Nat \ {0}
BY DEF Ticks

\* Where Add puts an entry is its distance from the current slot.
LEMMA TargetDistance ==
  ASSUME currentSlot \in SlotIDs, NEW d \in Nat
  PROVE  /\ TargetSlot(d) \in SlotIDs
         /\ Distance(TargetSlot(d)) = Ticks(d) % Slots
<1>1. Ticks(d) % Slots \in SlotIDs
  BY TicksType, RemainderIsSlot
<1>2. TargetSlot(d) = IF currentSlot + (Ticks(d) % Slots) < Slots
                      THEN currentSlot + (Ticks(d) % Slots)
                      ELSE currentSlot + (Ticks(d) % Slots) - Slots
  BY <1>1, SlotAfter DEF TargetSlot
<1> QED
  BY <1>1, <1>2 DEF SlotIDs, Distance

-----------------------------------------------------------------------------
\* The wheel is empty at first.
LEMMA InitInv == Init => Inv
<1> SUFFICES ASSUME Init
             PROVE  Inv
  OBVIOUS
<1>1. TypeOK
  <2>1. buckets \in [SlotIDs -> SUBSET Messages] /\ expired \subseteq Messages
    BY DEF Init
  <2>2. currentSlot \in SlotIDs /\ phase \in 0..(Interval - 1)
    BY DEF Init, SlotIDs
  <2>3. rounds \in [Messages -> Nat] /\ advances \in [Messages -> Nat]
    BY DEF Init
  <2>4. delay \in [Messages -> 0..MaxDelay] /\ age \in [Messages -> 0..MaxAge]
    BY DEF Init, MaxAge
  <2>5. closed \in BOOLEAN /\ tick \in BOOLEAN /\ running \in BOOLEAN
    BY Zenon DEF Init
  <2> QED
    BY <2>1, <2>2, <2>3, <2>4, <2>5 DEF TypeOK
<1>2. NoDoubleEntry
  BY DEF Init, NoDoubleEntry, InWheel
<1>3. ExactCountdown /\ ExpiresOnItsTick
  BY DEF Init, ExactCountdown, ExpiresOnItsTick
<1> QED
  BY <1>1, <1>2, <1>3 DEF Inv

\* Add: the new entry has all its ticks before it; no other is disturbed.
LEMMA AddInv ==
  ASSUME Inv, NEW m \in Messages, NEW d \in 1..MaxDelay, Add(m, d)
  PROVE  Inv'
<1> DEFINE t == TargetSlot(d)
<1>1. d \in Nat /\ d \in 0..MaxDelay
  OBVIOUS
<1>2. t \in SlotIDs /\ Distance(t) = Ticks(d) % Slots
  BY <1>1, TargetDistance DEF Inv, TypeOK
<1>3. /\ Ticks(d) \div Slots \in Nat
      /\ (Ticks(d) \div Slots) * Slots + (Ticks(d) % Slots) = Ticks(d)
      /\ Ticks(d) % Slots \in 0..(Slots - 1)
  BY <1>1, TicksType, TicksSplit, Zenon
<1> HIDE DEF t
<1>4. /\ buckets' = [buckets EXCEPT ![t] = @ \cup {m}]
      /\ m \notin expired
      /\ \A s \in SlotIDs : m \notin buckets[s]
  BY DEF Add, InWheel, t
<1>5. TypeOK'
  BY <1>1, <1>2, <1>3, <1>4 DEF Inv, TypeOK, Add, MaxAge
<1>6. \A s \in SlotIDs : buckets'[s] = IF s = t THEN buckets[s] \cup {m} ELSE buckets[s]
  BY <1>4, Zenon DEF Inv, TypeOK
<1>7. NoDoubleEntry'
  BY <1>4, <1>6 DEF Inv, NoDoubleEntry, InWheel, Add
<1>8. ExactCountdown'
  <2> SUFFICES ASSUME NEW s \in SlotIDs, NEW x \in buckets'[s]
               PROVE  rounds'[x] * Slots + Distance(s) + advances'[x] = Ticks(delay'[x])
    BY DEF ExactCountdown, Distance, Add, Ticks
  <2>1. CASE x = m
    <3>1. s = t
      BY <1>4, <1>6, <2>1
    <3>2. rounds'[x] = Ticks(d) \div Slots /\ advances'[x] = 0 /\ delay'[x] = d
      BY <2>1 DEF Add, Inv, TypeOK
    <3> QED
      BY <1>2, <1>3, <3>1, <3>2
  <2>2. CASE x # m
    <3>1. x \in buckets[s] /\ x \in Messages
      BY <1>6, <2>2, Zenon DEF Inv, TypeOK
    <3>2. rounds'[x] = rounds[x] /\ advances'[x] = advances[x] /\ delay'[x] = delay[x]
      BY <2>2, <3>1 DEF Add, Inv, TypeOK
    <3> QED
      BY <3>1, <3>2 DEF Inv, ExactCountdown
  <2> QED
    BY <2>1, <2>2
<1>9. ExpiresOnItsTick'
  BY <1>4 DEF Inv, TypeOK, ExpiresOnItsTick, Add, Ticks
<1> QED
  BY <1>5, <1>7, <1>8, <1>9 DEF Inv

\* advance: every other bucket comes one nearer; a ripe entry has used its
\* ticks; an unripe one trades a round for the longest distance.
LEMMA AdvanceInv ==
  ASSUME Inv, Advance
  PROVE  Inv'
<1> DEFINE c == currentSlot
           ripe == Ripe
<1>1. /\ c \in SlotIDs /\ buckets[c] \subseteq Messages
      /\ ripe \subseteq buckets[c]
      /\ \A m \in buckets[c] : m \in ripe <=> rounds[m] <= 0
      /\ Remaining = buckets[c] \ ripe
  BY DEF Inv, TypeOK, Ripe, Remaining
<1>2. /\ currentSlot' = IF c + 1 < Slots THEN c + 1 ELSE 0
      /\ currentSlot' \in SlotIDs
  BY <1>1 DEF Advance, NextSlot, SlotIDs
<1>3. /\ expired' = ripe
      /\ \A s \in SlotIDs : buckets'[s] = IF s = c THEN buckets[s] \ ripe ELSE buckets[s]
  BY <1>1, Zenon DEF Advance, Inv, TypeOK
<1>4. \A m \in Messages :
        rounds'[m] = IF m \in buckets[c] \ ripe THEN rounds[m] - 1 ELSE rounds[m]
  BY <1>1 DEF Advance, CountedDown
<1>5. \A s \in SlotIDs : \A m \in buckets[s] :
        m \in Messages /\ advances'[m] = advances[m] + 1 /\ delay'[m] = delay[m]
  BY DEF Advance, InWheel, Inv, TypeOK
<1>6. TypeOK'
  <2>1. buckets' \in [SlotIDs -> SUBSET Messages] /\ expired' \subseteq Messages
    BY <1>1 DEF Advance, Inv, TypeOK
  <2>2. rounds' \in [Messages -> Nat]
    BY <1>1 DEF Advance, CountedDown, Inv, TypeOK
  <2>3. advances' \in [Messages -> Nat]
    BY DEF Advance, Inv, TypeOK
  <2> QED
    BY <1>2, <2>1, <2>2, <2>3, Zenon DEF Advance, Inv, TypeOK, MaxAge
<1>7. NoDoubleEntry'
  <2>1. \A s, t \in SlotIDs : s # t => buckets'[s] \cap buckets'[t] = {}
    BY <1>3, Zenon DEF Inv, NoDoubleEntry
  <2>2. \A s \in SlotIDs : buckets'[s] \cap ripe = {}
    BY <1>1, <1>3, Zenon DEF Inv, NoDoubleEntry
  <2> QED
    BY <1>3, <2>1, <2>2 DEF NoDoubleEntry, InWheel
<1>8. ExactCountdown'
  <2> SUFFICES ASSUME NEW s \in SlotIDs, NEW m \in buckets'[s]
               PROVE  rounds'[m] * Slots + Distance(s)' + advances'[m] = Ticks(delay'[m])
    BY DEF ExactCountdown, Ticks, Distance
  <2>1. m \in buckets[s] /\ m \in Messages
    BY <1>3, <1>5, Zenon
  <2>2. /\ rounds[m] * Slots + Distance(s) + advances[m] = Ticks(delay[m])
        /\ rounds[m] \in Nat /\ advances[m] \in Nat
    BY <2>1 DEF Inv, ExactCountdown, TypeOK
  <2>3. advances'[m] = advances[m] + 1 /\ delay'[m] = delay[m]
    BY <1>5, <2>1
  <2>4. CASE s = c
    <3>1. rounds'[m] = rounds[m] - 1
      BY <1>3, <1>4, <2>1, <2>4, Zenon
    <3>2. Distance(s) = 0 /\ Distance(s)' = Slots - 1
      BY <1>1, <1>2, <2>4 DEF Distance, SlotIDs
    <3>3. (rounds[m] - 1) * Slots + (Slots - 1) + (advances[m] + 1) = Ticks(delay[m])
      <4>1. rounds[m] * Slots + 0 + advances[m] = Ticks(delay[m])
        BY <2>2, <3>2
      <4> QED
        BY <2>2, <4>1, OneRoundLess
    <3> QED
      BY <2>3, <3>1, <3>2, <3>3
  <2>5. CASE s # c
    <3>1. m \notin buckets[c]
      BY <1>1, <2>1, <2>5 DEF Inv, NoDoubleEntry
    <3>2. rounds'[m] = rounds[m]
      BY <1>4, <2>1, <3>1
    <3>3. Distance(s)' = Distance(s) - 1 /\ Distance(s) \in Int
      BY <1>1, <1>2, <2>5 DEF Distance, SlotIDs
    <3>4. rounds[m] * Slots \in Int
      BY <2>2
    <3>5. rounds[m] * Slots + (Distance(s) - 1) + (advances[m] + 1) = Ticks(delay[m])
      BY <2>2, <3>3, <3>4, OneNearer
    <3> QED
      BY <2>3, <3>2, <3>3, <3>5
  <2> QED
    BY <2>4, <2>5
<1>9. ExpiresOnItsTick'
  <2> SUFFICES ASSUME NEW m \in ripe
               PROVE  advances'[m] = Ticks(delay'[m]) + 1
    BY <1>3, Zenon DEF ExpiresOnItsTick, Ticks
  <2>1. m \in buckets[c] /\ m \in Messages /\ rounds[m] = 0
    BY <1>1 DEF Inv, TypeOK
  <2>2. Distance(c) = 0
    BY <1>1 DEF Distance, SlotIDs
  <2>3. 0 * Slots + 0 + advances[m] = Ticks(delay[m])
    BY <1>1, <2>1, <2>2, Zenon DEF Inv, ExactCountdown
  <2>4. advances[m] \in Nat
    BY <2>1 DEF Inv, TypeOK
  <2> QED
    BY <1>1, <1>5, <2>1, <2>3, <2>4
<1> QED
  BY <1>6, <1>7, <1>8, <1>9 DEF Inv

\* Every step preserves the invariant.
LEMMA StepInv == Inv /\ [Next]_vars => Inv'
<1> SUFFICES ASSUME Inv, [Next]_vars
             PROVE  Inv'
  OBVIOUS
<1>1. ASSUME NEW m \in Messages, NEW d \in 1..MaxDelay, Add(m, d)
      PROVE  Inv'
  BY <1>1, AddInv, Zenon
<1>2. ASSUME NEW m \in Messages, Dispatch(m)
      PROVE  Inv'
  BY <1>2 DEF Dispatch, Inv, TypeOK, NoDoubleEntry, InWheel, ExactCountdown,
              Distance, Ticks, ExpiresOnItsTick, MaxAge
<1>3. CASE Advance
  BY <1>3, AdvanceInv, Zenon
<1>4. CASE Stop
  BY <1>4 DEF Stop, Inv, TypeOK, NoDoubleEntry, InWheel, ExactCountdown,
              Distance, Ticks, ExpiresOnItsTick, MaxAge
<1>5. CASE Quit
  BY <1>5, Zenon DEF Quit, Inv, TypeOK, NoDoubleEntry, InWheel, ExactCountdown,
              Distance, Ticks, ExpiresOnItsTick, MaxAge
<1>6. CASE TimePasses
  <2>1. TypeOK'
    BY <1>6 DEF TimePasses, Inv, TypeOK, MaxAge
  <2>2. (NoDoubleEntry /\ ExactCountdown /\ ExpiresOnItsTick)'
    BY <1>6 DEF TimePasses, Inv, NoDoubleEntry, InWheel, ExactCountdown, Distance,
                Ticks, ExpiresOnItsTick
  <2> QED
    BY <2>1, <2>2 DEF Inv
<1>7. CASE UNCHANGED vars
  BY <1>7 DEF vars, Inv, TypeOK, NoDoubleEntry, InWheel, ExactCountdown,
              Distance, Ticks, ExpiresOnItsTick, MaxAge
<1> QED
  BY <1>1, <1>2, <1>3, <1>4, <1>5, <1>6, <1>7 DEF Next

-----------------------------------------------------------------------------
\* Add and advance keep slots and rounds in range for every wheel size.
THEOREM TypeCorrect == Spec => []TypeOK
<1>1. Inv => TypeOK
  BY DEF Inv
<1> QED
  BY InitInv, StepInv, <1>1, PTL DEF Spec

\* An entry's slot and rounds always amount to the calls of advance it still
\* has to wait for, for every wheel size, delay and position of the wheel.
THEOREM CountdownIsExact == Spec => []ExactCountdown
<1>1. Inv => ExactCountdown
  BY DEF Inv
<1> QED
  BY InitInv, StepInv, <1>1, PTL DEF Spec

\* advance takes each entry off on its own tick and no other.
THEOREM ExpiryOnItsTick == Spec => []ExpiresOnItsTick
<1>1. Inv => ExpiresOnItsTick
  BY DEF Inv
<1> QED
  BY InitInv, StepInv, <1>1, PTL DEF Spec

\* No message is in two buckets, or in a bucket after advance took it off.
THEOREM EntriesAreSingle == Spec => []NoDoubleEntry
<1>1. Inv => NoDoubleEntry
  BY DEF Inv
<1> QED
  BY InitInv, StepInv, <1>1, PTL DEF Spec

-----------------------------------------------------------------------------
(* How early an entry can be taken off.                                    *)

\* Ticks in the channel.
Pending == IF tick THEN 1 ELSE 0

(***************************************************************************)
(* The calls of advance an entry has seen, and the one a tick in the       *)
(* channel will cause, are paid for by the time it has spent in the wheel: *)
(* at most one tick was in the channel when it was added, and the ticker   *)
(* was at most one interval from its next tick.                            *)
(***************************************************************************)
PaidFor(a, p) == (a + Pending) * Interval + phase <= p + 2 * Interval - 1

TicksTakeTime ==
  \A m \in InWheel : age[m] = MaxAge \/ PaidFor(advances[m], age[m])

EarlyInv == Inv /\ TicksTakeTime /\ EarlyByLessThanTwoIntervals

\* Distributing an interval over one more tick.
LEMMA OneMoreTick ==
  ASSUME NEW a \in Int
  PROVE  /\ (a + 1) * Interval = a * Interval + Interval
         /\ (a + 0) * Interval = a * Interval
         /\ a * Interval \in Int
OBVIOUS

\* A delay is less than an interval longer than its ticks.
LEMMA TicksCover ==
  ASSUME NEW d \in Nat
  PROVE  d < Ticks(d) * Interval + Interval /\ Ticks(d) * Interval \in Int
<1>1. /\ d \div Interval \in Nat /\ d % Interval \in 0..(Interval - 1)
      /\ d = (d \div Interval) * Interval + (d % Interval)
      /\ (d \div Interval) * Interval \in Int
  OBVIOUS
<1>2. CASE d \div Interval = 0
  BY <1>1, <1>2 DEF Ticks
<1>3. CASE d \div Interval # 0
  BY <1>1, <1>3 DEF Ticks
<1> QED
  BY <1>2, <1>3, Zenon

\* Every step keeps the account of ticks and time.
LEMMA EarlyStep == EarlyInv /\ [Next]_vars => EarlyInv'
<1> SUFFICES ASSUME EarlyInv, [Next]_vars
             PROVE  TicksTakeTime' /\ EarlyByLessThanTwoIntervals'
  BY StepInv DEF EarlyInv
<1>1. /\ phase \in 0..(Interval - 1) /\ tick \in BOOLEAN /\ Interval \in Nat \ {0}
      /\ InWheel \subseteq Messages /\ expired \subseteq Messages
      /\ MaxAge \in Nat
      /\ \A m \in Messages : advances[m] \in Nat /\ age[m] \in 0..MaxAge /\ delay[m] \in 0..MaxDelay
  BY DEF EarlyInv, Inv, TypeOK, InWheel, MaxAge
<1>2. ASSUME NEW m \in Messages, NEW d \in 1..MaxDelay, Add(m, d)
      PROVE  TicksTakeTime' /\ EarlyByLessThanTwoIntervals'
  <2>1. /\ TargetSlot(d) \in SlotIDs
        /\ buckets' = [buckets EXCEPT ![TargetSlot(d)] = @ \cup {m}]
    BY <1>2, TargetDistance DEF Add, EarlyInv, Inv, TypeOK
  <2>2. InWheel' \subseteq InWheel \cup {m}
    BY <2>1 DEF InWheel, EarlyInv, Inv, TypeOK
  <2>3. /\ \A x \in Messages \ {m} : age'[x] = age[x] /\ advances'[x] = advances[x] /\ delay'[x] = delay[x]
        /\ age'[m] = 0 /\ advances'[m] = 0 /\ m \notin expired
        /\ tick' = tick /\ phase' = phase /\ expired' = expired
    BY <1>2 DEF Add, EarlyInv, Inv, TypeOK
  <2>4. TicksTakeTime'
    <3> SUFFICES ASSUME NEW x \in InWheel'
                 PROVE  age'[x] = MaxAge \/ (advances'[x] + Pending) * Interval + phase
                                              <= age'[x] + 2 * Interval - 1
      BY <2>3 DEF TicksTakeTime, PaidFor, Pending, MaxAge
    <3>1. CASE x = m
      BY <1>1, <2>3, <3>1 DEF Pending
    <3>2. CASE x # m
      <4>1. x \in InWheel /\ x \in Messages
        BY <1>1, <2>2, <3>2, Zenon
      <4> QED
        BY <2>3, <3>2, <4>1, Zenon DEF EarlyInv, TicksTakeTime, PaidFor
    <3> QED
      BY <3>1, <3>2
  <2>5. EarlyByLessThanTwoIntervals'
    BY <1>1, <2>3, Zenon DEF EarlyByLessThanTwoIntervals, EarlyInv
  <2> QED
    BY <2>4, <2>5
<1>3. ASSUME NEW m \in Messages, Dispatch(m)
      PROVE  TicksTakeTime' /\ EarlyByLessThanTwoIntervals'
  BY <1>3, Zenon DEF Dispatch, EarlyInv, TicksTakeTime, PaidFor, Pending, InWheel, MaxAge,
              EarlyByLessThanTwoIntervals
<1>4. CASE Advance
  <2>1. /\ Ripe \subseteq InWheel /\ expired' = Ripe /\ InWheel' \subseteq InWheel
        /\ \A m \in InWheel : m \in Messages /\ advances'[m] = advances[m] + 1 /\ age'[m] = age[m] /\ delay'[m] = delay[m]
        /\ Pending = 1 /\ Pending' = 0 /\ phase' = phase
    <3>1. buckets' = [buckets EXCEPT ![currentSlot] = Remaining] /\ currentSlot \in SlotIDs
      BY <1>4 DEF Advance, EarlyInv, Inv, TypeOK
    <3>2. Ripe \subseteq buckets[currentSlot] /\ Remaining \subseteq buckets[currentSlot]
      BY Zenon DEF Ripe, Remaining
    <3>3. Ripe \subseteq InWheel /\ InWheel' \subseteq InWheel
      BY <3>1, <3>2, Zenon DEF InWheel, EarlyInv, Inv, TypeOK
    <3>4. \A m \in InWheel : m \in Messages /\ advances'[m] = advances[m] + 1 /\ age'[m] = age[m] /\ delay'[m] = delay[m]
      BY <1>1, <1>4, Zenon DEF Advance
    <3>5. Pending = 1 /\ Pending' = 0 /\ phase' = phase /\ expired' = Ripe
      BY <1>4, Zenon DEF Advance, Pending
    <3> QED
      BY <3>3, <3>4, <3>5, Zenon
  <2>2. ASSUME NEW m \in InWheel
        PROVE  age'[m] = MaxAge \/ advances'[m] * Interval + phase <= age'[m] + 2 * Interval - 1
    BY <2>1, Zenon DEF EarlyInv, TicksTakeTime, PaidFor
  <2>3. TicksTakeTime'
    <3> SUFFICES ASSUME NEW m \in InWheel'
                 PROVE  age'[m] = MaxAge \/ (advances'[m] + 0) * Interval + phase
                                              <= age'[m] + 2 * Interval - 1
      BY <2>1, Zenon DEF TicksTakeTime, PaidFor, MaxAge
    <3>1. advances'[m] \in Int
      BY <1>1, <2>1
    <3>2. (advances'[m] + 0) * Interval = advances'[m] * Interval
      BY <3>1, OneMoreTick, Zenon
    <3> QED
      BY <2>1, <2>2, <3>2, Zenon
  <2>4. EarlyByLessThanTwoIntervals'
    <3> SUFFICES ASSUME NEW m \in Ripe
                 PROVE  age'[m] + 2 * Interval > delay'[m]
      BY <2>1, Zenon DEF EarlyByLessThanTwoIntervals
    <3>1. /\ m \in Messages /\ m \in InWheel
          /\ age'[m] \in 0..MaxAge /\ delay'[m] \in 0..MaxDelay /\ delay'[m] \in Nat
      BY <1>1, <2>1
    <3>2. CASE age'[m] = MaxAge
      BY <1>1, <3>1, <3>2 DEF MaxAge
    <3>3. CASE age'[m] # MaxAge
      <4>1. advances'[m] * Interval + phase <= age'[m] + 2 * Interval - 1
        BY <2>2, <3>1, <3>3, Zenon
      <4>2. advances'[m] = Ticks(delay'[m]) + 1
        <5>1. ExpiresOnItsTick'
          BY StepInv, Zenon DEF EarlyInv, Inv
        <5> QED
          BY <2>1, <5>1, Zenon DEF ExpiresOnItsTick, Ticks
      <4>3. PICK d \in Nat, t \in Nat : d = delay'[m] /\ t = Ticks(d)
        BY <3>1, TicksType, Zenon
      <4>4. d < Ticks(d) * Interval + Interval /\ Ticks(d) * Interval \in Int
        BY TicksCover
      <4>5. (t + 1) * Interval = t * Interval + Interval /\ t * Interval \in Int
        BY OneMoreTick
      <4>6. t * Interval + Interval + phase <= age'[m] + 2 * Interval - 1
        BY <4>1, <4>2, <4>3, <4>5, Zenon
      <4>7. d < t * Interval + Interval
        BY <4>3, <4>4
      <4>8. PICK u \in Int : u = t * Interval
        BY <4>5, Zenon
      <4> QED
        BY <1>1, <3>1, <4>3, <4>6, <4>7, <4>8
    <3> QED
      BY <3>2, <3>3, Zenon
  <2> QED
    BY <2>3, <2>4, Zenon
<1>5. CASE Stop \/ Quit \/ UNCHANGED vars
  BY <1>5 DEF Stop, Quit, vars, EarlyInv, TicksTakeTime, PaidFor, Pending, InWheel, MaxAge,
              EarlyByLessThanTwoIntervals
<1>6. CASE TimePasses
  <2>1. /\ InWheel' = InWheel /\ expired' = expired /\ delay' = delay /\ advances' = advances
        /\ phase' = (phase + 1) % Interval
        /\ tick' = (tick \/ (~closed /\ phase' = 0))
        /\ \A m \in Messages : age'[m] = IF m \in InWheel /\ age[m] < MaxAge THEN age[m] + 1 ELSE age[m]
    BY <1>6, Zenon DEF TimePasses, InWheel, MaxAge
  <2>2. EarlyByLessThanTwoIntervals'
    BY <1>1, <2>1, Zenon DEF EarlyByLessThanTwoIntervals, EarlyInv, Inv, NoDoubleEntry
  <2>3. phase' = IF phase = Interval - 1 THEN 0 ELSE phase + 1
    BY <1>1, <2>1
  <2>4. \/ Pending' = Pending /\ phase' <= phase + 1 /\ phase' \in Int
        \/ Pending = 0 /\ Pending' = 1 /\ phase = Interval - 1 /\ phase' = 0
    BY <1>1, <2>1, <2>3 DEF Pending
  <2>5. TicksTakeTime'
    <3> SUFFICES ASSUME NEW m \in InWheel, age'[m] # MaxAge
                 PROVE  (advances[m] + Pending') * Interval + phase' <= age'[m] + 2 * Interval - 1
      BY <2>1, Zenon DEF TicksTakeTime, PaidFor, MaxAge
    <3>1. m \in Messages /\ age[m] \in 0..MaxAge /\ advances[m] \in Nat
      BY <1>1, Zenon
    <3>2. age'[m] = age[m] + 1 /\ age[m] # MaxAge
      BY <1>1, <2>1, <3>1
    <3>3. (advances[m] + Pending) * Interval + phase <= age[m] + 2 * Interval - 1
      BY <3>2 DEF EarlyInv, TicksTakeTime, PaidFor
    <3>4. Pending \in {0, 1}
      BY Zenon DEF Pending
    <3>5. CASE Pending' = Pending /\ phase' <= phase + 1 /\ phase' \in Int
      <4>1. PICK u \in Int : u = (advances[m] + Pending) * Interval
        BY <1>1, <3>1, <3>4
      <4> QED
        BY <1>1, <3>1, <3>2, <3>3, <3>5, <4>1
    <3>6. CASE Pending = 0 /\ Pending' = 1 /\ phase = Interval - 1 /\ phase' = 0
      <4>1. PICK a \in Int : a = advances[m]
        BY <3>1
      <4>2. /\ (a + 1) * Interval = a * Interval + Interval
            /\ (a + 0) * Interval = a * Interval
            /\ a * Interval \in Int
        BY OneMoreTick
      <4>3. PICK u \in Int : u = a * Interval
        BY <4>2
      <4> QED
        BY <1>1, <3>1, <3>2, <3>3, <3>6, <4>1, <4>2, <4>3
    <3> QED
      BY <2>4, <3>5, <3>6, Zenon
  <2> QED
    BY <2>2, <2>5, Zenon
<1> QED
  BY <1>2, <1>3, <1>4, <1>5, <1>6 DEF Next

\* However late ticks are taken, an entry is taken off less than two intervals
\* before its delay is over, for every interval and every delay.
THEOREM EarlyByLessThanTwo == Spec => []EarlyByLessThanTwoIntervals
<1>1. Init => EarlyInv
  BY InitInv DEF Init, EarlyInv, TicksTakeTime, InWheel, EarlyByLessThanTwoIntervals
<1>2. EarlyInv => EarlyByLessThanTwoIntervals
  BY DEF EarlyInv
<1> QED
  BY <1>1, <1>2, EarlyStep, PTL DEF Spec

-----------------------------------------------------------------------------
\* Every step of the wheel is a step of the delay queue, or changes nothing there.
LEMMA WheelStep ==
  ASSUME Inv, [Next]_vars
  PROVE  [Delays!Next]_(Delays!vars)
<1>1. ASSUME NEW m \in Messages, NEW d \in 1..MaxDelay, Add(m, d)
      PROVE  Delays!Next
  <2>1. TargetSlot(d) \in SlotIDs
    BY TargetDistance DEF Inv, TypeOK
  <2>2. InWheel' = InWheel \cup {m}
    BY <1>1, <2>1 DEF Add, InWheel, Inv, TypeOK
  <2>3. Delays!Schedule(m)
    BY <1>1, <2>2, Zenon DEF Add, Delays!Schedule
  <2> QED
    BY <2>3, Zenon DEF Delays!Next
<1>2. ASSUME NEW m \in Messages, Dispatch(m)
      PROVE  Delays!Next
  <2>1. Delays!HandOver(m)
    BY <1>2 DEF Dispatch, InWheel, Delays!HandOver
  <2> QED
    BY <2>1, Zenon DEF Delays!Next
<1>3. CASE Advance
  <2>1. /\ currentSlot \in SlotIDs /\ Ripe \subseteq buckets[currentSlot]
        /\ buckets' = [buckets EXCEPT ![currentSlot] = buckets[currentSlot] \ Ripe]
        /\ expired = {} /\ expired' = Ripe /\ closed' = closed
    BY <1>3, Zenon DEF Advance, Remaining, Ripe, Inv, TypeOK
  <2>2. \A s \in SlotIDs : buckets'[s] = buckets[s] \ Ripe
    BY <2>1, Zenon DEF Inv, TypeOK, NoDoubleEntry
  <2>3. InWheel' = InWheel \ Ripe /\ Ripe \in SUBSET InWheel
    BY <2>1, <2>2 DEF InWheel
  <2>4. Delays!FallDue(Ripe)
    BY <2>1, <2>3 DEF Delays!FallDue
  <2> QED
    BY <2>3, <2>4, Zenon DEF Delays!Next
<1>4. CASE Stop
  <2>1. Delays!Stop
    BY <1>4, Zenon DEF Stop, InWheel, Delays!Stop
  <2> QED
    BY <2>1, Zenon DEF Delays!Next
<1>5. CASE Quit \/ TimePasses \/ UNCHANGED vars
  BY <1>5 DEF Quit, TimePasses, vars, InWheel, Delays!vars
<1> QED
  BY <1>1, <1>2, <1>3, <1>4, <1>5, Zenon DEF Next

\* The wheel implements the delay queue that a topic is composed with: what is
\* added falls due once and is handed over once, and nothing is taken after Stop.
THEOREM ImplementsDelayQueue == Spec => RefinesDelayQueue
<1>1. Init => Delays!Init
  BY DEF Init, InWheel, Delays!Init
<1>2. Inv /\ [Next]_vars => [Delays!Next]_(Delays!vars)
  BY WheelStep
<1> QED
  BY <1>1, <1>2, InitInv, StepInv, PTL DEF Spec, RefinesDelayQueue, Delays!Spec
=============================================================================
