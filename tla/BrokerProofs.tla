---------------------------- MODULE BrokerProofs ----------------------------
(***************************************************************************)
(* The broker over its log and topics, for any messages, topics, batches   *)
(* and restarts: it is type correct, logs before it queues, its totals     *)
(* agree with its topics' counters, and it keeps a publisher's order in    *)
(* its rings and in the log of a first process; the first recovery finds   *)
(* all that was confirmed, if the log was synced and met no error.         *)
(***************************************************************************)
EXTENDS Broker, FiniteSetTheorems, Loops

\* The types the argument needs ...
Shape ==
  /\ policy \in {"off", "always", "everysec"}
  /\ log \in Seq(Messages) /\ IsInjective(log)
  /\ synced \in 0..Len(log)
  /\ trusted \in BOOLEAN /\ logState \in {"off", "open", "broken", "closed"}
  /\ ring \in [Topics -> Seq(Messages)]
  /\ at \in [Messages -> Places]
  /\ call \in [Messages -> {"idle", "begun", "logged", "pushed", "confirmed", "failed"}]
  /\ kind \in [Messages -> Kinds \cup {"none"}]
  /\ topicOf \in [Messages -> Topics \cup {"none"}]
  /\ batch \in Seq(Messages)
  /\ taken \subseteq Messages /\ precedes \subseteq Messages \X Messages

\* ... and the others.
Scalars ==
  /\ topics \in [Topics -> {"absent", "open", "closed"}]
  /\ closing \in {"no", "topics", "done"}
  /\ published \in [Topics -> Nat]
  /\ totalPublished \in Nat /\ recovered \in Nat /\ first \in BOOLEAN

\* A ring has the messages whose place it is, each once.
Rings ==
  \A t \in Topics :
    /\ IsInjective(ring[t])
    /\ Range(ring[t]) = {m \in Messages : at[m] = "ring" /\ topicOf[m] = t}

\* A log that has met no error has lost nothing that policy always or Close syncs.
Synced ==
  /\ policy = "off" <=> logState = "off"
  /\ logState = "broken" => ~trusted
  /\ trusted /\ (policy = "always" \/ logState = "closed") => synced = Len(log)

\* What the call of m has come to says where m can be ...
Placed(m) ==
  /\ call[m] \in {"idle", "begun", "logged"} => at[m] = "none"
  /\ call[m] \in {"idle", "begun"} => m \notin Range(log)
  /\ call[m] # "idle" => topicOf[m] \in Topics /\ kind[m] \in Kinds
  /\ at[m] \in {"wheel", "pel", "dead"} /\ kind[m] # "delayed" => m \in taken

\* ... and that it is in the log, if it has to be.
Written(m) ==
  policy # "off" /\ (at[m] # "none" \/ call[m] \in {"logged", "pushed", "confirmed"}) =>
    m \in Range(log) \/ (kind[m] = "batch" /\ logState # "open")

\* m is before x in the batch under way, and x has to wait for it.
Waits(m, x) ==
  /\ call[x] = "begun"
  /\ \E i, j \in DOMAIN batch : i < j /\ batch[i] = m /\ batch[j] = x

\* What holds when x was sent after m.
Sent(m, x) ==
  /\ m # x /\ call[m] # "idle" /\ call[x] # "idle"
  /\ kind[m] \in {"back", "batch"} /\ kind[x] \in {"back", "batch"}
  /\ topicOf[m] = topicOf[x]
  /\ call[m] \in {"pushed", "confirmed", "failed"} \/ Waits(m, x)
  /\ first => InOrder(log, m, x)
  /\ {m, x} \cap taken = {} => InOrder(ring[topicOf[m]], m, x)

\* The inductive invariant, of the variables that the argument needs.
BInv ==
  /\ Shape /\ Rings /\ Synced
  /\ \A m \in Messages : Placed(m) /\ Written(m)
  /\ \A m, x \in Messages : <<m, x>> \in precedes => Sent(m, x)

\* The provers' time for a leaf that names none.
USE SMTT(30)

-----------------------------------------------------------------------------
(* Sequences.                                                              *)

\* m is not put before x by an insertion of y at the back of q.
LEMMA AppendKeeps ==
  ASSUME NEW q \in Seq(Messages), NEW y \in Messages
  PROVE  /\ Append(q, y) \in Seq(Messages)
         /\ Range(Append(q, y)) = Range(q) \cup {y}
         /\ IsInjective(q) /\ y \notin Range(q) => IsInjective(Append(q, y))
         /\ \A m, x \in Messages :
              InOrder(q, m, x) /\ m # x /\ (y = m => x \notin Range(q)) => InOrder(Append(q, y), m, x)
<1>1. PICK n \in Nat : n = Len(q)
  OBVIOUS
<1>2. PICK r : r = Append(q, y)
  BY Zenon
<1>3. /\ r \in Seq(Messages) /\ DOMAIN q = 1..n /\ DOMAIN r = 1..(n + 1)
      /\ r[n + 1] = y /\ \A i \in 1..n : r[i] = q[i]
  BY <1>1, <1>2
<1>4. \A i \in 1..(n + 1) : i \in 1..n \/ i = n + 1
  OBVIOUS
<1>5. \A i \in 1..n : i \in 1..(n + 1) /\ i < n + 1
  OBVIOUS
<1>6. n + 1 \in 1..(n + 1)
  OBVIOUS
<1>7. Range(r) = Range(q) \cup {y}
  BY <1>3, <1>4, <1>5, <1>6, Zenon DEF Range
<1>8. IsInjective(q) /\ y \notin Range(q) => IsInjective(r)
  BY <1>3, <1>4, Zenon DEF IsInjective, Range
<1>9. ASSUME NEW m \in Messages, NEW x \in Messages, InOrder(q, m, x), m # x,
             y = m => x \notin Range(q)
      PROVE  InOrder(r, m, x)
  <2> SUFFICES ASSUME NEW i \in 1..(n + 1), NEW j \in 1..(n + 1), r[i] = m, r[j] = x
               PROVE  i < j
    BY <1>3, Zenon DEF InOrder
  <2>1. CASE i \in 1..n /\ j \in 1..n
    BY <1>3, <1>9, <2>1, Zenon DEF InOrder
  <2>2. CASE i \in 1..n /\ j = n + 1
    BY <2>2
  <2>3. CASE i = n + 1 /\ j \in 1..n
    BY <1>3, <1>9, <2>3, Zenon DEF Range
  <2>4. CASE i = n + 1 /\ j = n + 1
    BY <1>9, <2>4, Zenon
  <2> QED
    BY <1>4, <2>1, <2>2, <2>3, <2>4, Zenon
<1> QED
  BY <1>2, <1>3, <1>7, <1>8, <1>9, Zenon

\* An insertion of y at the front of q.
LEMMA FrontKeeps ==
  ASSUME NEW q \in Seq(Messages), NEW y \in Messages
  PROVE  /\ <<y>> \o q \in Seq(Messages)
         /\ Range(<<y>> \o q) = Range(q) \cup {y}
         /\ IsInjective(q) /\ y \notin Range(q) => IsInjective(<<y>> \o q)
         /\ \A m, x \in Messages :
              InOrder(q, m, x) /\ y # m /\ y # x => InOrder(<<y>> \o q, m, x)
<1>1. PICK n \in Nat : n = Len(q)
  OBVIOUS
<1>2. PICK r : r = <<y>> \o q
  BY Zenon
<1>3. /\ r \in Seq(Messages) /\ DOMAIN q = 1..n /\ DOMAIN r = 1..(n + 1)
      /\ r[1] = y /\ \A i \in 2..(n + 1) : r[i] = q[i - 1]
  BY <1>1, <1>2
<1>4. \A i \in 1..(n + 1) : (i \in 2..(n + 1) /\ i - 1 \in 1..n) \/ i = 1
  OBVIOUS
<1>5. \A i \in 1..n : i + 1 \in 1..(n + 1) /\ r[i + 1] = q[i]
  BY <1>3
<1>6. ASSUME NEW i \in 1..(n + 1), i # 1
      PROVE  \E k \in 1..n : i = k + 1 /\ r[i] = q[k]
  <2>1. PICK k \in 1..n : i = k + 1
    BY <1>4, <1>6
  <2> QED
    BY <1>5, <2>1, Zenon
<1>7. Range(r) = Range(q) \cup {y}
  <2>1. ASSUME NEW e \in Range(r), e # y
        PROVE  e \in Range(q)
    <3>1. PICK i \in 1..(n + 1) : e = r[i]
      BY <1>3, Zenon DEF Range
    <3>2. PICK k \in 1..n : r[i] = q[k]
      BY <1>3, <1>6, <2>1, <3>1, Zenon
    <3> QED
      BY <1>3, <3>1, <3>2, Zenon DEF Range
  <2>2. \A e \in Range(q) : e \in Range(r)
    BY <1>3, <1>5, ZenonT(30) DEF Range
  <2>3. y \in Range(r)
    BY <1>3 DEF Range
  <2> QED
    BY <2>1, <2>2, <2>3, Zenon
<1>8. ASSUME IsInjective(q), y \notin Range(q)
      PROVE  IsInjective(r)
  <2> SUFFICES ASSUME NEW i \in 1..(n + 1), NEW j \in 1..(n + 1), r[i] = r[j]
               PROVE  i = j
    BY <1>3, Zenon DEF IsInjective
  <2>1. \A k \in 1..n : q[k] # y
    BY <1>3, <1>8, Zenon DEF Range
  <2>2. CASE i = 1 \/ j = 1
    BY <1>3, <1>6, <2>1, <2>2
  <2>3. CASE i # 1 /\ j # 1
    <3>1. PICK k \in 1..n, l \in 1..n : i = k + 1 /\ r[i] = q[k] /\ j = l + 1 /\ r[j] = q[l]
      BY <1>6, <2>3
    <3>2. k = l
      BY <1>3, <1>8, <3>1, Zenon DEF IsInjective
    <3> QED
      BY <3>1, <3>2
  <2> QED
    BY <2>2, <2>3
<1>9. ASSUME NEW m \in Messages, NEW x \in Messages, InOrder(q, m, x), y # m, y # x
      PROVE  InOrder(r, m, x)
  <2> SUFFICES ASSUME NEW i \in 1..(n + 1), NEW j \in 1..(n + 1), r[i] = m, r[j] = x
               PROVE  i < j
    BY <1>3 DEF InOrder
  <2>1. i # 1 /\ j # 1
    BY <1>3, <1>9
  <2>2. PICK k \in 1..n, l \in 1..n : i = k + 1 /\ r[i] = q[k] /\ j = l + 1 /\ r[j] = q[l]
    BY <1>6, <2>1, Zenon
  <2>3. k < l
    BY <1>3, <1>9, <2>2, Zenon DEF InOrder
  <2> QED
    BY <2>2, <2>3
<1> QED
  BY <1>2, <1>3, <1>7, <1>8, <1>9, Zenon

\* The removal of the head.
LEMMA TailKeeps ==
  ASSUME NEW q \in Seq(Messages), q # <<>>
  PROVE  /\ Tail(q) \in Seq(Messages) /\ Head(q) \in Range(q) /\ Head(q) \in Messages
         /\ IsInjective(q) => IsInjective(Tail(q)) /\ Range(Tail(q)) = Range(q) \ {Head(q)}
         /\ \A m, x \in Messages : InOrder(q, m, x) => InOrder(Tail(q), m, x)
<1>1. PICK n \in Nat : n = Len(q)
  OBVIOUS
<1>2. PICK r : r = Tail(q)
  BY Zenon
<1>3. /\ r \in Seq(Messages) /\ DOMAIN q = 1..n /\ DOMAIN r = 1..(n - 1) /\ 1 \in 1..n
      /\ Head(q) = q[1] /\ q[1] \in Messages /\ \A i \in 1..(n - 1) : r[i] = q[i + 1]
  BY <1>1, <1>2
<1>4. \A i \in 1..(n - 1) : i + 1 \in 1..n /\ i + 1 # 1
  OBVIOUS
<1>5. \A i \in 1..n : i = 1 \/ \E k \in 1..(n - 1) : r[k] = q[i]
  <2>1. \A i \in 1..n : i = 1 \/ \E k \in 1..(n - 1) : i = k + 1
    OBVIOUS
  <2> QED
    BY <1>3, <2>1, Zenon
<1>6. Head(q) \in Range(q)
  BY <1>3, Zenon DEF Range
<1>7. ASSUME IsInjective(q)
      PROVE  IsInjective(r)
  <2> SUFFICES ASSUME NEW i \in 1..(n - 1), NEW j \in 1..(n - 1), r[i] = r[j]
               PROVE  i = j
    BY <1>3, Zenon DEF IsInjective
  <2>1. i + 1 \in 1..n /\ j + 1 \in 1..n
    BY <1>4, Zenon
  <2>2. q[i + 1] = q[j + 1]
    BY <1>3, Zenon
  <2>3. i + 1 = j + 1
    BY <1>3, <1>7, <2>1, <2>2, Zenon DEF IsInjective
  <2> QED
    BY <2>3
<1>8. IsInjective(q) => Range(r) = Range(q) \ {Head(q)}
  <2> SUFFICES ASSUME IsInjective(q)
               PROVE  Range(r) = Range(q) \ {Head(q)}
    BY Zenon
  <2>1. ASSUME NEW e \in Range(r)
        PROVE  e \in Range(q) /\ e # Head(q)
    <3>1. PICK i \in 1..(n - 1) : e = r[i]
      BY <1>3, Zenon DEF Range
    <3>2. i + 1 \in 1..n /\ i + 1 # 1 /\ e = q[i + 1]
      BY <1>3, <1>4, <3>1, Zenon
    <3>3. e \in Range(q)
      BY <1>3, <3>2, Zenon DEF Range
    <3> QED
      BY <1>3, <3>2, <3>3, Zenon DEF IsInjective
  <2>2. ASSUME NEW e \in Range(q), e # Head(q)
        PROVE  e \in Range(r)
    <3>1. PICK i \in 1..n : e = q[i]
      BY <1>3, Zenon DEF Range
    <3>2. PICK k \in 1..(n - 1) : r[k] = q[i]
      BY <1>3, <1>5, <2>2, <3>1, Zenon
    <3> QED
      BY <1>3, <3>1, <3>2, Zenon DEF Range
  <2> QED
    BY <2>1, <2>2, Zenon
<1>9. ASSUME NEW m \in Messages, NEW x \in Messages, InOrder(q, m, x)
      PROVE  InOrder(r, m, x)
  <2> SUFFICES ASSUME NEW i \in 1..(n - 1), NEW j \in 1..(n - 1), r[i] = m, r[j] = x
               PROVE  i < j
    BY <1>3, Zenon DEF InOrder
  <2>1. i + 1 < j + 1
    BY <1>3, <1>4, <1>9, Zenon DEF InOrder
  <2> QED
    BY <2>1
<1> QED
  BY <1>2, <1>3, <1>6, <1>7, <1>8, <1>9, Zenon

-----------------------------------------------------------------------------
(* Steps that move messages between ring, wheel, PEL and DLQ.              *)

\* The log may flush, sync or fail, if it keeps what it promises.
LogStands ==
  /\ policy' = policy /\ log' = log
  /\ synced' \in 0..Len(log) /\ trusted' \in BOOLEAN
  /\ logState' \in {"off", "open", "broken", "closed"} /\ Synced'
  /\ logState # "open" => logState' # "open"

\* A log that rests does.
LEMMA LogRests ==
  ASSUME BInv, UNCHANGED logVars
  PROVE  LogStands
<1>1. UNCHANGED <<policy, log, synced, trusted, logState>>
  BY Zenon DEF logVars
<1>2. Synced'
  BY <1>1, Zenon DEF BInv, Synced
<1> QED
  BY <1>1, <1>2, Zenon DEF LogStands, BInv, Shape

\* So do writeRecord for an acknowledgement, Sync and Close.
LEMMA LogWorks ==
  ASSUME BInv, \/ UNCHANGED policy /\ (WriteRecord(log) \/ RefuseRecord \/ NoLog)
               \/ Sync \/ CloseLog
  PROVE  LogStands
<1>1. /\ policy' = policy /\ log' = log /\ log \in Seq(Messages) /\ Len(log) \in Nat
      /\ synced \in 0..Len(log) /\ trusted \in BOOLEAN
      /\ logState \in {"off", "open", "broken", "closed"}
  BY DEF BInv, Shape, WriteRecord, RefuseRecord, NoLog, Sync, CloseLog
<1>2. synced' \in {0, synced, Len(log)}
  BY <1>1 DEF WriteRecord, RefuseRecord, NoLog, Sync, CloseLog
<1>3. trusted' = trusted \/ trusted' = FALSE
  BY Zenon DEF WriteRecord, RefuseRecord, NoLog, Sync, CloseLog
<1>4. /\ logState' = logState \/ (logState = "open" /\ logState' \in {"broken", "closed"})
      /\ logState # "open" => logState' # "open"
  BY Zenon DEF WriteRecord, RefuseRecord, NoLog, Sync, CloseLog
<1>5. Synced'
  <2>1. policy = "off" <=> logState = "off"
    BY Zenon DEF BInv, Synced
  <2>2. CASE trusted' = FALSE
    BY <1>1, <1>4, <2>1, <2>2, Zenon DEF Synced
  <2>3. CASE trusted' = trusted /\ trusted
    <3>1. logState # "broken" /\ (policy = "always" \/ logState = "closed" => synced = Len(log))
      BY <2>3, Zenon DEF BInv, Synced
    <3>2. logState' # "broken" /\ (logState' = "closed" /\ logState # "closed" => synced' = Len(log))
      BY <2>3, <3>1, Zenon DEF WriteRecord, RefuseRecord, NoLog, Sync, CloseLog
    <3>3. synced' \in {synced, Len(log)}
      BY <2>3, <3>1 DEF WriteRecord, RefuseRecord, NoLog, Sync, CloseLog
    <3> QED
      BY <1>1, <1>4, <2>1, <3>1, <3>2, <3>3, Zenon DEF Synced
  <2>4. CASE trusted' = trusted /\ ~trusted
    BY <1>1, <1>4, <2>1, <2>4, Zenon DEF Synced
  <2> QED
    BY <1>1, <1>3, <2>2, <2>3, <2>4, Zenon
<1>6. synced' \in 0..Len(log)
  BY <1>1, <1>2
<1> QED
  BY <1>1, <1>3, <1>4, <1>5, <1>6, Zenon DEF LogStands

\* They log and publish nothing ...
Quiet == LogStands /\ UNCHANGED <<call, kind, topicOf, batch, precedes, first>>

\* ... and what they move was queued before, and stays taken.
Moves ==
  /\ Quiet
  /\ at' \in [Messages -> Places] /\ ring' \in [Topics -> Seq(Messages)] /\ Rings'
  /\ taken \subseteq taken' /\ taken' \subseteq Messages
  /\ \A m \in Messages : at[m] = "none" => at'[m] = "none"
  /\ \A m \in Messages :
       at'[m] \in {"wheel", "pel", "dead"} /\ kind[m] # "delayed" => m \in taken'
  /\ \A m, x \in Messages :
       /\ <<m, x>> \in precedes /\ {m, x} \cap taken' = {}
       /\ InOrder(ring[topicOf[m]], m, x)
       => InOrder(ring'[topicOf[m]], m, x)

\* Such a step keeps the invariant.
LEMMA MoveKeeps ==
  ASSUME BInv, Moves
  PROVE  BInv'
<1>1. /\ policy' = policy /\ log' = log /\ call' = call /\ kind' = kind /\ topicOf' = topicOf
      /\ batch' = batch /\ precedes' = precedes /\ first' = first
      /\ logState # "open" => logState' # "open"
  BY Zenon DEF Moves, Quiet, LogStands
<1>2. Shape'
  BY <1>1, Zenon DEF Moves, Quiet, LogStands, BInv, Shape
<1>3. Synced'
  BY Zenon DEF Moves, Quiet, LogStands
<1>4. ASSUME NEW m \in Messages
      PROVE  Placed(m)' /\ Written(m)'
  <2>1. at[m] = "none" => at'[m] = "none"
    BY Zenon DEF Moves
  <2>2. at'[m] \in {"wheel", "pel", "dead"} /\ kind[m] # "delayed" => m \in taken'
    BY Zenon DEF Moves
  <2>3. Placed(m) /\ Written(m)
    BY Zenon DEF BInv
  <2>4. Placed(m)'
    BY <1>1, <2>1, <2>2, <2>3, Zenon DEF Placed
  <2> QED
    BY <1>1, <2>1, <2>3, <2>4, Zenon DEF Written
<1>5. ASSUME NEW m \in Messages, NEW x \in Messages, <<m, x>> \in precedes
      PROVE  Sent(m, x)'
  <2>1. Sent(m, x)
    BY <1>5, Zenon DEF BInv
  <2>2. Waits(m, x)' <=> Waits(m, x)
    BY <1>1, Zenon DEF Waits
  <2>3. {m, x} \cap taken' = {} => {m, x} \cap taken = {}
    BY DEF Moves
  <2>4. {m, x} \cap taken' = {} => InOrder(ring'[topicOf[m]], m, x)
    BY <1>5, <2>1, <2>3, Zenon DEF Moves, Sent
  <2> QED
    BY <1>1, <2>1, <2>2, <2>4, Zenon DEF Sent
<1> QED
  BY <1>1, <1>2, <1>3, <1>4, <1>5, Zenon DEF BInv, Moves

\* Where m can go from the PEL or the DLQ without the ring.
Settles(m) ==
  at'[m] = at[m] \/ (at[m] \in {"pel", "dead"} /\ at'[m] \in {"gone", "wheel", "dead"})

\* Deliveries that are settled or fail, and dead letters that are purged.
LEMMA SettleKeeps ==
  ASSUME BInv, Quiet, ring' = ring, taken' = taken, at' \in [Messages -> Places],
         \A m \in Messages : Settles(m)
  PROVE  BInv'
<1>1. topicOf' = topicOf /\ kind' = kind
  BY Zenon DEF Quiet
<1>2. \A m \in Messages : at'[m] = "ring" <=> at[m] = "ring"
  BY Zenon DEF Settles
<1>3. Rings'
  BY <1>1, <1>2, Zenon DEF BInv, Rings
<1>4. \A m \in Messages : at[m] = "none" => at'[m] = "none"
  BY Zenon DEF Settles
<1>5. \A m \in Messages :
        at'[m] \in {"wheel", "pel", "dead"} /\ kind[m] # "delayed" => m \in taken'
  BY Zenon DEF Settles, BInv, Placed
<1>6. Moves
  BY <1>3, <1>4, <1>5, Zenon DEF Moves, BInv, Shape
<1> QED
  BY <1>6, MoveKeeps, Zenon

\* Ack, Nack, the sweep and the purge of dead letters.
LEMMA SettlingBInv ==
  ASSUME BInv, \/ \E m \in Messages : Ack(m) \/ Nack(m)
               \/ \E t \in Topics : SweepAllTimeouts(t) \/ handleDLQPurge(t)
  PROVE  BInv'
<1>1. Quiet /\ ring' = ring /\ taken' = taken
  <2>1. LogStands
    BY LogRests, LogWorks, Zenon DEF Ack, Nack, SweepAllTimeouts, handleDLQPurge
  <2> QED
    BY <2>1, Zenon DEF Ack, Nack, SweepAllTimeouts, handleDLQPurge, Quiet, callVars, histVars
<1>2. at \in [Messages -> Places] /\ \A m \in Messages : WheelOrLost(m) \in {"gone", "wheel"}
  BY DEF BInv, Shape, WheelOrLost
<1>3. ASSUME NEW m \in Messages, Ack(m) \/ Nack(m)
      PROVE  BInv'
  <2>1. PICK p \in {"gone", "wheel", "dead"} : at' = [at EXCEPT ![m] = p] /\ at[m] = "pel"
    BY <1>2, <1>3, Zenon DEF Ack, Nack
  <2>2. at' \in [Messages -> Places]
    BY <1>2, <2>1, Zenon DEF Places
  <2>3. \A y \in Messages : Settles(y)
    BY <1>2, <2>1, Zenon DEF Settles
  <2> QED
    BY <1>1, <2>2, <2>3, SettleKeeps, Zenon
<1>4. ASSUME NEW t \in Topics, SweepAllTimeouts(t)
      PROVE  BInv'
  <2>1. PICK expired \in SUBSET {m \in Messages : at[m] = "pel" /\ topicOf[m] = t},
             dead \in SUBSET Messages :
          at' = [m \in Messages |-> IF m \in dead THEN "dead"
                                    ELSE IF m \in expired THEN WheelOrLost(m)
                                    ELSE at[m]]
          /\ dead \subseteq expired
    BY <1>4, Zenon DEF SweepAllTimeouts
  <2>2. at' \in [Messages -> Places]
    BY <1>2, <2>1, Zenon DEF Places
  <2>3. \A y \in Messages : Settles(y)
    BY <1>2, <2>1, Zenon DEF Settles
  <2> QED
    BY <1>1, <2>2, <2>3, SettleKeeps, Zenon
<1>5. ASSUME NEW t \in Topics, handleDLQPurge(t)
      PROVE  BInv'
  <2>1. PICK dead \in SUBSET {m \in Messages : at[m] = "dead"} :
          at' = [m \in Messages |-> IF m \in dead THEN "gone" ELSE at[m]]
    BY <1>5, Zenon DEF handleDLQPurge
  <2>2. at' \in [Messages -> Places]
    BY <1>2, <2>1, Zenon DEF Places
  <2>3. \A y \in Messages : Settles(y)
    BY <1>2, <2>1, Zenon DEF Settles
  <2> QED
    BY <1>1, <2>2, <2>3, SettleKeeps, Zenon
<1> QED
  BY <1>3, <1>4, <1>5, Zenon

\* A message leaves the head of a ring for a consumer.
LEMMA TakenKeeps ==
  ASSUME BInv, NEW t \in Topics, NEW p \in {"gone", "pel"}, Taken(t, p), Quiet,
         taken \subseteq taken', taken' \subseteq taken \cup {Head(ring[t])},
         p = "pel" => Head(ring[t]) \in taken'
  PROVE  BInv'
<1>1. /\ ring \in [Topics -> Seq(Messages)] /\ at \in [Messages -> Places]
      /\ taken \subseteq Messages
  BY Zenon DEF BInv, Shape
<1>2. PICK q \in Seq(Messages) : q = ring[t]
  BY <1>1, Zenon
<1>3. q # <<>> /\ ring' = [ring EXCEPT ![t] = Tail(q)] /\ at' = [at EXCEPT ![Head(q)] = p]
  BY <1>2, Zenon DEF Taken
<1>4. IsInjective(q) /\ Range(q) = {m \in Messages : at[m] = "ring" /\ topicOf[m] = t}
  BY <1>2, Zenon DEF BInv, Rings
<1>5. PICK h \in Messages : h = Head(q)
  BY <1>3, TailKeeps, Zenon
<1>6. /\ Tail(q) \in Seq(Messages) /\ IsInjective(Tail(q)) /\ Range(Tail(q)) = Range(q) \ {h}
      /\ at[h] = "ring" /\ topicOf[h] = t
  BY <1>3, <1>4, <1>5, TailKeeps, Zenon
<1>7. /\ at' \in [Messages -> Places] /\ ring' \in [Topics -> Seq(Messages)]
      /\ at'[h] = p /\ \A m \in Messages : m # h => at'[m] = at[m]
      /\ ring'[t] = Tail(q) /\ \A u \in Topics : u # t => ring'[u] = ring[u]
  BY <1>1, <1>3, <1>5, <1>6, Zenon DEF Places
<1>8. topicOf' = topicOf
  BY Zenon DEF Quiet
<1>9. Rings'
  <2> SUFFICES ASSUME NEW u \in Topics
               PROVE  /\ IsInjective(ring'[u])
                      /\ Range(ring'[u]) = {m \in Messages : at'[m] = "ring" /\ topicOf[m] = u}
    BY <1>8, Zenon DEF Rings
  <2>1. CASE u = t
    BY <1>4, <1>6, <1>7, <2>1, Zenon
  <2>2. CASE u # t
    <3>1. /\ ring'[u] = ring[u] /\ IsInjective(ring[u])
          /\ Range(ring[u]) = {m \in Messages : at[m] = "ring" /\ topicOf[m] = u}
      BY <1>7, <2>2, Zenon DEF BInv, Rings
    <3> QED
      BY <1>6, <1>7, <2>2, <3>1
  <2> QED
    BY <2>1, <2>2, Zenon
<1>10. \A m \in Messages : at[m] = "none" => at'[m] = "none"
  BY <1>6, <1>7, Zenon
<1>11. ASSUME NEW m \in Messages, at'[m] \in {"wheel", "pel", "dead"}, kind[m] # "delayed"
       PROVE  m \in taken'
  <2>1. CASE m = h
    BY <1>2, <1>5, <1>7, <1>11, <2>1, Zenon
  <2>2. CASE m # h
    BY <1>7, <1>11, <2>2, Zenon DEF BInv, Placed
  <2> QED
    BY <2>1, <2>2, Zenon
<1>12. ASSUME NEW m \in Messages, NEW x \in Messages, InOrder(ring[topicOf[m]], m, x),
              <<m, x>> \in precedes
       PROVE  InOrder(ring'[topicOf[m]], m, x)
  <2>1. topicOf[m] \in Topics
    BY <1>12, Zenon DEF BInv, Sent, Placed
  <2>2. CASE topicOf[m] = t
    BY <1>2, <1>3, <1>7, <1>12, <2>2, TailKeeps, Zenon
  <2>3. CASE topicOf[m] # t
    BY <1>7, <1>12, <2>1, <2>3, Zenon
  <2> QED
    BY <2>2, <2>3, Zenon
<1>13. taken' \subseteq Messages
  BY <1>1, <1>2, <1>5, Zenon
<1>14. Moves
  BY <1>7, <1>9, <1>10, <1>11, <1>12, <1>13, Zenon DEF Moves
<1> QED
  BY <1>14, MoveKeeps, Zenon

\* Consume and ConsumeGroup.
LEMMA ConsumeBInv ==
  ASSUME BInv, NEW t \in Topics, Consume(t) \/ ConsumeGroup(t)
  PROVE  BInv'
<1>1. Quiet
  BY LogRests, Zenon DEF Consume, ConsumeGroup, Quiet, callVars, histVars
<1>2. CASE Consume(t)
  <2>1. Taken(t, "gone") /\ taken' = taken
    BY <1>2, Zenon DEF Consume, histVars
  <2> QED
    BY <1>1, <2>1, TakenKeeps, Zenon
<1>3. CASE ConsumeGroup(t)
  <2>1. Taken(t, "pel") /\ taken' = taken \cup {Head(ring[t])}
    BY <1>3, Zenon DEF ConsumeGroup
  <2> QED
    BY <1>1, <2>1, TakenKeeps, Zenon
<1> QED
  BY <1>2, <1>3, Zenon

\* A message comes back to its ring from the wheel or the DLQ, or is lost.
LEMMA ComesBack ==
  ASSUME BInv, NEW y \in Messages, at[y] \in {"wheel", "dead"}, PushOrLose(y), Quiet,
         taken' = taken
  PROVE  BInv'
<1>1. /\ ring \in [Topics -> Seq(Messages)] /\ at \in [Messages -> Places]
      /\ taken \subseteq Messages
  BY Zenon DEF BInv, Shape
<1>2. Placed(y)
  BY Zenon DEF BInv
<1>3. PICK t \in Topics : t = topicOf[y]
  BY <1>1, <1>2, Zenon DEF Placed
<1>4. topicOf' = topicOf
  BY Zenon DEF Quiet
<1>5. PICK p \in {"gone", "ring"} : at' = [at EXCEPT ![y] = p]
  BY Zenon DEF PushOrLose
<1>6. /\ at' \in [Messages -> Places] /\ at'[y] = p
      /\ \A m \in Messages : m # y => at'[m] = at[m]
  BY <1>1, <1>5, Zenon DEF Places
<1>7. \A m \in Messages : at[m] = "none" => at'[m] = "none"
  BY <1>6, Zenon
<1>8. \A m \in Messages :
        at'[m] \in {"wheel", "pel", "dead"} /\ kind[m] # "delayed" => m \in taken'
  BY <1>6, Zenon DEF BInv, Placed
<1>9. CASE topics[t] = "closed"
  <2>1. ring' = ring /\ at' = [at EXCEPT ![y] = "gone"]
    BY <1>3, <1>9, Zenon DEF PushOrLose
  <2>2. \A m \in Messages : at'[m] = "ring" <=> at[m] = "ring"
    BY <1>1, <2>1, Zenon
  <2>3. Rings'
    BY <1>4, <2>1, <2>2, Zenon DEF BInv, Rings
  <2>4. Moves
    BY <1>1, <1>6, <1>7, <1>8, <2>1, <2>3, Zenon DEF Moves
  <2> QED
    BY <2>4, MoveKeeps, Zenon
<1>10. CASE topics[t] # "closed"
  <2>1. PICK q \in Seq(Messages) : q = ring[t]
    BY <1>1, Zenon
  <2>2. ring' = [ring EXCEPT ![t] = Append(q, y)] /\ at'[y] = "ring"
    BY <1>1, <1>3, <1>10, <2>1, Zenon DEF PushOrLose
  <2>3. IsInjective(q) /\ Range(q) = {m \in Messages : at[m] = "ring" /\ topicOf[m] = t}
    BY <2>1, Zenon DEF BInv, Rings
  <2>4. y \notin Range(q)
    BY <2>3, Zenon
  <2>5. /\ Append(q, y) \in Seq(Messages) /\ IsInjective(Append(q, y))
        /\ Range(Append(q, y)) = Range(q) \cup {y}
    BY <2>3, <2>4, AppendKeeps, Zenon
  <2>6. /\ ring' \in [Topics -> Seq(Messages)] /\ ring'[t] = Append(q, y)
        /\ \A u \in Topics : u # t => ring'[u] = ring[u]
    BY <1>1, <2>2, <2>5, Zenon
  <2>7. Rings'
    <3> SUFFICES ASSUME NEW u \in Topics
                 PROVE  /\ IsInjective(ring'[u])
                        /\ Range(ring'[u]) = {m \in Messages : at'[m] = "ring" /\ topicOf[m] = u}
      BY <1>4, Zenon DEF Rings
    <3>1. CASE u = t
      BY <1>3, <1>6, <2>2, <2>3, <2>5, <2>6, <3>1
    <3>2. CASE u # t
      <4>1. /\ ring'[u] = ring[u] /\ IsInjective(ring[u])
            /\ Range(ring[u]) = {m \in Messages : at[m] = "ring" /\ topicOf[m] = u}
        BY <2>6, <3>2, Zenon DEF BInv, Rings
      <4> QED
        BY <1>3, <1>6, <3>2, <4>1, Zenon
    <3> QED
      BY <3>1, <3>2, Zenon
  <2>8. ASSUME NEW m \in Messages, NEW x \in Messages, InOrder(ring[topicOf[m]], m, x),
               <<m, x>> \in precedes, {m, x} \cap taken' = {}
        PROVE  InOrder(ring'[topicOf[m]], m, x)
    <3>1. topicOf[m] \in Topics /\ m # x /\ kind[m] # "delayed"
      BY <2>8, Zenon DEF BInv, Sent, Placed
    <3>2. m # y
      BY <1>2, <2>8, <3>1, Zenon DEF Placed
    <3>3. CASE topicOf[m] = t
      <4>1. InOrder(q, m, x)
        BY <2>1, <2>8, <3>3, Zenon
      <4>2. InOrder(Append(q, y), m, x)
        BY <3>1, <3>2, <4>1, AppendKeeps, Zenon
      <4> QED
        BY <2>6, <3>3, <4>2, Zenon
    <3>4. CASE topicOf[m] # t
      BY <2>6, <2>8, <3>1, <3>4, Zenon
    <3> QED
      BY <3>3, <3>4, Zenon
  <2>9. Moves
    BY <1>1, <1>6, <1>7, <1>8, <2>6, <2>7, <2>8, Zenon DEF Moves
  <2> QED
    BY <2>9, MoveKeeps, Zenon
<1> QED
  BY <1>9, <1>10, Zenon

\* The wheel's dispatch and the replay of a dead letter.
LEMMA ComeBackBInv ==
  ASSUME BInv, NEW m \in Messages, Expire(m) \/ handleDLQReplay(m)
  PROVE  BInv'
<1>1. PushOrLose(m) /\ at[m] \in {"wheel", "dead"}
  BY Zenon DEF Expire, handleDLQReplay, ReplayDLQ
<1>2. Quiet /\ taken' = taken
  BY LogRests, Zenon DEF Expire, handleDLQReplay, ReplayDLQ, Quiet, callVars, histVars
<1> QED
  BY <1>1, <1>2, ComesBack, Zenon

-----------------------------------------------------------------------------
(* Publishing.                                                             *)

\* The messages of ms are handed to calls for the topic t.
LEMMA BeginFacts ==
  ASSUME BInv, NEW ms \in SUBSET Messages, NEW t \in Topics, NEW k \in Kinds, Begin(ms, t, k)
  PROVE  /\ UNCHANGED <<policy, log, synced, trusted, logState, first, ring, at, taken>>
         /\ call' \in [Messages -> {"idle", "begun", "logged", "pushed", "confirmed", "failed"}]
         /\ kind' \in [Messages -> Kinds \cup {"none"}]
         /\ topicOf' \in [Messages -> Topics \cup {"none"}]
         /\ \A m \in Messages \ ms : /\ call'[m] = call[m] /\ kind'[m] = kind[m]
                                     /\ topicOf'[m] = topicOf[m]
<1>1. /\ call' = [m \in Messages |-> IF m \in ms THEN "begun" ELSE call[m]]
      /\ kind' = [m \in Messages |-> IF m \in ms THEN k ELSE kind[m]]
      /\ topicOf' = [m \in Messages |-> IF m \in ms THEN t ELSE topicOf[m]]
      /\ UNCHANGED <<logVars, ring, at, taken, first>> /\ \A m \in ms : call[m] = "idle"
  BY Zenon DEF Begin
<1>2. /\ call \in [Messages -> {"idle", "begun", "logged", "pushed", "confirmed", "failed"}]
      /\ kind \in [Messages -> Kinds \cup {"none"}]
      /\ topicOf \in [Messages -> Topics \cup {"none"}]
  BY Zenon DEF BInv, Shape
<1>3. UNCHANGED <<policy, log, synced, trusted, logState, first, ring, at, taken>>
  BY <1>1, Zenon DEF logVars
<1>4. call' \in [Messages -> {"idle", "begun", "logged", "pushed", "confirmed", "failed"}]
  BY <1>1, <1>2, Zenon
<1>5. kind' \in [Messages -> Kinds \cup {"none"}]
  BY <1>1, <1>2, Zenon
<1>6. topicOf' \in [Messages -> Topics \cup {"none"}]
  BY <1>1, <1>2, Zenon
<1>7. \A m \in Messages :
        /\ call'[m] = (IF m \in ms THEN "begun" ELSE call[m])
        /\ kind'[m] = (IF m \in ms THEN k ELSE kind[m])
        /\ topicOf'[m] = (IF m \in ms THEN t ELSE topicOf[m])
  BY <1>1, Zenon
<1> QED
  BY <1>1, <1>3, <1>4, <1>5, <1>6, <1>7, Zenon

\* A message of ms.
LEMMA BeginChosen ==
  ASSUME BInv, NEW ms \in SUBSET Messages, NEW t \in Topics, NEW k \in Kinds, Begin(ms, t, k),
         NEW m \in ms
  PROVE  call[m] = "idle" /\ call'[m] = "begun" /\ kind'[m] = k /\ topicOf'[m] = t
BY Zenon DEF Begin

\* A message that has not been sent is nowhere.
LEMMA BeginPlaced ==
  ASSUME BInv, NEW ms \in SUBSET Messages, NEW t \in Topics, NEW k \in Kinds, Begin(ms, t, k)
  PROVE  Rings' /\ Synced' /\ \A m \in Messages : Placed(m)' /\ Written(m)'
<1>1. UNCHANGED <<policy, log, synced, trusted, logState, first, ring, at, taken>>
  BY BeginFacts, Zenon
<1>2. ASSUME NEW m \in ms
      PROVE  call[m] = "idle" /\ call'[m] = "begun" /\ kind'[m] = k /\ topicOf'[m] = t
  BY BeginChosen
<1>3. \A m \in Messages \ ms :
        call'[m] = call[m] /\ kind'[m] = kind[m] /\ topicOf'[m] = topicOf[m]
  BY BeginFacts, Zenon
<1>4. \A m \in Messages : Placed(m) /\ Written(m)
  BY Zenon DEF BInv
<1>5. \A m \in ms : at[m] = "none" /\ m \notin Range(log)
  BY <1>2, <1>4, Zenon DEF Placed
<1>6. ASSUME NEW u \in Topics
      PROVE  {m \in Messages : at'[m] = "ring" /\ topicOf'[m] = u}
               = {m \in Messages : at[m] = "ring" /\ topicOf[m] = u}
  BY <1>1, <1>3, <1>5, Zenon
<1>7. Rings'
  BY <1>1, <1>6, Zenon DEF BInv, Rings
<1>8. Synced'
  BY <1>1, Zenon DEF BInv, Synced
<1>9. ASSUME NEW m \in Messages
      PROVE  Placed(m)' /\ Written(m)'
  <2>1. CASE m \in ms
    BY <1>1, <1>2, <1>5, <2>1, Zenon DEF Placed, Written
  <2>2. CASE m \notin ms
    BY <1>1, <1>3, <1>4, <2>2, Zenon DEF Placed, Written
  <2> QED
    BY <2>1, <2>2, Zenon
<1> QED
  BY <1>7, <1>8, <1>9, Zenon

\* Pairs sent before stay as they are, unless their batch has been forgotten.
LEMMA BeginSent ==
  ASSUME BInv, NEW ms \in SUBSET Messages, NEW t \in Topics, NEW k \in Kinds, Begin(ms, t, k),
         NEW m \in Messages, NEW x \in Messages, <<m, x>> \in precedes,
         batch' = batch \/ batch = <<>>
  PROVE  Sent(m, x)'
<1>1. UNCHANGED <<policy, log, synced, trusted, logState, first, ring, at, taken>>
  BY BeginFacts, Zenon
<1>2. ASSUME NEW y \in ms
      PROVE  call[y] = "idle"
  BY BeginChosen, Zenon
<1>3. \A y \in Messages \ ms :
        call'[y] = call[y] /\ kind'[y] = kind[y] /\ topicOf'[y] = topicOf[y]
  BY BeginFacts, Zenon
<1>4. Sent(m, x)
  BY Zenon DEF BInv
<1>5. m \notin ms /\ x \notin ms
  BY <1>2, <1>4, Zenon DEF Sent
<1>6. Waits(m, x) => Waits(m, x)'
  BY <1>3, <1>5 DEF Waits
<1> QED
  BY <1>1, <1>3, <1>4, <1>5, <1>6, Zenon DEF Sent

\* A message that was confirmed before x is sent to its topic.
LEMMA EarlierSent ==
  ASSUME BInv, NEW ms \in SUBSET Messages, NEW t \in Topics, NEW k \in {"back", "batch"},
         Begin(ms, t, k), NEW m \in Earlier(t), NEW x \in ms
  PROVE  m \in Messages /\ Sent(m, x)'
<1>0. k \in Kinds
  BY Zenon DEF Kinds
<1>1. UNCHANGED <<policy, log, synced, trusted, logState, first, ring, at, taken>>
  BY <1>0, BeginFacts, Zenon
<1>2. call[x] = "idle" /\ call'[x] = "begun" /\ kind'[x] = k /\ topicOf'[x] = t
  BY <1>0, BeginChosen
<1>3. m \in Messages /\ call[m] = "confirmed" /\ topicOf[m] = t /\ kind[m] \in {"back", "batch"}
  BY Zenon DEF Earlier, Confirmed
<1>4. m \notin ms
  BY <1>0, <1>3, BeginChosen, Zenon
<1>5. call'[m] = call[m] /\ kind'[m] = kind[m] /\ topicOf'[m] = topicOf[m]
  BY <1>0, <1>3, <1>4, BeginFacts, Zenon
<1>6. x \in Messages /\ at[x] = "none" /\ x \notin Range(log)
  BY <1>2, Zenon DEF BInv, Placed
<1>7. InOrder(log, m, x)
  BY <1>6, Zenon DEF InOrder, Range
<1>8. InOrder(ring[t], m, x)
  <2>1. x \notin Range(ring[t])
    BY <1>6, Zenon DEF BInv, Rings
  <2> QED
    BY <2>1, Zenon DEF InOrder, Range
<1> QED
  BY <1>1, <1>2, <1>3, <1>5, <1>7, <1>8, Zenon DEF Sent

\* Publish, PublishFront and PublishDelayed get their topic.
LEMMA BeginPublishBInv ==
  ASSUME BInv, NEW y \in Messages, NEW t \in Topics, NEW k \in Kinds, BeginPublish(y, t, k)
  PROVE  BInv'
<1>1. PICK ms \in SUBSET Messages : ms = {y}
  BY Zenon
<1>2. /\ Begin(ms, t, k) /\ batch' = batch
      /\ precedes' = precedes \cup (Earlier(t) \X {x \in {y} : k = "back"})
  BY <1>1, Zenon DEF BeginPublish
<1>3. Earlier(t) \subseteq Messages
  BY Zenon DEF Earlier, Confirmed
<1>4. precedes' \subseteq Messages \X Messages
  BY <1>2, <1>3, Zenon DEF BInv, Shape
<1>5. Shape'
  <2>1. /\ UNCHANGED <<policy, log, synced, trusted, logState, first, ring, at, taken>>
        /\ call' \in [Messages -> {"idle", "begun", "logged", "pushed", "confirmed", "failed"}]
        /\ kind' \in [Messages -> Kinds \cup {"none"}]
        /\ topicOf' \in [Messages -> Topics \cup {"none"}]
    BY <1>2, BeginFacts, Zenon
  <2> QED
    BY <1>2, <1>4, <2>1, Zenon DEF BInv, Shape
<1>6. Rings' /\ Synced' /\ \A m \in Messages : Placed(m)' /\ Written(m)'
  BY <1>2, BeginPlaced, Zenon
<1>7. ASSUME NEW m \in Messages, NEW x \in Messages, <<m, x>> \in precedes'
      PROVE  Sent(m, x)'
  <2>1. CASE <<m, x>> \in precedes
    BY <1>2, <2>1, BeginSent, Zenon
  <2>2. CASE m \in Earlier(t) /\ x = y /\ k = "back"
    <3>1. x \in ms
      BY <1>1, <2>2, Zenon
    <3> QED
      BY <1>2, <2>2, <3>1, EarlierSent, Zenon
  <2> QED
    BY <1>2, <1>7, <2>1, <2>2, Zenon
<1> QED
  BY <1>5, <1>6, <1>7, Zenon DEF BInv

\* PublishBatch gets its topic: the payloads go one after the other.
LEMMA BeginBatchBInv ==
  ASSUME BInv, NEW s \in Batches, NEW t \in Topics, BeginBatch(s, t)
  PROVE  BInv'
<1> PICK n \in 1..MaxBatch : s \in Injection(1..n, Messages)
  BY Zenon DEF Batches
<1>1. s \in [1..n -> Messages] /\ IsInjective(s) /\ n \in Nat
  BY DEF Injection
<1>2. s \in Seq(Messages) /\ Len(s) = n /\ DOMAIN s = 1..n
  BY <1>1
<1>3. PICK ms \in SUBSET Messages : ms = Range(s)
  BY <1>1, Zenon DEF Range
<1>4. PICK k \in {"back", "batch"} : k = "batch" /\ k \in Kinds
  BY DEF Kinds
<1>5. PICK inner : inner = UNION {{s[i]} \X Range(SubSeq(s, i + 1, Len(s))) : i \in DOMAIN s}
  BY Zenon
<1>6. /\ Begin(ms, t, k) /\ batch' = s /\ batch = <<>>
      /\ precedes' = precedes \cup (Earlier(t) \X ms) \cup inner
  BY <1>3, <1>4, <1>5, Zenon DEF BeginBatch
<1>7. ASSUME NEW e \in inner
      PROVE  \E i, j \in 1..n : i < j /\ e = <<s[i], s[j]>>
  <2>1. PICK i \in 1..n : e \in {s[i]} \X Range(SubSeq(s, i + 1, n))
    BY <1>2, <1>5, Zenon
  <2>2. PICK r : r = SubSeq(s, i + 1, n)
    BY Zenon
  <2>3. DOMAIN r = 1..(n - i) /\ \A l \in 1..(n - i) : r[l] = s[i + l]
    BY <1>2, <2>2
  <2>4. PICK l \in 1..(n - i) : e = <<s[i], r[l]>>
    BY <2>1, <2>2, <2>3, BrokerAssumption DEF Range
  <2>5. i + l \in 1..n /\ i < i + l /\ e = <<s[i], s[i + l]>>
    BY <2>3, <2>4
  <2> QED
    BY <2>5, Zenon
<1>8. Earlier(t) \subseteq Messages
  BY Zenon DEF Earlier, Confirmed
<1>9. inner \subseteq Messages \X Messages
  BY <1>1, <1>7
<1>10. precedes' \subseteq Messages \X Messages
  BY <1>6, <1>8, <1>9, Zenon DEF BInv, Shape
<1>11. /\ UNCHANGED <<policy, log, synced, trusted, logState, first, ring, at, taken>>
       /\ call' \in [Messages -> {"idle", "begun", "logged", "pushed", "confirmed", "failed"}]
       /\ kind' \in [Messages -> Kinds \cup {"none"}]
       /\ topicOf' \in [Messages -> Topics \cup {"none"}]
  BY <1>4, <1>6, BeginFacts, Zenon
<1>12. Shape'
  BY <1>2, <1>6, <1>10, <1>11, Zenon DEF BInv, Shape
<1>13. Rings' /\ Synced' /\ \A m \in Messages : Placed(m)' /\ Written(m)'
  BY <1>4, <1>6, BeginPlaced, Zenon
<1>14. ASSUME NEW m \in Messages, NEW x \in Messages, <<m, x>> \in precedes'
       PROVE  Sent(m, x)'
  <2>1. CASE <<m, x>> \in precedes
    BY <1>4, <1>6, <2>1, BeginSent, Zenon
  <2>2. CASE m \in Earlier(t) /\ x \in ms
    BY <1>6, <2>2, EarlierSent, Zenon
  <2>3. CASE <<m, x>> \in inner
    <3>1. PICK i \in 1..n, j \in 1..n : i < j /\ <<m, x>> = <<s[i], s[j]>>
      BY <1>7, <2>3, Zenon
    <3>2. m = s[i] /\ x = s[j] /\ m # x
      BY <1>1, <3>1 DEF IsInjective
    <3>3. m \in ms /\ x \in ms
      BY <1>2, <1>3, <3>2, Zenon DEF Range
    <3>4. call[x] = "idle" /\ call'[x] = "begun" /\ kind'[x] = k /\ topicOf'[x] = t
      BY <1>4, <1>6, <3>3, BeginChosen
    <3>5. call'[m] = "begun" /\ kind'[m] = k /\ topicOf'[m] = t
      BY <1>4, <1>6, <3>3, BeginChosen
    <3>6. Waits(m, x)'
      BY <1>2, <1>6, <3>1, <3>2, <3>4, Zenon DEF Waits
    <3>7. at[x] = "none" /\ x \notin Range(log)
      BY <3>4, Zenon DEF BInv, Placed
    <3>8. x \notin Range(ring[t])
      BY <3>7, Zenon DEF BInv, Rings
    <3>9. InOrder(log, m, x) /\ InOrder(ring[t], m, x)
      BY <3>7, <3>8, Zenon DEF InOrder, Range
    <3> QED
      BY <1>4, <1>11, <3>2, <3>4, <3>5, <3>6, <3>9, Zenon DEF Sent
  <2> QED
    BY <1>6, <1>14, <2>1, <2>2, <2>3, Zenon
<1> QED
  BY <1>12, <1>13, <1>14, Zenon DEF BInv

\* The record is appended behind those of all messages that y has to wait for.
LEMMA WritePublishBInv ==
  ASSUME BInv, NEW y \in Messages, WritePublish(y)
  PROVE  BInv'
<1>1. /\ log \in Seq(Messages) /\ IsInjective(log) /\ synced \in 0..Len(log) /\ Len(log) \in Nat
      /\ call \in [Messages -> {"idle", "begun", "logged", "pushed", "confirmed", "failed"}]
      /\ trusted \in BOOLEAN /\ logState \in {"off", "open", "broken", "closed"}
      /\ batch \in Seq(Messages)
  BY DEF BInv, Shape
<1>2. /\ UNCHANGED <<policy, ring, at, kind, topicOf, batch, taken, precedes, first>>
      /\ call[y] = "begun" /\ Current(y)
  BY Zenon DEF WritePublish, topicVars, histVars
<1>3. PICK c \in {"logged", "failed"} : call' = [call EXCEPT ![y] = c]
  BY Zenon DEF WritePublish
<1>4. /\ call' \in [Messages -> {"idle", "begun", "logged", "pushed", "confirmed", "failed"}]
      /\ call'[y] = c /\ \A m \in Messages : m # y => call'[m] = call[m]
  BY <1>1, <1>3, Zenon
<1>5. /\ at[y] = "none" /\ y \notin Range(log) /\ topicOf[y] \in Topics /\ kind[y] \in Kinds
  BY <1>2, Zenon DEF BInv, Placed
<1>6. /\ Append(log, y) \in Seq(Messages) /\ IsInjective(Append(log, y))
      /\ Range(Append(log, y)) = Range(log) \cup {y}
  BY <1>1, <1>5, AppendKeeps, Zenon
<1>7. Len(Append(log, y)) = Len(log) + 1
  BY <1>1
<1>8. /\ log' \in Seq(Messages) /\ IsInjective(log') /\ synced' \in 0..Len(log')
      /\ trusted' \in BOOLEAN /\ logState' \in {"off", "open", "broken", "closed"} /\ Synced'
  <2>1. CASE WriteRecord(Append(log, y))
    <3>1. /\ log' = Append(log, y) /\ logState = "open" /\ logState' \in {"open", "broken"}
          /\ trusted' \in BOOLEAN
      BY <1>1, <2>1, Zenon DEF WriteRecord
    <3>2. \/ /\ trusted' = TRUE /\ logState' = "open"
             /\ synced' = Len(log') \/ (policy # "always" /\ synced' = synced)
          \/ trusted' = FALSE /\ synced' = 0
      BY <1>1, <2>1, <3>1 DEF WriteRecord
    <3>3. synced' \in 0..Len(log')
      BY <1>1, <1>7, <3>1, <3>2
    <3>4. policy # "off"
      BY <3>1, Zenon DEF BInv, Synced
    <3>5. Synced'
      BY <1>2, <3>1, <3>2, <3>4, Zenon DEF Synced
    <3> QED
      BY <1>6, <3>1, <3>3, <3>5, Zenon
  <2>2. CASE RefuseRecord \/ NoLog
    <3>1. LogStands
      BY <1>2, <2>2, LogWorks, Zenon
    <3> QED
      BY <1>1, <3>1, Zenon DEF LogStands
  <2> QED
    BY <2>1, <2>2, Zenon DEF WritePublish
<1>9. log' = log \/ log' = Append(log, y)
  BY Zenon DEF WritePublish, WriteRecord, RefuseRecord, NoLog
<1>10. Shape'
  BY <1>2, <1>4, <1>8, Zenon DEF BInv, Shape
<1>11. Rings'
  BY <1>2, Zenon DEF BInv, Rings
<1>12. Range(log) \subseteq Range(log') /\ Range(log') \subseteq Range(log) \cup {y}
  BY <1>6, <1>9, Zenon
<1>13. ASSUME NEW m \in Messages
       PROVE  Placed(m)'
  <2>1. Placed(m)
    BY Zenon DEF BInv
  <2> QED
    BY <1>2, <1>4, <1>5, <1>12, <2>1, Zenon DEF Placed
<1>14. ASSUME NEW m \in Messages
       PROVE  Written(m)'
  <2>1. Written(m)
    BY Zenon DEF BInv
  <2>2. logState # "open" => logState' # "open"
    BY Zenon DEF WritePublish, WriteRecord, RefuseRecord, NoLog
  <2>3. CASE m # y
    BY <1>2, <1>4, <1>12, <2>1, <2>2, <2>3, Zenon DEF Written
  <2>4. CASE m = y
    <3>1. CASE WriteRecord(Append(log, y))
      <4>1. y \in Range(log')
        BY <1>6, <3>1, Zenon DEF WriteRecord
      <4> QED
        BY <2>4, <4>1, Zenon DEF Written
    <3>2. CASE NoLog
      BY <1>2, <3>2, Zenon DEF NoLog, BInv, Synced, Written
    <3>3. CASE /\ RefuseRecord
               /\ call' = [call EXCEPT ![y] = IF kind[y] = "batch" THEN "logged" ELSE "failed"]
      <4>1. logState' # "open"
        BY <3>3, Zenon DEF RefuseRecord
      <4> QED
        BY <1>1, <1>2, <1>5, <2>4, <3>3, <4>1, Zenon DEF Written
    <3> QED
      BY <3>1, <3>2, <3>3, Zenon DEF WritePublish
  <2> QED
    BY <2>3, <2>4, Zenon
<1>15. ASSUME NEW m \in Messages, NEW x \in Messages, <<m, x>> \in precedes
       PROVE  Sent(m, x)'
  <2>1. Sent(m, x)
    BY <1>15, Zenon DEF BInv
  <2>2. /\ m # x /\ (call[m] \in {"pushed", "confirmed", "failed"} \/ Waits(m, x))
        /\ first => InOrder(log, m, x)
    BY <2>1, Zenon DEF Sent
  <2>3. call'[m] \in {"pushed", "confirmed", "failed"} \/ Waits(m, x)'
    <3>1. CASE call[m] \in {"pushed", "confirmed", "failed"}
      BY <1>2, <1>4, <3>1, Zenon
    <3>2. CASE Waits(m, x) /\ x # y
      BY <1>2, <1>4, <3>2, Zenon DEF Waits
    <3>3. CASE Waits(m, x) /\ x = y
      <4>1. call[m] \in {"pushed", "failed"}
        BY <1>2, <3>3, Zenon DEF Waits, Current
      <4> QED
        BY <1>4, <2>2, <3>3, <4>1, Zenon
    <3> QED
      BY <2>2, <3>1, <3>2, <3>3, Zenon
  <2>4. first => InOrder(log', m, x)
    <3>1. y = m => x \notin Range(log)
      BY <1>2, <2>2, Zenon DEF Waits, BInv, Placed
    <3>2. first => InOrder(Append(log, y), m, x)
      BY <1>1, <2>2, <3>1, AppendKeeps, Zenon
    <3> QED
      BY <1>9, <2>2, <3>2, Zenon
  <2>5. call'[m] # "idle" /\ call'[x] # "idle"
    BY <1>4, <2>1, Zenon DEF Sent
  <2> QED
    BY <1>2, <2>1, <2>3, <2>4, <2>5, Zenon DEF Sent
<1> QED
  BY <1>2, <1>8, <1>10, <1>11, <1>13, <1>14, <1>15, Zenon DEF BInv

\* Push: at the back behind all that was sent before, or at the front.
LEMMA PushBInv ==
  ASSUME BInv, NEW y \in Messages, Push(y)
  PROVE  BInv'
<1>1. /\ ring \in [Topics -> Seq(Messages)] /\ at \in [Messages -> Places]
      /\ call \in [Messages -> {"idle", "begun", "logged", "pushed", "confirmed", "failed"}]
      /\ batch \in Seq(Messages)
  BY Zenon DEF BInv, Shape
<1>2. /\ UNCHANGED <<policy, log, synced, trusted, logState, first, kind, topicOf, batch, taken, precedes>>
      /\ call[y] = "logged"
  BY Zenon DEF Push, logVars, histVars
<1>3. PICK c \in {"pushed", "failed"} : call' = [call EXCEPT ![y] = c]
  BY Zenon DEF Push
<1>4. /\ call' \in [Messages -> {"idle", "begun", "logged", "pushed", "confirmed", "failed"}]
      /\ call'[y] = c /\ \A m \in Messages : m # y => call'[m] = call[m]
  BY <1>1, <1>3, Zenon
<1>5. at[y] = "none" /\ topicOf[y] \in Topics /\ kind[y] \in Kinds /\ Written(y)
  BY <1>2, Zenon DEF BInv, Placed
<1>6. PICK t \in Topics : t = topicOf[y]
  BY <1>5, Zenon
<1>7. PICK q \in Seq(Messages) : q = ring[t]
  BY <1>1, Zenon
<1>8. IsInjective(q) /\ Range(q) = {m \in Messages : at[m] = "ring" /\ topicOf[m] = t}
  BY <1>7, Zenon DEF BInv, Rings
<1>9. y \notin Range(q)
  BY <1>5, <1>8, Zenon
<1>10. ASSUME NEW m \in Messages, NEW x \in Messages, <<m, x>> \in precedes
       PROVE  /\ call'[m] \in {"pushed", "confirmed", "failed"} \/ Waits(m, x)'
              /\ call'[m] # "idle" /\ call'[x] # "idle"
              /\ m = y => call[x] = "begun"
  <2>1. /\ m # x /\ (call[m] \in {"pushed", "confirmed", "failed"} \/ Waits(m, x))
        /\ call[m] # "idle" /\ call[x] # "idle"
    BY <1>10, Zenon DEF BInv, Sent
  <2>2. Waits(m, x) => Waits(m, x)'
    BY <1>2, <1>4, Zenon DEF Waits
  <2>3. m = y => call[x] = "begun"
    BY <1>2, <2>1, Zenon DEF Waits
  <2> QED
    BY <1>2, <1>4, <2>1, <2>2, <2>3, Zenon
<1>11. Synced'
  BY <1>2, Zenon DEF BInv, Synced
<1>12. CASE UNCHANGED <<ring, at>>
  <2>1. Shape' /\ Rings'
    BY <1>2, <1>4, <1>12, Zenon DEF BInv, Shape, Rings
  <2>2. ASSUME NEW m \in Messages
        PROVE  Placed(m)' /\ Written(m)'
    <3>1. Placed(m) /\ Written(m)
      BY Zenon DEF BInv
    <3> QED
      BY <1>2, <1>4, <1>5, <1>12, <3>1, Zenon DEF Placed, Written
  <2>3. ASSUME NEW m \in Messages, NEW x \in Messages, <<m, x>> \in precedes
        PROVE  Sent(m, x)'
    <3>1. Sent(m, x)
      BY <2>3, Zenon DEF BInv
    <3> QED
      BY <1>2, <1>10, <1>12, <2>3, <3>1, Zenon DEF Sent
  <2> QED
    BY <1>2, <1>11, <2>1, <2>2, <2>3, Zenon DEF BInv
<1>13. CASE /\ ring' = [ring EXCEPT ![t] = IF kind[y] = "front" THEN <<y>> \o @ ELSE Append(@, y)]
            /\ at' = [at EXCEPT ![y] = "ring"]
  <2>1. PICK r : r = IF kind[y] = "front" THEN <<y>> \o q ELSE Append(q, y)
    BY ZenonT(30)
  <2>2. r \in Seq(Messages) /\ IsInjective(r) /\ Range(r) = Range(q) \cup {y}
    BY <1>8, <1>9, <2>1, AppendKeeps, FrontKeeps, Zenon
  <2>3. /\ ring' \in [Topics -> Seq(Messages)] /\ ring'[t] = r
        /\ \A u \in Topics : u # t => ring'[u] = ring[u]
    BY <1>1, <1>7, <1>13, <2>1, <2>2, Zenon
  <2>4. /\ at' \in [Messages -> Places] /\ at'[y] = "ring"
        /\ \A m \in Messages : m # y => at'[m] = at[m]
    BY <1>1, <1>13, Zenon DEF Places
  <2>5. Shape'
    BY <1>2, <1>4, <2>3, <2>4, Zenon DEF BInv, Shape
  <2>6. Rings'
    <3> SUFFICES ASSUME NEW u \in Topics
                 PROVE  /\ IsInjective(ring'[u])
                        /\ Range(ring'[u]) = {m \in Messages : at'[m] = "ring" /\ topicOf[m] = u}
      BY <1>2, Zenon DEF Rings
    <3>1. CASE u = t
      BY <1>6, <1>8, <2>2, <2>3, <2>4, <3>1, Zenon
    <3>2. CASE u # t
      <4>1. /\ ring'[u] = ring[u] /\ IsInjective(ring[u])
            /\ Range(ring[u]) = {m \in Messages : at[m] = "ring" /\ topicOf[m] = u}
        BY <2>3, <3>2, Zenon DEF BInv, Rings
      <4> QED
        BY <1>6, <2>4, <3>2, <4>1, Zenon
    <3> QED
      BY <3>1, <3>2, Zenon
  <2>7. ASSUME NEW m \in Messages
        PROVE  Placed(m)' /\ Written(m)'
    <3>1. Placed(m) /\ Written(m)
      BY DEF BInv
    <3>2. CASE m = y
      BY <1>2, <1>4, <1>5, <2>4, <3>1, <3>2, ZenonT(30) DEF Placed, Written
    <3>3. CASE m # y
      BY <1>2, <1>4, <2>4, <3>1, <3>3, Zenon DEF Placed, Written
    <3> QED
      BY <3>2, <3>3, Zenon
  <2>8. ASSUME NEW m \in Messages, NEW x \in Messages, <<m, x>> \in precedes
        PROVE  Sent(m, x)'
    <3>1. Sent(m, x)
      BY <2>8, Zenon DEF BInv
    <3>2. /\ m # x /\ kind[m] # "front" /\ kind[x] # "front"
          /\ topicOf[m] \in Topics
      BY <3>1, ZenonT(30) DEF BInv, Sent, Placed
    <3>3. ASSUME InOrder(ring[topicOf[m]], m, x)
          PROVE  InOrder(ring'[topicOf[m]], m, x)
      <4>1. CASE topicOf[m] # t
        BY <2>3, <3>2, <3>3, <4>1, Zenon
      <4>2. CASE topicOf[m] = t
        <5>1. InOrder(q, m, x)
          BY <1>7, <3>3, <4>2, Zenon
        <5>2. CASE kind[y] = "front"
          <6>1. y # m /\ y # x
            BY <3>2, <5>2, Zenon
          <6>2. InOrder(<<y>> \o q, m, x)
            BY <5>1, <6>1, FrontKeeps, Zenon
          <6> QED
            BY <2>1, <2>3, <4>2, <5>2, <6>2, Zenon
        <5>3. CASE kind[y] # "front"
          <6>1. y = m => x \notin Range(q)
            BY <1>8, <1>10, <2>8, Zenon DEF BInv, Placed
          <6>2. InOrder(Append(q, y), m, x)
            BY <3>2, <5>1, <6>1, AppendKeeps, Zenon
          <6> QED
            BY <2>1, <2>3, <4>2, <5>3, <6>2, ZenonT(30)
        <5> QED
          BY <5>2, <5>3, Zenon
      <4> QED
        BY <4>1, <4>2, Zenon
    <3> QED
      BY <1>2, <1>10, <2>8, <3>1, <3>3, ZenonT(30) DEF Sent
  <2> QED
    BY <1>2, <1>11, <2>5, <2>6, <2>7, <2>8, Zenon DEF BInv
<1> QED
  BY <1>6, <1>12, <1>13, Zenon DEF Push

\* A delayed message has no order to keep.
LEMMA ScheduleBInv ==
  ASSUME BInv, NEW y \in Messages, Schedule(y)
  PROVE  BInv'
<1>1. /\ at \in [Messages -> Places]
      /\ call \in [Messages -> {"idle", "begun", "logged", "pushed", "confirmed", "failed"}]
  BY Zenon DEF BInv, Shape
<1>2. /\ UNCHANGED <<policy, log, synced, trusted, logState, first, ring, kind, topicOf, batch, taken, precedes>>
      /\ call[y] = "logged" /\ kind[y] = "delayed" /\ call' = [call EXCEPT ![y] = "pushed"]
  BY Zenon DEF Schedule, logVars, histVars
<1>3. PICK p \in {"gone", "wheel"} : at' = [at EXCEPT ![y] = p]
  BY Zenon DEF Schedule, WheelOrLost
<1>4. /\ call' \in [Messages -> {"idle", "begun", "logged", "pushed", "confirmed", "failed"}]
      /\ call'[y] = "pushed" /\ \A m \in Messages : m # y => call'[m] = call[m]
  BY <1>1, <1>2, Zenon
<1>5. /\ at' \in [Messages -> Places] /\ at'[y] = p /\ \A m \in Messages : m # y => at'[m] = at[m]
  BY <1>1, <1>3, Zenon DEF Places
<1>6. at[y] = "none" /\ Placed(y) /\ Written(y)
  BY <1>2, Zenon DEF BInv, Placed
<1>7. Shape' /\ Synced'
  BY <1>2, <1>4, <1>5, Zenon DEF BInv, Shape, Synced
<1>8. \A m \in Messages : at'[m] = "ring" <=> at[m] = "ring"
  BY <1>5, <1>6, Zenon
<1>9. Rings'
  BY <1>2, <1>8, Zenon DEF BInv, Rings
<1>10. ASSUME NEW m \in Messages
       PROVE  Placed(m)' /\ Written(m)'
  <2>1. Placed(m) /\ Written(m)
    BY Zenon DEF BInv
  <2>2. CASE m = y
    BY <1>2, <1>4, <1>5, <1>6, <2>2, Zenon DEF Placed, Written
  <2>3. CASE m # y
    BY <1>2, <1>4, <1>5, <2>1, <2>3, Zenon DEF Placed, Written
  <2> QED
    BY <2>2, <2>3, Zenon
<1>11. ASSUME NEW m \in Messages, NEW x \in Messages, <<m, x>> \in precedes
       PROVE  Sent(m, x)'
  <2>1. Sent(m, x)
    BY <1>11, Zenon DEF BInv
  <2>2. m # y /\ x # y
    BY <1>2, <2>1, Zenon DEF Sent
  <2>3. Waits(m, x)' <=> Waits(m, x)
    BY <1>2, <1>4, <2>2, Zenon DEF Waits
  <2> QED
    BY <1>2, <1>4, <2>1, <2>2, <2>3, Zenon DEF Sent
<1> QED
  BY <1>2, <1>7, <1>9, <1>10, <1>11, Zenon DEF BInv

\* The call of m goes on from the push to the confirmation, or not at all.
Returns(m) == call'[m] = call[m] \/ (call[m] = "pushed" /\ call'[m] = "confirmed")

\* A batch is over when nothing in it is still to be pushed.
LEMMA ReturnKeeps ==
  ASSUME BInv, UNCHANGED <<policy, log, synced, trusted, logState, first, ring, at, kind, topicOf, taken, precedes>>,
         call' \in [Messages -> {"idle", "begun", "logged", "pushed", "confirmed", "failed"}],
         \A m \in Messages : Returns(m), batch' \in Seq(Messages),
         batch' = batch \/ \A i \in DOMAIN batch : call[batch[i]] \in {"pushed", "failed"}
  PROVE  BInv'
<1>1. Shape' /\ Rings' /\ Synced'
  BY Zenon DEF BInv, Shape, Rings, Synced
<1>2. ASSUME NEW m \in Messages
      PROVE  Placed(m)' /\ Written(m)'
  <2>1. Placed(m) /\ Written(m) /\ Returns(m)
    BY Zenon DEF BInv
  <2> QED
    BY <2>1, Zenon DEF Placed, Written, Returns
<1>3. ASSUME NEW m \in Messages, NEW x \in Messages, <<m, x>> \in precedes
      PROVE  Sent(m, x)'
  <2>1. Sent(m, x) /\ Returns(m) /\ Returns(x)
    BY <1>3, Zenon DEF BInv
  <2>2. call'[m] \in {"pushed", "confirmed", "failed"} \/ Waits(m, x)'
    <3>1. CASE call[m] \in {"pushed", "confirmed", "failed"}
      BY <2>1, <3>1, Zenon DEF Returns
    <3>2. CASE Waits(m, x) /\ batch' = batch
      BY <2>1, <3>2, Zenon DEF Returns, Waits
    <3>3. CASE Waits(m, x) /\ \A i \in DOMAIN batch : call[batch[i]] \in {"pushed", "failed"}
      <4>1. call[m] \in {"pushed", "failed"}
        BY <3>3, Zenon DEF Waits
      <4> QED
        BY <2>1, <4>1, Zenon DEF Returns
    <3> QED
      BY <2>1, <3>1, <3>2, <3>3, Zenon DEF Sent
  <2> QED
    BY <2>1, <2>2, Zenon DEF Sent, Returns
<1> QED
  BY <1>1, <1>2, <1>3, Zenon DEF BInv

\* The ends of the publish calls.
LEMMA ReturnBInv ==
  ASSUME BInv, ReturnBatch \/ \E m \in Messages : Return(m)
  PROVE  BInv'
<1>1. /\ call \in [Messages -> {"idle", "begun", "logged", "pushed", "confirmed", "failed"}]
      /\ batch \in Seq(Messages)
  BY Zenon DEF BInv, Shape
<1>2. UNCHANGED <<policy, log, synced, trusted, logState, first, ring, at, kind, topicOf, taken, precedes>>
  BY Zenon DEF Return, ReturnBatch, logVars, topicVars, histVars
<1>3. CASE ReturnBatch
  <2>1. PICK accepted : accepted = {m \in Range(batch) : call[m] = "pushed"}
    BY Zenon
  <2>2. /\ call' = [m \in Messages |-> IF m \in accepted THEN "confirmed" ELSE call[m]]
        /\ batch' = <<>> /\ \A m \in Range(batch) : call[m] \in {"pushed", "failed"}
    BY <1>3, <2>1, Zenon DEF ReturnBatch
  <2>3. call' \in [Messages -> {"idle", "begun", "logged", "pushed", "confirmed", "failed"}]
    BY <1>1, <2>2, Zenon
  <2>4. \A m \in Messages : Returns(m)
    BY <2>1, <2>2, Zenon DEF Returns
  <2>5. \A i \in DOMAIN batch : call[batch[i]] \in {"pushed", "failed"}
    BY <2>2, Zenon DEF Range
  <2>6. batch' \in Seq(Messages)
    BY <2>2
  <2> QED
    BY <1>2, <2>3, <2>4, <2>5, <2>6, ReturnKeeps, Zenon
<1>4. ASSUME NEW y \in Messages, Return(y)
      PROVE  BInv'
  <2>1. call' = [call EXCEPT ![y] = "confirmed"] /\ call[y] = "pushed" /\ batch' = batch
    BY <1>4, Zenon DEF Return
  <2>2. call' \in [Messages -> {"idle", "begun", "logged", "pushed", "confirmed", "failed"}]
    BY <1>1, <2>1, Zenon
  <2>3. \A m \in Messages : Returns(m)
    BY <1>1, <2>1, Zenon DEF Returns
  <2> QED
    BY <1>1, <1>2, <2>1, <2>2, <2>3, ReturnKeeps, Zenon
<1> QED
  BY <1>3, <1>4, Zenon

-----------------------------------------------------------------------------
(* The first state, the log's ticker and Close.                            *)

\* Nothing is published at first.
LEMMA InitBInv == Init => BInv
<1> SUFFICES ASSUME Init
             PROVE  BInv
  BY Zenon
<1>1. /\ log = <<>> /\ synced = 0 /\ trusted = TRUE /\ ring = [t \in Topics |-> <<>>] /\ precedes = {} /\ taken = {}
      /\ at = [m \in Messages |-> "none"] /\ call = [m \in Messages |-> "idle"]
      /\ kind = [m \in Messages |-> "none"] /\ topicOf = [m \in Messages |-> "none"]
      /\ batch = <<>> /\ policy \in {"off", "always", "everysec"}
      /\ logState = IF policy = "off" THEN "off" ELSE "open"
  BY Zenon DEF Init
<1>2. <<>> \in Seq(Messages) /\ DOMAIN <<>> = {} /\ Len(<<>>) = 0
  OBVIOUS
<1>3. IsInjective(<<>>) /\ Range(<<>>) = {}
  BY <1>2, Zenon DEF IsInjective, Range
<1>4. Shape
  <2>1. log \in Seq(Messages) /\ IsInjective(log) /\ synced \in 0..Len(log) /\ batch \in Seq(Messages)
    BY <1>1, <1>2, <1>3
  <2> QED
    BY <1>1, <1>2, <2>1, Zenon DEF Shape, Places
<1>5. Rings /\ Synced
  BY <1>1, <1>2, <1>3 DEF Rings, Synced
<1>6. \A m \in Messages : Placed(m) /\ Written(m)
  BY <1>1, <1>3, Zenon DEF Placed, Written
<1> QED
  BY <1>1, <1>4, <1>5, <1>6, Zenon DEF BInv

\* Steps of the topics and of Close that touch no message.
LEMMA IdleBInv ==
  ASSUME BInv, \/ \E t \in Topics : CreateTopic(t) \/ CloseTopic(t)
               \/ BeginClose \/ UNCHANGED vars
  PROVE  BInv'
<1>1. UNCHANGED <<policy, log, synced, trusted, logState, first, ring, at, call, kind, topicOf, batch, taken, precedes>>
  BY Zenon DEF CreateTopic, CloseTopic, BeginClose, vars, logVars, topicVars, callVars, histVars
<1>2. Shape' /\ Synced'
  BY <1>1, Zenon DEF BInv, Shape, Synced
<1>3. Rings'
  BY <1>1, Zenon DEF BInv, Rings
<1>4. ASSUME NEW m \in Messages
      PROVE  Placed(m)' /\ Written(m)'
  BY <1>1, Zenon DEF BInv, Placed, Written
<1>5. ASSUME NEW m \in Messages, NEW x \in Messages, <<m, x>> \in precedes'
      PROVE  Sent(m, x)'
  <2>1. Sent(m, x)
    BY <1>1, <1>5, Zenon DEF BInv
  <2> QED
    BY <1>1, <2>1, Zenon DEF Sent, Waits
<1> QED
  BY <1>2, <1>3, <1>4, <1>5, Zenon DEF BInv

\* The log's own steps touch no message.
LEMMA SyncBInv ==
  ASSUME BInv, Sync \/ CloseLog
  PROVE  BInv'
<1>1. Quiet /\ UNCHANGED <<ring, at, taken>>
  BY LogWorks, Zenon DEF Sync, CloseLog, Quiet, topicVars, callVars, histVars
<1>2. at' \in [Messages -> Places] /\ \A m \in Messages : Settles(m)
  BY <1>1, Zenon DEF BInv, Shape, Settles
<1> QED
  BY <1>1, <1>2, SettleKeeps, Zenon

-----------------------------------------------------------------------------
(* The recovery.                                                           *)

\* What the recovery does with one record.
Pushing(l, t, n, q) == IF topicOf[l[n]] = t THEN Append(q, l[n]) ELSE q

\* One unfolding of the loop.
RecoveringBody(l, t, h) ==
  [n \in 0..Len(l) |->
     IF n = 0 THEN <<>>
     ELSE IF topicOf[l[n]] = t THEN Append(h[n - 1], l[n]) ELSE h[n - 1]]

\* The loop over the log, record by record.
LEMMA RecoveringLoop ==
  ASSUME NEW l \in Seq(Messages), NEW t
  PROVE  /\ Recovering(l, t)[0] = <<>>
         /\ \A n \in 1..Len(l) : Recovering(l, t)[n] = Pushing(l, t, n, Recovering(l, t)[n - 1])
<1>1. PICK N \in Nat : N = Len(l)
  OBVIOUS
<1>2. \A n \in 1..N, q \in Seq(Messages) : Pushing(l, t, n, q) \in Seq(Messages)
  BY <1>1 DEF Pushing
<1>3. PICK round : round = [n \in 1..N |-> [q \in Seq(Messages) |-> Pushing(l, t, n, q)]]
  BY Zenon
<1>4. round \in [1..N -> [Seq(Messages) -> Seq(Messages)]]
  BY <1>2, <1>3, Zenon
<1>5. <<>> \in Seq(Messages)
  OBVIOUS
<1>6. PICK f \in [0..N -> Seq(Messages)] :
        f[0] = <<>> /\ \A n \in 1..N : f[n] = round[n][f[n - 1]]
  <2>1. PICK A, a : A = Seq(Messages) /\ a = <<>>
    BY Zenon
  <2>2. a \in A /\ round \in [1..N -> [A -> A]]
    BY <1>4, <1>5, <2>1, Zenon
  <2>3. PICK f : Loops(N, A, a, round, f)
    BY <2>2, LoopExists, Zenon
  <2> QED
    BY <2>1, <2>3, Zenon DEF Loops
<1>7. \A n \in 1..N : n - 1 \in 0..N /\ n \in 0..N
  OBVIOUS
<1>8. \A n \in 1..N : f[n] = Pushing(l, t, n, f[n - 1])
  BY <1>3, <1>6, <1>7, Zenon
<1>9. f = RecoveringBody(l, t, f)
  <2>1. \A n \in 0..N : n = 0 \/ n \in 1..N
    OBVIOUS
  <2> QED
    BY <1>1, <1>6, <1>8, <2>1, Zenon DEF Pushing, RecoveringBody
<1>10. Recovering(l, t) = CHOOSE h : h = RecoveringBody(l, t, h)
  BY DEF Recovering, RecoveringBody
<1>11. Recovering(l, t) = RecoveringBody(l, t, Recovering(l, t))
  BY <1>9, <1>10, Zenon
<1>12. PICK h : h = Recovering(l, t)
  BY Zenon
<1>13. h[0] = <<>> /\ \A n \in 1..N : h[n] = Pushing(l, t, n, h[n - 1])
  <2>1. h = RecoveringBody(l, t, h)
    BY <1>11, <1>12, Zenon
  <2>2. /\ RecoveringBody(l, t, h)[0] = <<>>
        /\ \A n \in 0..N : n # 0 => RecoveringBody(l, t, h)[n] = Pushing(l, t, n, h[n - 1])
    BY <1>1 DEF RecoveringBody, Pushing
  <2> QED
    BY <2>1, <2>2
<1> QED
  BY <1>1, <1>12, <1>13, Zenon

\* The messages of t among the first n records of l.
Found(l, t, n) == {m \in Messages : topicOf[m] = t /\ \E i \in 1..n : l[i] = m}

\* q has its messages in the order of l.
OrderOf(l, q) == \A m, x \in Messages : m # x /\ InOrder(l, m, x) => InOrder(q, m, x)

\* q is what the recovery has made of the first n records of l.
Partial(l, t, n, q) ==
  q \in Seq(Messages) /\ IsInjective(q) /\ Range(q) = Found(l, t, n) /\ OrderOf(l, q)

\* One record more.
LEMMA RecoverOne ==
  ASSUME NEW l \in Seq(Messages), IsInjective(l), NEW t,
         NEW n \in Nat, n + 1 \in 1..Len(l), NEW q, Partial(l, t, n, q)
  PROVE  Partial(l, t, n + 1, Pushing(l, t, n + 1, q))
<1>1. PICK k \in 1..Len(l) : k = n + 1
  BY Zenon
<1>2. PICK y \in Messages : y = l[k]
  OBVIOUS
<1>3. DOMAIN l = 1..Len(l) /\ \A i \in 1..n : i \in 1..Len(l) /\ i < k
  BY <1>1
<1>4. \A i \in 1..k : i \in 1..n \/ i = k
  BY <1>1
<1>5. k \in 1..k /\ \A i \in 1..n : i \in 1..k
  BY <1>1
<1>6. Found(l, t, k) = Found(l, t, n) \cup {m \in {y} : topicOf[m] = t}
  BY <1>2, <1>4, <1>5, Zenon DEF Found
<1>7. y \notin Found(l, t, n)
  BY <1>2, <1>3 DEF Found, IsInjective
<1>8. CASE topicOf[y] = t
  <2>1. Pushing(l, t, k, q) = Append(q, y)
    BY <1>2, <1>8, Zenon DEF Pushing
  <2>2. q \in Seq(Messages) /\ IsInjective(q) /\ y \notin Range(q)
    BY <1>7, Zenon DEF Partial
  <2>3. /\ Append(q, y) \in Seq(Messages) /\ Range(Append(q, y)) = Range(q) \cup {y}
        /\ IsInjective(Append(q, y))
    BY <2>2, AppendKeeps, Zenon
  <2>4. ASSUME NEW m \in Messages, NEW x \in Messages, m # x, InOrder(l, m, x)
        PROVE  InOrder(Append(q, y), m, x)
    <3>1. InOrder(q, m, x)
      BY <2>4, Zenon DEF Partial, OrderOf
    <3>2. ASSUME y = m, x \in Range(q)
          PROVE  FALSE
      <4>1. PICK i \in 1..n : l[i] = x
        BY <3>2, Zenon DEF Partial, Found
      <4>2. k < i
        BY <1>2, <1>3, <2>4, <3>2, <4>1, Zenon DEF InOrder
      <4> QED
        BY <1>3, <4>1, <4>2
    <3> QED
      BY <2>2, <2>4, <3>1, <3>2, AppendKeeps, Zenon
  <2>5. Range(Append(q, y)) = Found(l, t, k)
    BY <1>6, <1>8, <2>3, Zenon DEF Partial
  <2>6. OrderOf(l, Append(q, y))
    BY <2>4, Zenon DEF OrderOf
  <2> QED
    BY <1>1, <2>1, <2>3, <2>5, <2>6, Zenon DEF Partial
<1>9. CASE topicOf[y] # t
  <2>1. Pushing(l, t, k, q) = q
    BY <1>2, <1>9, Zenon DEF Pushing
  <2>2. Found(l, t, k) = Found(l, t, n)
    BY <1>6, <1>9, Zenon
  <2> QED
    BY <1>1, <2>1, <2>2, Zenon DEF Partial
<1> QED
  BY <1>8, <1>9, Zenon

\* The recovery publishes into t the messages of t, each once, in the log's order.
LEMMA RecoveredFacts ==
  ASSUME NEW l \in Seq(Messages), IsInjective(l), NEW t
  PROVE  /\ Recovered(l, t) \in Seq(Messages) /\ IsInjective(Recovered(l, t))
         /\ Range(Recovered(l, t)) = {m \in Range(l) : topicOf[m] = t}
         /\ \A m, x \in Messages : m # x /\ InOrder(l, m, x) => InOrder(Recovered(l, t), m, x)
<1>1. PICK N \in Nat : N = Len(l)
  OBVIOUS
<1>2. PICK h : h = Recovering(l, t)
  BY Zenon
<1>3. h[0] = <<>> /\ \A n \in 1..N : h[n] = Pushing(l, t, n, h[n - 1])
  BY <1>1, <1>2, RecoveringLoop, Zenon
<1> DEFINE S == {n \in 0..N : Partial(l, t, n, h[n])}
<1>4. 0 \in S
  <2>1. <<>> \in Seq(Messages) /\ DOMAIN <<>> = {}
    OBVIOUS
  <2>2. IsInjective(<<>>) /\ Range(<<>>) = {} /\ OrderOf(l, <<>>)
    BY <2>1, Zenon DEF IsInjective, Range, OrderOf, InOrder
  <2>3. Found(l, t, 0) = {}
    BY DEF Found
  <2>4. Partial(l, t, 0, h[0])
    BY <1>3, <2>1, <2>2, <2>3, Zenon DEF Partial
  <2> QED
    BY <2>4
<1>5. ASSUME NEW n \in 0..N, n < N, n \in S
      PROVE  n + 1 \in S
  <2>1. PICK k \in 1..N : k = n + 1 /\ k - 1 = n
    BY <1>5
  <2>2. h[k] = Pushing(l, t, k, h[n])
    BY <1>3, <2>1, Zenon
  <2>3. Partial(l, t, k, Pushing(l, t, k, h[n]))
    BY <1>1, <1>5, <2>1, RecoverOne
  <2> QED
    BY <2>1, <2>2, <2>3
<1>6. \A n \in 0..N : n \in S
  <2> HIDE DEF S
  <2> QED
    BY <1>4, <1>5, UpTo, Zenon
<1>7. Partial(l, t, N, Recovered(l, t))
  BY <1>1, <1>2, <1>6 DEF Recovered
<1>8. Found(l, t, N) = {m \in Range(l) : topicOf[m] = t}
  BY <1>1 DEF Found, Range
<1> QED
  BY <1>7, <1>8, Zenon DEF Partial, OrderOf

-----------------------------------------------------------------------------
(* A restart.                                                              *)

\* s consists of records of the log, each at most once.
Records(s) == s \in Seq(Messages) /\ IsInjective(s) /\ Range(s) \subseteq Range(log)

\* So does whatever Replay can be given.
LEMMA RecordsOfLog ==
  ASSUME NEW s \in Logs, Restart(s)
  PROVE  Records(s)
<1>1. PICK n \in 0..Cardinality(Messages) : s \in Injection(1..n, Messages)
  BY Zenon DEF Logs
<1>2. n \in Nat
  OBVIOUS
<1>3. s \in [1..n -> Messages] /\ IsInjective(s)
  BY <1>1, Zenon DEF Injection
<1>4. s \in Seq(Messages)
  BY <1>2, <1>3
<1> QED
  BY <1>3, <1>4, Zenon DEF Records, Restart, Replay

\* A restart builds the rings from what Replay finds.
LEMMA RestartFacts ==
  ASSUME BInv, NEW s, Records(s), Restart(s)
  PROVE  /\ \A t \in Topics : ring'[t] = Recovered(s, t)
         /\ ring' \in [Topics -> Seq(Messages)]
         /\ Rings'
<1>1. s \in Seq(Messages) /\ IsInjective(s)
  BY Zenon DEF Records
<1>2. /\ topicOf' = topicOf /\ ring' = [t \in Topics |-> Recovered(s, t)]
      /\ at' = [m \in Messages |-> IF m \in Range(s) THEN "ring" ELSE "none"]
  BY Zenon DEF Restart
<1>3. \A t \in Topics : Recovered(s, t) \in Seq(Messages)
  BY <1>1, RecoveredFacts, Zenon
<1>4. ring' \in [Topics -> Seq(Messages)] /\ \A t \in Topics : ring'[t] = Recovered(s, t)
  BY <1>2, <1>3, Zenon
<1>5. Range(s) \subseteq Messages
  BY <1>1 DEF Range
<1>6. \A m \in Messages : at'[m] = "ring" <=> m \in Range(s)
  BY <1>2, Zenon
<1>7. ASSUME NEW t \in Topics
      PROVE  /\ IsInjective(ring'[t])
             /\ Range(ring'[t]) = {m \in Messages : at'[m] = "ring" /\ topicOf[m] = t}
  <2>1. IsInjective(Recovered(s, t)) /\ Range(Recovered(s, t)) = {m \in Range(s) : topicOf[m] = t}
    BY <1>1, RecoveredFacts, Zenon
  <2> QED
    BY <1>4, <1>5, <1>6, <2>1, Zenon
<1>8. Rings'
  BY <1>2, <1>7, Zenon DEF Rings
<1> QED
  BY <1>4, <1>8, Zenon

\* The first recovery finds records in the order in which they were written.
LEMMA ReplayKeepsOrder ==
  ASSUME BInv, NEW s, Records(s), Replay(s), first,
         NEW m \in Messages, NEW x \in Messages, InOrder(log, m, x)
  PROVE  InOrder(s, m, x)
<1> SUFFICES ASSUME NEW k \in DOMAIN s, NEW l \in DOMAIN s, s[k] = m, s[l] = x
             PROVE  k < l
  BY Zenon DEF InOrder
<1>1. m \in Range(log) /\ x \in Range(log)
  BY Zenon DEF Records, Range
<1>2. PICK i \in DOMAIN log, j \in DOMAIN log : log[i] = m /\ log[j] = x
  BY <1>1, Zenon DEF Range
<1>3. i < j
  BY <1>2, Zenon DEF InOrder
<1>4. InOrder(s, m, x)
  BY <1>2, <1>3, Zenon DEF Replay
<1> QED
  BY <1>4, Zenon DEF InOrder

\* The calls of the process that has ended are over.
LEMMA RestartBInv ==
  ASSUME BInv, NEW s, Records(s), Restart(s)
  PROVE  BInv'
<1>1. /\ log' = s /\ log' \in Seq(Messages) /\ IsInjective(log') /\ Range(log') \subseteq Range(log)
      /\ synced' = 0 /\ trusted' = FALSE /\ ring' \in [Topics -> Seq(Messages)] /\ Rings'
  BY RestartFacts, Zenon DEF Restart, Records
<1>2. /\ logState' = (IF policy = "off" THEN "off" ELSE "open") /\ batch' = <<>> /\ taken' = {}
      /\ policy' = (IF policy = "off" THEN "off" ELSE "everysec") /\ topicOf' = topicOf /\ first' = FALSE
      /\ kind' = [m \in Messages |-> IF call[m] = "idle" THEN "none" ELSE "back"]
      /\ precedes' = (IF first THEN precedes ELSE {}) /\ Replay(s)
      /\ at' = [m \in Messages |-> IF m \in Range(log') THEN "ring" ELSE "none"]
      /\ call' = [m \in Messages |->
                    IF call[m] = "idle" \/ m \in Confirmed \cap Range(log')
                    THEN call[m] ELSE "failed"]
  BY <1>1, Zenon DEF Restart
<1>3. \A m \in Messages :
        /\ at'[m] = (IF m \in Range(log') THEN "ring" ELSE "none")
        /\ call'[m] = (IF call[m] = "idle" THEN "idle"
                       ELSE IF call[m] = "confirmed" /\ m \in Range(log') THEN "confirmed"
                       ELSE "failed")
        /\ kind'[m] = (IF call[m] = "idle" THEN "none" ELSE "back")
  BY <1>2, Zenon DEF Confirmed
<1>4. at' \in [Messages -> Places]
  BY <1>2, Zenon DEF Places
<1>5. call' \in [Messages -> {"idle", "begun", "logged", "pushed", "confirmed", "failed"}]
  BY <1>2, Zenon DEF BInv, Shape
<1>6. Shape'
  <2>1. batch' \in Seq(Messages) /\ synced' \in 0..Len(log')
    BY <1>1, <1>2
  <2>2. precedes' \subseteq Messages \X Messages
    BY <1>2, Zenon DEF BInv, Shape
  <2>3. kind' \in [Messages -> Kinds \cup {"none"}]
    BY <1>2, Zenon DEF Kinds
  <2> QED
    BY <1>1, <1>2, <1>4, <1>5, <2>1, <2>2, <2>3, Zenon DEF BInv, Shape
<1>7. Synced'
  BY <1>1, <1>2, Zenon DEF Synced
<1>8. ASSUME NEW m \in Messages
      PROVE  Placed(m)' /\ Written(m)'
  <2>1. Placed(m)
    BY Zenon DEF BInv
  <2>2. Placed(m)'
    BY <1>1, <1>2, <1>3, <2>1, Zenon DEF Placed, Kinds
  <2> QED
    BY <1>2, <1>3, <2>2, Zenon DEF Written
<1>9. ASSUME NEW m \in Messages, NEW x \in Messages, <<m, x>> \in precedes'
      PROVE  Sent(m, x)'
  <2>1. first /\ <<m, x>> \in precedes
    BY <1>2, <1>9, Zenon
  <2>2. Sent(m, x)
    BY <2>1, Zenon DEF BInv
  <2>3. m # x /\ InOrder(log, m, x) /\ call[m] # "idle" /\ call[x] # "idle" /\ topicOf[m] \in Topics
    BY <2>1, <2>2, Zenon DEF Sent, BInv, Placed
  <2>4. InOrder(s, m, x)
    BY <1>2, <2>1, <2>3, ReplayKeepsOrder, Zenon
  <2>5. InOrder(Recovered(s, topicOf[m]), m, x)
    BY <2>3, <2>4, RecoveredFacts, Zenon DEF Records
  <2>6. InOrder(ring'[topicOf[m]], m, x)
    BY <2>3, <2>5, RestartFacts, Zenon
  <2>7. /\ call'[m] \in {"confirmed", "failed"} /\ call'[x] # "idle"
        /\ kind'[m] = "back" /\ kind'[x] = "back"
    BY <1>3, <2>3, Zenon
  <2> QED
    BY <1>2, <2>2, <2>6, <2>7, Zenon DEF Sent
<1> QED
  BY <1>1, <1>6, <1>7, <1>8, <1>9, Zenon DEF BInv

\* Every step keeps the invariant.
LEMMA StepBInv == BInv /\ [Next]_vars => BInv'
<1> SUFFICES ASSUME BInv, [Next]_vars
             PROVE  BInv'
  BY Zenon
<1>1. ASSUME NEW m \in Messages, NEW t \in Topics, BeginPublish(m, t, "front")
      PROVE  BInv'
  BY <1>1, BeginPublishBInv, Zenon DEF Kinds
<1>2. ASSUME NEW m \in Messages,
             WritePublish(m) \/ Push(m) \/ Schedule(m) \/ Return(m) \/ Ack(m) \/ Nack(m) \/ Expire(m)
               \/ handleDLQReplay(m)
      PROVE  BInv'
  BY <1>2, WritePublishBInv, PushBInv, ScheduleBInv, ReturnBInv, SettlingBInv, ComeBackBInv, Zenon
<1>3. ASSUME NEW t \in Topics, NEW s \in Batches, BeginBatch(s, t)
      PROVE  BInv'
  BY <1>3, BeginBatchBInv, Zenon
<1>4. ASSUME NEW t \in Topics, handleTopicAction(t)
      PROVE  BInv'
  <2>1. \/ \E m \in Messages, k \in {"back", "delayed"} : BeginPublish(m, t, k)
        \/ Consume(t)
    BY <1>4, Zenon DEF handleTopicAction
  <2>2. ASSUME NEW m \in Messages, NEW k \in {"back", "delayed"}, BeginPublish(m, t, k)
        PROVE  BInv'
    <3>1. k \in Kinds
      BY Zenon DEF Kinds
    <3> QED
      BY <2>2, <3>1, BeginPublishBInv, Zenon
  <2> QED
    BY <2>1, <2>2, ConsumeBInv, Zenon
<1>5. ASSUME NEW t \in Topics,
             CreateTopic(t) \/ ConsumeGroup(t) \/ SweepAllTimeouts(t) \/ handleDLQPurge(t) \/ CloseTopic(t)
      PROVE  BInv'
  BY <1>5, IdleBInv, ConsumeBInv, SettlingBInv, Zenon
<1>6. CASE ReturnBatch \/ Sync \/ BeginClose \/ CloseLog \/ UNCHANGED vars
  BY <1>6, ReturnBInv, SyncBInv, IdleBInv, Zenon
<1>7. ASSUME NEW s \in Logs, Restart(s)
      PROVE  BInv'
  BY <1>7, RecordsOfLog, RestartBInv, Zenon
<1> QED
  BY <1>1, <1>2, <1>3, <1>4, <1>5, <1>6, <1>7, Zenon DEF Next

-----------------------------------------------------------------------------
(* The counters.                                                           *)

\* What a batch has got accepted can be counted.
LEMMA BatchIsFinite ==
  ASSUME NEW b \in Seq(Messages), NEW S, S \subseteq Range(b)
  PROVE  Cardinality(S) \in Nat
<1>1. PICK n \in Nat : DOMAIN b = 1..n /\ b \in [1..n -> Messages]
  OBVIOUS
<1>2. b \in [1..n -> Range(b)]
  BY <1>1, Zenon DEF Range
<1>3. IsFiniteSet(1..n)
  BY FS_Interval
<1>4. b \in Surjection(1..n, Range(b))
  BY <1>1, <1>2, Zenon DEF Surjection, Range
<1>5. IsFiniteSet(Range(b))
  BY <1>3, <1>4, FS_Surjection, Zenon
<1> QED
  BY <1>5, FS_Subset, FS_CardinalityType, Zenon

\* Every step keeps the types of what the invariant leaves out.
LEMMA StepScalars == BInv /\ Scalars /\ [Next]_vars => Scalars'
<1> SUFFICES ASSUME BInv, Scalars, [Next]_vars
             PROVE  Scalars'
  BY Zenon
<1>1. /\ topics \in [Topics -> {"absent", "open", "closed"}] /\ published \in [Topics -> Nat]
      /\ closing \in {"no", "topics", "done"} /\ totalPublished \in Nat /\ recovered \in Nat
      /\ first \in BOOLEAN
  BY Zenon DEF Scalars
<1>2. ASSUME NEW t \in Topics, GetOrCreateTopic(t),
             UNCHANGED <<closing, published, totalPublished, recovered, first>>
      PROVE  Scalars'
  <2>1. topics' \in [Topics -> {"absent", "open", "closed"}]
    BY <1>1, <1>2, Zenon DEF GetOrCreateTopic
  <2> QED
    BY <1>1, <1>2, <2>1, Zenon DEF Scalars
<1>3. ASSUME NEW ms, NEW t \in Topics, NEW k, Begin(ms, t, k)
      PROVE  Scalars'
  BY <1>2, <1>3, Zenon DEF Begin
<1>4. ASSUME NEW m \in Messages, NEW t \in Topics, NEW k, BeginPublish(m, t, k)
      PROVE  Scalars'
  BY <1>3, <1>4, Zenon DEF BeginPublish
<1>5. ASSUME NEW m \in Messages, WritePublish(m) \/ Ack(m) \/ Nack(m) \/ Expire(m) \/ handleDLQReplay(m)
      PROVE  Scalars'
  BY <1>1, <1>5, Zenon DEF WritePublish, Ack, Nack, Expire, handleDLQReplay, ReplayDLQ, Scalars,
                    topicVars, callVars, histVars
<1>6. ASSUME NEW m \in Messages, Push(m) \/ Schedule(m)
      PROVE  Scalars'
  <2>1. /\ published' = [published EXCEPT ![topicOf[m]] = @ + 1] \/ published' = published
        /\ UNCHANGED <<topics, closing, totalPublished, recovered, first>>
    BY <1>6, Zenon DEF Push, Schedule, histVars
  <2>2. published' \in [Topics -> Nat]
    BY <1>1, <2>1
  <2> QED
    BY <1>1, <2>1, <2>2, Zenon DEF Scalars
<1>7. ASSUME NEW m \in Messages, Return(m)
      PROVE  Scalars'
  BY <1>1, <1>7 DEF Return, Scalars, topicVars, histVars
<1>8. ASSUME NEW t \in Topics, NEW s, BeginBatch(s, t)
      PROVE  Scalars'
  BY <1>3, <1>8, Zenon DEF BeginBatch
<1>9. ASSUME NEW t \in Topics, CreateTopic(t)
      PROVE  Scalars'
  BY <1>2, <1>9, Zenon DEF CreateTopic, callVars, histVars
<1>10. ASSUME NEW t \in Topics, Consume(t) \/ ConsumeGroup(t) \/ SweepAllTimeouts(t) \/ handleDLQPurge(t)
       PROVE  Scalars'
  BY <1>1, <1>10, Zenon DEF Consume, ConsumeGroup, SweepAllTimeouts, handleDLQPurge, Scalars, callVars, histVars
<1>11. ASSUME NEW t \in Topics, handleTopicAction(t)
       PROVE  Scalars'
  BY <1>4, <1>10, <1>11, Zenon DEF handleTopicAction
<1>12. ASSUME NEW t \in Topics, CloseTopic(t)
       PROVE  Scalars'
  BY <1>1, <1>12, Zenon DEF CloseTopic, Scalars, callVars, histVars
<1>13. CASE ReturnBatch
  <2>1. PICK accepted : accepted = {m \in Range(batch) : call[m] = "pushed"}
    BY Zenon
  <2>2. /\ totalPublished' = totalPublished + Cardinality(accepted)
        /\ UNCHANGED <<topics, published, closing, recovered, first>>
    BY <1>13, <2>1, Zenon DEF ReturnBatch, topicVars, histVars
  <2>3. Cardinality(accepted) \in Nat
    BY <2>1, BatchIsFinite, Zenon DEF BInv, Shape
  <2> QED
    BY <1>1, <2>2, <2>3 DEF Scalars
<1>14. CASE Sync \/ BeginClose \/ CloseLog \/ UNCHANGED vars
  BY <1>1, <1>14, Zenon DEF Sync, BeginClose, CloseLog, vars, Scalars, topicVars, callVars, histVars
<1>15. ASSUME NEW s \in Logs, Restart(s)
       PROVE  Scalars'
  <2>1. /\ topics' = [t \in Topics |-> IF ring'[t] = <<>> THEN "absent" ELSE "open"]
        /\ ring' = [t \in Topics |-> Recovered(s, t)]
        /\ published' = [t \in Topics |-> Len(ring'[t])]
        /\ recovered' = Len(s) /\ totalPublished' = 0 /\ closing' = "no" /\ first' = FALSE
    BY <1>15, Zenon DEF Restart
  <2>2. s \in Seq(Messages) /\ IsInjective(s)
    BY <1>15, RecordsOfLog, Zenon DEF Records
  <2>3. \A t \in Topics : Recovered(s, t) \in Seq(Messages)
    BY <2>2, RecoveredFacts, Zenon
  <2>4. \A t \in Topics : Len(ring'[t]) \in Nat
    BY <2>1, <2>3
  <2>5. published' \in [Topics -> Nat]
    BY <2>1, <2>4, Zenon
  <2>6. totalPublished' \in Nat /\ recovered' \in Nat
    BY <2>1, <2>2
  <2> QED
    BY <2>1, <2>5, <2>6, Zenon DEF Scalars
<1> QED
  BY <1>4, <1>5, <1>6, <1>7, <1>8, <1>9, <1>10, <1>11, <1>12, <1>13, <1>14, <1>15, ZenonT(30) DEF Next

\* The invariant and the types hold always.
LEMMA AlwaysBInv == Spec => [](BInv /\ Scalars)
<1>1. Init => Scalars
  BY BrokerAssumption DEF Init, Scalars
<1> QED
  BY <1>1, InitBInv, StepBInv, StepScalars, PTL DEF Spec

-----------------------------------------------------------------------------
\* Types, and that a message is in one ring, once, exactly when its place says
\* so, whatever races of calls, sweeper, wheel, Close and restart (broker.go).
THEOREM TypeCorrect == Spec => []TypeOK
<1>1. BInv /\ Scalars => TypeOK
  BY Zenon DEF BInv, Shape, Rings, Scalars, TypeOK
<1> QED
  BY <1>1, AlwaysBInv, PTL

(***************************************************************************)
(* Publish and its variants log before they queue: the log has accepted    *)
(* what a topic was given, except for a batch that it has refused.         *)
(***************************************************************************)
THEOREM LogComesFirst == Spec => []LoggedBeforeQueued
<1>1. BInv => LoggedBeforeQueued
  BY Zenon DEF BInv, Written, LoggedBeforeQueued
<1> QED
  BY <1>1, AlwaysBInv, PTL

(***************************************************************************)
(* A publisher's order is that of the log of a first process and, until    *)
(* the first delivery, that of the ring, also of the ring that the first   *)
(* recovery has built, although log and ring have no common lock.          *)
(***************************************************************************)
THEOREM OrderIsKept == Spec => []PublisherOrderKept
<1>1. BInv => PublisherOrderKept
  BY Zenon DEF BInv, Sent, PublisherOrderKept
<1> QED
  BY <1>1, AlwaysBInv, PTL

-----------------------------------------------------------------------------
(* What survives the first restart.                                        *)

\* m was confirmed and must come back, or the log, closed, has refused its batch.
Survives(m) ==
  \/ m \in Range(ring'[topicOf[m]])
  \/ kind[m] = "batch" /\ logState = "closed" /\ m \notin Range(log)

\* A log that has synced all its records gives them all back.
LEMMA SyncedIsRecovered ==
  ASSUME BInv, NEW s, Records(s), Restart(s), trusted, policy = "always" \/ logState = "closed",
         NEW m \in Confirmed
  PROVE  Survives(m)
<1>1. m \in Messages /\ call[m] = "confirmed" /\ policy # "off" /\ logState \notin {"off", "broken"}
  BY Zenon DEF Confirmed, BInv, Synced
<1>2. logState \in {"open", "closed"}
  BY <1>1, Zenon DEF BInv, Shape
<1>3. topicOf[m] \in Topics /\ (m \in Range(log) \/ (kind[m] = "batch" /\ logState = "closed"))
  BY <1>1, <1>2, Zenon DEF BInv, Placed, Written
<1>4. ASSUME m \in Range(log)
      PROVE  m \in Range(ring'[topicOf[m]])
  <2>1. log \in Seq(Messages) /\ synced = Len(log)
    BY Zenon DEF BInv, Shape, Synced
  <2>2. PICK i \in 1..synced : log[i] = m
    BY <1>4, <2>1 DEF Range
  <2>3. m \in Range(s)
    BY <2>2, Zenon DEF Restart, Replay
  <2>4. Range(Recovered(s, topicOf[m])) = {x \in Range(s) : topicOf[x] = topicOf[m]}
    BY RecoveredFacts, Zenon DEF Records
  <2>5. ring'[topicOf[m]] = Recovered(s, topicOf[m])
    BY <1>3, RestartFacts, Zenon
  <2> QED
    BY <2>3, <2>4, <2>5, Zenon
<1> QED
  BY <1>3, <1>4, Zenon DEF Survives

\* Only a restart ends the first process.
LEMMA OnlyRestart ==
  ASSUME [Next]_vars, first' # first
  PROVE  \E s \in Logs : Restart(s)
<1>1. ASSUME NEW ms, NEW t, NEW k, Begin(ms, t, k)
      PROVE  FALSE
  BY <1>1, Zenon DEF Begin
<1>2. ASSUME NEW m \in Messages,
             WritePublish(m) \/ Push(m) \/ Schedule(m) \/ Return(m) \/ Ack(m) \/ Nack(m) \/ Expire(m)
               \/ handleDLQReplay(m)
      PROVE  FALSE
  BY <1>2, Zenon DEF WritePublish, Push, Schedule, Return, Ack, Nack, Expire, handleDLQReplay, ReplayDLQ, histVars
<1>3. ASSUME NEW t \in Topics,
             CreateTopic(t) \/ Consume(t) \/ ConsumeGroup(t) \/ SweepAllTimeouts(t) \/ handleDLQPurge(t)
               \/ CloseTopic(t)
      PROVE  FALSE
  BY <1>3, Zenon DEF CreateTopic, Consume, ConsumeGroup, SweepAllTimeouts, handleDLQPurge, CloseTopic, histVars
<1>4. ASSUME ReturnBatch \/ Sync \/ BeginClose \/ CloseLog \/ UNCHANGED vars
      PROVE  FALSE
  BY <1>4, Zenon DEF ReturnBatch, Sync, BeginClose, CloseLog, vars, histVars
<1>5. ASSUME NEW t \in Topics, handleTopicAction(t)
      PROVE  FALSE
  BY <1>1, <1>3, <1>5, Zenon DEF handleTopicAction, BeginPublish
<1>6. ASSUME NEW t \in Topics, NEW s, BeginBatch(s, t)
      PROVE  FALSE
  BY <1>1, <1>6, Zenon DEF BeginBatch
<1>7. ASSUME NEW m \in Messages, NEW t \in Topics, BeginPublish(m, t, "front")
      PROVE  FALSE
  BY <1>1, <1>7, Zenon DEF BeginPublish
<1> QED
  BY <1>2, <1>3, <1>4, <1>5, <1>6, <1>7, Zenon DEF Next

(***************************************************************************)
(* Under policy always, and after an orderly Close under any policy, the   *)
(* first restart finds every message that the first process has confirmed  *)
(* in the ring of its topic, if no write, flush, sync or open of the log   *)
(* has failed, for any number of messages, topics and batches; only a      *)
(* batch that Close came before is lost (broker.go, main.go, wal.go).      *)
(***************************************************************************)
THEOREM ConfirmedIsRecovered == Spec => ConfirmedSurvives
<1> DEFINE survive ==
             first /\ ~first' /\ trusted /\ (policy = "always" \/ logState = "closed")
               => \A m \in Confirmed : Survives(m)
<1>1. BInv /\ [Next]_vars => survive
  <2> SUFFICES ASSUME BInv, [Next]_vars, first, ~first', trusted,
                      policy = "always" \/ logState = "closed"
               PROVE  \A m \in Confirmed : Survives(m)
    BY Zenon
  <2>1. first' # first
    BY Zenon
  <2>2. PICK s \in Logs : Restart(s)
    BY <2>1, OnlyRestart, Zenon
  <2> QED
    BY <2>2, RecordsOfLog, SyncedIsRecovered, Zenon
<1>2. ConfirmedSurvives <=> [][survive]_vars
  BY Zenon DEF ConfirmedSurvives, Survives
<1> HIDE DEF survive
<1> QED
  BY <1>1, <1>2, AlwaysBInv, PTL DEF Spec

-----------------------------------------------------------------------------
(* The totals.                                                             *)

\* The sizes of the sets of topics.
Sizes == [s \in SUBSET Topics |-> Cardinality(s)]

\* A set of topics is larger than what is left of it.
LEMMA SizesMeasure == Measures(Sizes, Topics)
<1>1. \A s \in SUBSET Topics : IsFiniteSet(s)
  BY FiniteAssumption, FS_Subset, Zenon
<1>2. ASSUME NEW s \in SUBSET Topics
      PROVE  Sizes[s] = Cardinality(s) /\ Cardinality(s) \in Nat
  BY <1>1, FS_CardinalityType, Zenon DEF Sizes
<1>3. ASSUME NEW s \in SUBSET Topics, NEW x \in s
      PROVE  Sizes[s \ {x}] < Sizes[s]
  <2>1. Cardinality(s \ {x}) = Cardinality(s) - 1
    BY <1>1, <1>3, FS_RemoveElement, Zenon
  <2>2. Sizes[s \ {x}] = Cardinality(s \ {x}) /\ Sizes[s] = Cardinality(s) /\ Cardinality(s) \in Nat
    BY <1>2, Zenon
  <2> QED
    BY <2>1, <2>2
<1>4. ASSUME NEW s \in SUBSET Topics, NEW r \in SUBSET Topics, s \subseteq r
      PROVE  Sizes[s] <= Sizes[r]
  <2>1. Cardinality(s) <= Cardinality(r)
    BY <1>1, <1>4, FS_Subset, Zenon
  <2> QED
    BY <1>2, <2>1, Zenon
<1> QED
  BY <1>2, <1>3, <1>4, Zenon DEF Measures

\* The calls that their topics have counted and the broker has not.
Uncounted == {m \in Messages : call[m] = "pushed"}

\* These are numbers.
LEMMA TotalTypes ==
  ASSUME Scalars
  PROVE  /\ IsFiniteSet(Uncounted) /\ Cardinality(Uncounted) \in Nat
         /\ Numbers(published, Topics) /\ DOMAIN published = Topics
         /\ SumFunction(published) = SumFunctionOnSet(published, Topics)
         /\ SumFunctionOnSet(published, Topics) \in Nat
         /\ totalPublished \in Nat /\ recovered \in Nat
<1>1. IsFiniteSet(Uncounted)
  BY FiniteAssumption, FS_Subset, Zenon DEF Uncounted
<1>2. Cardinality(Uncounted) \in Nat
  BY <1>1, FS_CardinalityType, Zenon
<1>3. Numbers(published, Topics) /\ DOMAIN published = Topics
  BY Zenon DEF Scalars, Numbers
<1>4. SumFunctionOnSet(published, Topics) \in Nat
  BY <1>3, SizesMeasure, SumType, Zenon
<1> QED
  BY <1>1, <1>2, <1>3, <1>4, Zenon DEF Scalars, SumFunction

\* What the totals say, with names for their parts.
LEMMA TotalsAre ==
  TotalsAgree <=> totalPublished + recovered + Cardinality(Uncounted) = SumFunction(published)
BY Zenon DEF TotalsAgree, Uncounted

\* A topic counts a message.
LEMMA CountedTotals ==
  ASSUME Scalars, Scalars', TotalsAgree, NEW m \in Messages, NEW t \in Topics,
         call[m] # "pushed", Uncounted' = Uncounted \cup {m},
         published' = [published EXCEPT ![t] = @ + 1], UNCHANGED <<totalPublished, recovered>>
  PROVE  TotalsAgree'
<1>1. m \notin Uncounted
  BY Zenon DEF Uncounted
<1>2. Cardinality(Uncounted') = Cardinality(Uncounted) + 1
  BY <1>1, TotalTypes, FS_AddElement, Zenon
<1>3. published \in [Topics -> Nat]
  BY Zenon DEF Scalars
<1>4. published'[t] = published[t] + 1 /\ \A y \in Topics \ {t} : published[y] = published'[y]
  BY <1>3, Zenon
<1>5. PICK g : g = published'
  BY Zenon
<1>6. Numbers(published, Topics) /\ Numbers(g, Topics)
  BY <1>3, <1>5, Zenon DEF Scalars, Numbers
<1>7. SumFunctionOnSet(g, Topics) + published[t] = SumFunctionOnSet(published, Topics) + g[t]
  <2>1. Topics \in SUBSET Topics /\ \A y \in Topics \ {t} : published[y] = g[y]
    BY <1>4, <1>5, Zenon
  <2> QED
    BY <1>6, <2>1, SizesMeasure, SumChanges
<1>8. SumFunction(published') = SumFunctionOnSet(g, Topics)
  BY <1>5, Zenon DEF Scalars, SumFunction
<1>9. SumFunctionOnSet(g, Topics) \in Nat
  BY <1>6, SizesMeasure, SumType, Zenon
<1>10. PICK a, b, k, n, p, r \in Nat :
         /\ a = SumFunctionOnSet(g, Topics) /\ b = SumFunctionOnSet(published, Topics)
         /\ k = Cardinality(Uncounted) /\ n = published[t] /\ p = totalPublished /\ r = recovered
  BY <1>3, <1>9, TotalTypes, Zenon
<1>11. g[t] = n + 1 /\ a + n = b + g[t]
  BY <1>4, <1>5, <1>7, <1>10, Zenon
<1>12. a = b + 1
  BY <1>10, <1>11
<1>13. p + r + k = b
  BY <1>10, TotalTypes, TotalsAre, Zenon
<1>14. p + r + (k + 1) = a
  BY <1>10, <1>12, <1>13
<1>15. (totalPublished + recovered + Cardinality(Uncounted) = SumFunction(published))'
  BY <1>2, <1>8, <1>10, <1>14, Zenon
<1> QED
  BY <1>15, Zenon DEF TotalsAgree, Uncounted

\* The broker counts the messages of A, whose calls return.
LEMMA ReturnedTotals ==
  ASSUME Scalars, TotalsAgree, NEW A, A \subseteq Uncounted, Uncounted' = Uncounted \ A,
         totalPublished' = totalPublished + Cardinality(A), UNCHANGED <<published, recovered>>
  PROVE  TotalsAgree'
<1>1. IsFiniteSet(A) /\ Cardinality(A) \in Nat
  BY TotalTypes, FS_Subset, FS_CardinalityType, Zenon
<1>2. Uncounted \cap A = A
  BY Zenon
<1>3. Cardinality(Uncounted') = Cardinality(Uncounted) - Cardinality(A)
  BY <1>2, TotalTypes, FS_Difference, ZenonT(30)
<1>4. PICK a, k, p, r, s \in Nat :
        /\ a = Cardinality(A) /\ k = Cardinality(Uncounted) /\ p = totalPublished /\ r = recovered
        /\ s = SumFunction(published)
  BY <1>1, TotalTypes
<1>5. p + r + k = s
  BY <1>4, TotalsAre, Zenon
<1>6. (p + a) + r + (k - a) = s
  BY <1>5
<1>7. (totalPublished + recovered + Cardinality(Uncounted) = SumFunction(published))'
  BY <1>3, <1>4, <1>6, Zenon
<1> QED
  BY <1>7, Zenon DEF TotalsAgree, Uncounted

\* Steps that count nothing.
LEMMA QuietTotals ==
  ASSUME TotalsAgree, UNCHANGED <<published, totalPublished, recovered>>, Uncounted' = Uncounted
  PROVE  TotalsAgree'
<1>1. (totalPublished + recovered + Cardinality(Uncounted) = SumFunction(published))'
  BY TotalsAre, Zenon
<1> QED
  BY <1>1, Zenon DEF TotalsAgree, Uncounted

\* A publish goes on to its next step.
LEMMA PublishTotals ==
  ASSUME BInv, Scalars, Scalars', TotalsAgree, NEW m \in Messages,
         WritePublish(m) \/ Push(m) \/ Schedule(m) \/ Return(m)
  PROVE  TotalsAgree'
<1>1. call \in [Messages -> {"idle", "begun", "logged", "pushed", "confirmed", "failed"}]
  BY Zenon DEF BInv, Shape
<1>2. call[m] = "logged" => topicOf[m] \in Topics
  BY Zenon DEF BInv, Placed
<1>3. ASSUME NEW v, v # "pushed", call[m] # "pushed", call' = [call EXCEPT ![m] = v]
      PROVE  Uncounted' = Uncounted
  BY <1>1, <1>3, Zenon DEF Uncounted
<1>4. ASSUME call' = [call EXCEPT ![m] = "pushed"]
      PROVE  Uncounted' = Uncounted \cup {m}
  BY <1>1, <1>4, Zenon DEF Uncounted
<1>5. CASE WritePublish(m)
  <2>1. PICK v \in {"logged", "failed"} : call' = [call EXCEPT ![m] = v]
    BY <1>5, Zenon DEF WritePublish
  <2>2. call[m] # "pushed" /\ v # "pushed" /\ UNCHANGED <<published, totalPublished, recovered>>
    BY <1>5, <2>1, Zenon DEF WritePublish, topicVars, histVars
  <2> QED
    BY <1>3, <2>1, <2>2, QuietTotals, Zenon
<1>6. CASE Push(m)
  <2>1. call[m] = "logged" /\ call[m] # "pushed" /\ UNCHANGED <<totalPublished, recovered>>
    BY <1>6, Zenon DEF Push, histVars
  <2>2. CASE topics[topicOf[m]] = "open"
    <3>1. /\ published' = [published EXCEPT ![topicOf[m]] = @ + 1]
          /\ call' = [call EXCEPT ![m] = "pushed"]
      BY <1>6, <2>2, Zenon DEF Push
    <3> QED
      BY <1>2, <1>4, <2>1, <3>1, CountedTotals, ZenonT(30)
  <2>3. CASE topics[topicOf[m]] # "open"
    <3>1. UNCHANGED published /\ call' = [call EXCEPT ![m] = "failed"]
      BY <1>6, <2>3, Zenon DEF Push
    <3>2. "failed" # "pushed"
      BY Zenon
    <3> QED
      BY <1>3, <2>1, <3>1, <3>2, QuietTotals, Zenon
  <2> QED
    BY <2>2, <2>3, Zenon
<1>7. CASE Schedule(m)
  <2>1. /\ call[m] = "logged" /\ call[m] # "pushed" /\ UNCHANGED <<totalPublished, recovered>>
        /\ published' = [published EXCEPT ![topicOf[m]] = @ + 1]
        /\ call' = [call EXCEPT ![m] = "pushed"]
    BY <1>7, Zenon DEF Schedule, histVars
  <2> QED
    BY <1>2, <1>4, <2>1, CountedTotals, ZenonT(30)
<1>8. CASE Return(m)
  <2>1. /\ call[m] = "pushed" /\ call' = [call EXCEPT ![m] = "confirmed"]
        /\ totalPublished' = totalPublished + 1 /\ UNCHANGED <<published, recovered>>
    BY <1>8, Zenon DEF Return, topicVars, histVars
  <2>2. {m} \subseteq Uncounted /\ Uncounted' = Uncounted \ {m}
    BY <1>1, <2>1, Zenon DEF Uncounted
  <2>3. Cardinality({m}) = 1
    BY FS_Singleton, Zenon
  <2> QED
    BY <2>1, <2>2, <2>3, ReturnedTotals, Zenon
<1> QED
  BY <1>5, <1>6, <1>7, <1>8, Zenon

\* A batch returns.
LEMMA ReturnBatchTotals ==
  ASSUME BInv, Scalars, TotalsAgree, ReturnBatch
  PROVE  TotalsAgree'
<1>1. PICK A : A = {m \in Range(batch) : call[m] = "pushed"}
  BY Zenon
<1>2. /\ totalPublished' = totalPublished + Cardinality(A)
      /\ call' = [m \in Messages |-> IF m \in A THEN "confirmed" ELSE call[m]]
      /\ UNCHANGED <<published, recovered>>
  BY <1>1, Zenon DEF ReturnBatch, topicVars, histVars
<1>3. Range(batch) \subseteq Messages
  BY DEF BInv, Shape, Range
<1>4. A \subseteq Uncounted
  BY <1>1, <1>3, Zenon DEF Uncounted
<1>5. Uncounted' = Uncounted \ A
  BY <1>2, Zenon DEF Uncounted
<1> QED
  BY <1>2, <1>4, <1>5, ReturnedTotals, Zenon

\* Calls that begin have been pushed nowhere.
LEMMA BeginTotals ==
  ASSUME TotalsAgree, NEW ms, NEW t, NEW k, Begin(ms, t, k)
  PROVE  TotalsAgree'
<1>1. /\ \A m \in ms : call[m] = "idle"
      /\ call' = [m \in Messages |-> IF m \in ms THEN "begun" ELSE call[m]]
      /\ UNCHANGED <<published, totalPublished, recovered>>
  BY Zenon DEF Begin
<1>2. Uncounted' = Uncounted
  BY <1>1, Zenon DEF Uncounted
<1> QED
  BY <1>1, <1>2, QuietTotals, Zenon

\* The counters of the topics when the recovery has come to the n-th record of l.
After(l, n) == [t \in Topics |-> Len(Recovering(l, t)[n])]

\* The recovery counts every record of the log in one topic.
LEMMA RecoveryTotals ==
  ASSUME NEW l \in Seq(Messages), \A i \in 1..Len(l) : topicOf[l[i]] \in Topics
  PROVE  SumFunctionOnSet(After(l, Len(l)), Topics) = Len(l)
<1>1. PICK N \in Nat : N = Len(l)
  OBVIOUS
<1> DEFINE Typed(n) == \A t \in Topics : Recovering(l, t)[n] \in Seq(Messages)
           S == {n \in 0..N : Typed(n) /\ SumFunctionOnSet(After(l, n), Topics) = n}
<1>2. 0 \in S
  <2>1. \A t \in Topics : Recovering(l, t)[0] = <<>>
    BY RecoveringLoop, Zenon
  <2>2. \A t \in Topics : After(l, 0)[t] = 0
    BY <2>1 DEF After
  <2>3. SumFunctionOnSet(After(l, 0), Topics) = 0
    BY <2>2, SizesMeasure, SumOfZeros, Zenon
  <2>4. <<>> \in Seq(Messages) /\ 0 \in 0..N
    OBVIOUS
  <2> QED
    BY <2>1, <2>3, <2>4, Zenon
<1>3. ASSUME NEW n \in 0..N, n < N, n \in S
      PROVE  n + 1 \in S
  <2>1. PICK k \in 1..N : k = n + 1 /\ k - 1 = n
    BY <1>3
  <2>2. PICK y \in Messages : y = l[k]
    BY <1>1
  <2>3. PICK u \in Topics : u = topicOf[y]
    BY <1>1, <2>2, Zenon
  <2>4. ASSUME NEW t \in Topics
        PROVE  /\ Recovering(l, t)[k] \in Seq(Messages)
               /\ After(l, n)[t] \in Nat
               /\ After(l, k)[t] = IF t = u THEN After(l, n)[t] + 1 ELSE After(l, n)[t]
    <3>1. PICK q \in Seq(Messages) : q = Recovering(l, t)[n]
      BY <1>3, <2>4, Zenon
    <3>2. Recovering(l, t)[k] = Pushing(l, t, k, q)
      BY <1>1, <2>1, <3>1, RecoveringLoop, ZenonT(30)
    <3>3. Recovering(l, t)[k] = IF t = u THEN Append(q, y) ELSE q
      BY <2>2, <2>3, <3>2, Zenon DEF Pushing
    <3>4. After(l, n)[t] = Len(q) /\ After(l, k)[t] = Len(Recovering(l, t)[k])
      BY <3>1, Zenon DEF After
    <3>5. /\ Append(q, y) \in Seq(Messages) /\ Len(q) \in Nat
          /\ Len(Append(q, y)) = Len(q) + 1
      OBVIOUS
    <3> QED
      BY <3>3, <3>4, <3>5, Zenon
  <2>5. PICK f, g : f = After(l, n) /\ g = After(l, k)
    BY Zenon
  <2>6. \A t \in Topics : f[t] \in Nat /\ g[t] = IF t = u THEN f[t] + 1 ELSE f[t]
    BY <2>4, <2>5, Zenon
  <2>7. Numbers(f, Topics) /\ Numbers(g, Topics)
    BY <2>6 DEF Numbers
  <2>8. SumFunctionOnSet(g, Topics) + f[u] = SumFunctionOnSet(f, Topics) + g[u]
    <3>1. Topics \in SUBSET Topics /\ \A y2 \in Topics \ {u} : f[y2] = g[y2]
      BY <2>6, Zenon
    <3> QED
      BY <2>7, <3>1, SizesMeasure, SumChanges
  <2>9. PICK a, w \in Nat : a = SumFunctionOnSet(g, Topics) /\ w = f[u]
    BY <2>6, <2>7, SizesMeasure, SumType, Zenon
  <2>10. SumFunctionOnSet(f, Topics) = n /\ g[u] = w + 1
    BY <1>3, <2>5, <2>6, <2>9, Zenon
  <2>11. a + w = n + (w + 1)
    BY <2>8, <2>9, <2>10, Zenon
  <2>12. a = k
    BY <2>1, <2>11
  <2>13. Typed(k) /\ SumFunctionOnSet(After(l, k), Topics) = k /\ k \in 0..N
    <3>1. k \in 0..N
      OBVIOUS
    <3> QED
      BY <2>4, <2>5, <2>9, <2>12, <3>1, Zenon
  <2> QED
    BY <2>1, <2>13, Zenon
<1>4. N \in S
  <2> HIDE DEF S
  <2>1. \A n \in 0..N : n \in S
    BY <1>2, <1>3, UpTo, Zenon
  <2>2. N \in 0..N
    OBVIOUS
  <2> QED
    BY <2>1, <2>2, Zenon
<1> QED
  BY <1>1, <1>4, Zenon

\* A restart starts the broker's total again; the topics count what they recover.
LEMMA RestartTotals ==
  ASSUME BInv, NEW s, Records(s), Restart(s)
  PROVE  TotalsAgree'
<1>1. s \in Seq(Messages) /\ Range(s) \subseteq Range(log)
  BY Zenon DEF Records
<1>2. PICK k \in Nat : k = Len(s)
  BY <1>1
<1>3. ASSUME NEW i \in 1..Len(s)
      PROVE  topicOf[s[i]] \in Topics
  <2>1. PICK m \in Messages : m = s[i] /\ m \in Range(log)
    BY <1>1, <1>3 DEF Range
  <2>2. call[m] # "idle"
    BY <2>1, Zenon DEF BInv, Placed
  <2> QED
    BY <2>1, <2>2, Zenon DEF BInv, Placed
<1>4. published' = After(s, k) /\ recovered' = k /\ totalPublished' = 0
  <2>1. \A t \in Topics : ring'[t] = Recovered(s, t)
    BY RestartFacts, Zenon
  <2>2. published' = [t \in Topics |-> Len(ring'[t])]
    BY Zenon DEF Restart
  <2>3. published' = [t \in Topics |-> Len(Recovered(s, t))]
    BY <2>1, <2>2, Zenon
  <2> QED
    BY <1>2, <2>3, Zenon DEF Restart, Recovered, After
<1>5. SumFunction(published)' = k
  <2>1. DOMAIN published' = Topics
    BY <1>4, Zenon DEF After
  <2>2. SumFunctionOnSet(published', Topics) = k
    BY <1>1, <1>2, <1>3, <1>4, RecoveryTotals, Zenon
  <2> QED
    BY <2>1, <2>2, Zenon DEF SumFunction
<1>6. Uncounted' = {}
  <2>1. ASSUME NEW m \in Messages
        PROVE  call'[m] # "pushed"
    BY Zenon DEF Restart, Confirmed
  <2> QED
    BY <2>1, Zenon DEF Uncounted
<1>7. Cardinality(Uncounted') = 0 /\ 0 + k + 0 = k
  BY <1>6, FS_EmptySet
<1>8. (totalPublished + recovered + Cardinality(Uncounted) = SumFunction(published))'
  BY <1>4, <1>5, <1>7, Zenon
<1> QED
  BY <1>8, Zenon DEF TotalsAgree, Uncounted

\* Every step keeps the totals.
LEMMA StepTotals ==
  ASSUME BInv, Scalars, Scalars', TotalsAgree, [Next]_vars
  PROVE  TotalsAgree'
<1>1. ASSUME UNCHANGED <<published, callVars, recovered>>
      PROVE  TotalsAgree'
  <2>1. Uncounted' = Uncounted /\ UNCHANGED <<published, totalPublished, recovered>>
    BY <1>1, Zenon DEF Uncounted, callVars
  <2> QED
    BY <2>1, QuietTotals, Zenon
<1>2. ASSUME NEW m \in Messages, NEW t \in Topics, NEW k, BeginPublish(m, t, k)
      PROVE  TotalsAgree'
  BY <1>2, BeginTotals, Zenon DEF BeginPublish
<1>3. ASSUME NEW m \in Messages, Ack(m) \/ Nack(m) \/ Expire(m) \/ handleDLQReplay(m)
      PROVE  TotalsAgree'
  BY <1>1, <1>3, Zenon DEF Ack, Nack, Expire, handleDLQReplay, ReplayDLQ, histVars
<1>4. ASSUME NEW t \in Topics, NEW s, BeginBatch(s, t)
      PROVE  TotalsAgree'
  BY <1>4, BeginTotals, Zenon DEF BeginBatch
<1>5. ASSUME NEW t \in Topics,
             CreateTopic(t) \/ ConsumeGroup(t) \/ SweepAllTimeouts(t) \/ Consume(t)
             \/ handleDLQPurge(t) \/ CloseTopic(t)
      PROVE  TotalsAgree'
  BY <1>1, <1>5, Zenon DEF CreateTopic, ConsumeGroup, SweepAllTimeouts, Consume, handleDLQPurge,
                           CloseTopic, histVars
<1>6. CASE Sync \/ BeginClose \/ CloseLog \/ UNCHANGED vars
  BY <1>1, <1>6, Zenon DEF Sync, BeginClose, CloseLog, vars, topicVars, histVars
<1>7. ASSUME NEW t \in Topics, handleTopicAction(t)
      PROVE  TotalsAgree'
  BY <1>2, <1>5, <1>7, Zenon DEF handleTopicAction
<1>8. ASSUME NEW s \in Logs, Restart(s)
      PROVE  TotalsAgree'
  BY <1>8, RecordsOfLog, RestartTotals, Zenon
<1> QED
  BY <1>2, <1>3, <1>4, <1>5, <1>6, <1>7, <1>8, PublishTotals, ReturnBatchTotals, ZenonT(30) DEF Next

(***************************************************************************)
(* The broker's total is what the topics have counted, less what the       *)
(* recovery put there and the calls that have not returned, for any number *)
(* of topics, messages, batches and restarts (broker.go, main.go).         *)
(***************************************************************************)
THEOREM TotalsAddUp == Spec => []TotalsAgree
<1>1. Init => TotalsAgree
  <2> SUFFICES ASSUME Init PROVE TotalsAgree
    BY Zenon
  <2>1. /\ published = [t \in Topics |-> 0] /\ totalPublished = 0 /\ recovered = 0
        /\ call = [m \in Messages |-> "idle"]
    BY Zenon DEF Init
  <2>2. SumFunctionOnSet(published, Topics) = 0
    BY <2>1, SizesMeasure, SumOfZeros, Zenon
  <2>3. SumFunction(published) = 0
    BY <2>1, <2>2, Zenon DEF SumFunction
  <2>4. Uncounted = {}
    BY <2>1, Zenon DEF Uncounted
  <2>5. Cardinality(Uncounted) = 0 /\ 0 + 0 + 0 = 0
    BY <2>4, FS_EmptySet
  <2> QED
    BY <2>1, <2>3, <2>5, TotalsAre, Zenon
<1>2. Init => Scalars
  BY BrokerAssumption DEF Init, Scalars
<1>3. BInv /\ Scalars /\ TotalsAgree /\ [Next]_vars => BInv' /\ Scalars' /\ TotalsAgree'
  BY StepBInv, StepScalars, StepTotals, Zenon
<1> QED
  BY <1>1, <1>2, <1>3, InitBInv, PTL DEF Spec
=============================================================================
