----------------------- MODULE DeadLetterQueueProofs ------------------------
(***************************************************************************)
(* The dead letter queue's map and slice agree, it stays bounded, evicts   *)
(* the oldest entry only and is read completely by pages, for any capacity *)
(* and any messages.                                                       *)
(***************************************************************************)
EXTENDS DeadLetterQueue, FiniteSetTheorems, Loops

\* The time of a leaf that names no prover.
USE SMTT(30)

\* The inductive invariant.  The capacity depends on the agreement of map and
\* slice: a map that is full beside an empty slice would evict nothing.
IInv == DLQTypeOK /\ OrderMatchesEntries /\ IsFiniteSet(DOMAIN dlqEntries)

USE DLQMaxSizeAssumption, MaxRetriesAssumption

\* The oldest ID leaves the slice.
LEMMA TailOfInjective ==
  ASSUME NEW S, NEW s \in Seq(S), Len(s) > 0, IsInjective(s)
  PROVE  /\ Tail(s) \in Seq(S) /\ IsInjective(Tail(s))
         /\ Head(s) \in Range(s) /\ Range(Tail(s)) = Range(s) \ {Head(s)}
<1>1. /\ Tail(s) \in Seq(S) /\ DOMAIN s = 1..Len(s) /\ Len(s) \in Nat
      /\ DOMAIN Tail(s) = 1..(Len(s) - 1)
      /\ \A i \in 1..(Len(s) - 1) : Tail(s)[i] = s[i + 1]
  OBVIOUS
<1>2. Head(s) = s[1]
  OBVIOUS
<1>3. IsInjective(Tail(s))
  BY <1>1 DEF IsInjective
<1>4. \A i \in DOMAIN s : i = 1 \/ (i - 1 \in DOMAIN Tail(s) /\ Tail(s)[i - 1] = s[i])
  BY <1>1
<1>5. \A i \in DOMAIN Tail(s) : i + 1 \in DOMAIN s /\ s[i + 1] = Tail(s)[i] /\ s[i + 1] # s[1]
  BY <1>1 DEF IsInjective
<1>6. Range(s) \ {Head(s)} \subseteq Range(Tail(s))
  <2> SUFFICES ASSUME NEW i \in DOMAIN s, s[i] # s[1]
               PROVE  \E j \in DOMAIN Tail(s) : s[i] = Tail(s)[j]
    BY <1>2 DEF Range
  <2> QED
    BY <1>4, Zenon
<1>7. Range(Tail(s)) \subseteq Range(s) \ {Head(s)}
  BY <1>2, <1>5 DEF Range
<1>8. Head(s) \in Range(s)
  BY <1>1, <1>2 DEF Range
<1> QED
  BY <1>1, <1>3, <1>6, <1>7, <1>8, Zenon

\* A new ID joins the slice.
LEMMA AppendOfInjective ==
  ASSUME NEW S, NEW s \in Seq(S), IsInjective(s), NEW e \in S, e \notin Range(s)
  PROVE  /\ Append(s, e) \in Seq(S) /\ IsInjective(Append(s, e))
         /\ Range(Append(s, e)) = Range(s) \cup {e}
<1> DEFINE t == Append(s, e)
<1>1. /\ t \in Seq(S) /\ DOMAIN s = 1..Len(s) /\ Len(s) \in Nat
      /\ DOMAIN t = 1..(Len(s) + 1)
      /\ \A i \in DOMAIN s : t[i] = s[i]
      /\ t[Len(s) + 1] = e
  OBVIOUS
<1> HIDE DEF t
<1>2. \A i \in DOMAIN t : i \in DOMAIN s \/ i = Len(s) + 1
  BY <1>1
<1>3. \A i \in DOMAIN s : s[i] # e
  BY DEF Range
<1>4. IsInjective(t)
  BY <1>1, <1>2, <1>3, Zenon DEF IsInjective
<1>5. DOMAIN s \subseteq DOMAIN t /\ Len(s) + 1 \in DOMAIN t
  BY <1>1
<1>6. Range(t) = Range(s) \cup {e}
  BY <1>1, <1>2, <1>5, Zenon DEF Range
<1> QED
  BY <1>1, <1>4, <1>6 DEF t

\* An ID leaves the slice, wherever it is.
LEMMA WithoutOfInjective ==
  ASSUME NEW S, NEW s \in Seq(S), IsInjective(s), NEW e \in Range(s)
  PROVE  /\ Without(s, e) \in Seq(S) /\ IsInjective(Without(s, e))
         /\ Range(Without(s, e)) = Range(s) \ {e}
<1>1. DOMAIN s = 1..Len(s) /\ Len(s) \in Nat
  OBVIOUS
<1>2. PICK k \in 1..Len(s) : s[k] = e
  BY <1>1 DEF Range
<1>3. {i \in DOMAIN s : s[i] = e} = {k}
  BY <1>1, <1>2 DEF IsInjective
<1>4. (CHOOSE i \in {k} : \A j \in {k} : i <= j) = k
  OBVIOUS
<1> DEFINE before == SubSeq(s, 1, k - 1)
           after == SubSeq(s, k + 1, Len(s))
           t == before \o after
<1>5. Without(s, e) = t
  BY <1>3, <1>4, Zenon DEF Without
<1>6. /\ before \in Seq(S) /\ Len(before) = k - 1
      /\ \A i \in 1..(k - 1) : before[i] = s[i]
  OBVIOUS
<1>7. /\ after \in Seq(S) /\ Len(after) = Len(s) - k
      /\ \A i \in 1..(Len(s) - k) : after[i] = s[k + i]
  OBVIOUS
<1> HIDE DEF before, after
<1>8. /\ t \in Seq(S) /\ DOMAIN t = 1..(Len(s) - 1)
      /\ \A i \in 1..(Len(s) - 1) : t[i] = IF i < k THEN s[i] ELSE s[i + 1]
  <2>1. t \in Seq(S) /\ Len(t) = Len(s) - 1
    BY <1>6, <1>7
  <2>2. \A i \in 1..(Len(s) - 1) : i < k => t[i] = before[i]
    BY <1>6, <1>7
  <2>3. \A i \in 1..(Len(s) - 1) : i >= k => t[i] = after[i - (k - 1)]
    BY <1>6, <1>7
  <2>4. \A i \in 1..(Len(s) - 1) : i >= k => after[i - (k - 1)] = s[i + 1]
    <3> SUFFICES ASSUME NEW i \in 1..(Len(s) - 1), i >= k
                 PROVE  after[i - (k - 1)] = s[i + 1]
      OBVIOUS
    <3>1. i - (k - 1) \in 1..(Len(s) - k) /\ k + (i - (k - 1)) = i + 1
      BY <1>1
    <3> QED
      BY <1>7, <3>1, Zenon
  <2>5. DOMAIN t = 1..(Len(s) - 1)
    BY <2>1
  <2>6. \A i \in 1..(Len(s) - 1) : i < k => before[i] = s[i]
    BY <1>6
  <2> HIDE DEF t
  <2>7. \A i \in 1..(Len(s) - 1) : t[i] = IF i < k THEN s[i] ELSE s[i + 1]
    BY <2>2, <2>3, <2>4, <2>6
  <2> QED
    BY <2>1, <2>5, <2>7
<1> HIDE DEF t
<1>9. IsInjective(t)
  <2> SUFFICES ASSUME NEW a \in 1..(Len(s) - 1), NEW b \in 1..(Len(s) - 1), t[a] = t[b]
               PROVE  a = b
    BY <1>8, Zenon DEF IsInjective
  <2> DEFINE at(i) == IF i < k THEN i ELSE i + 1
  <2>1. at(a) \in DOMAIN s /\ at(b) \in DOMAIN s /\ t[a] = s[at(a)] /\ t[b] = s[at(b)]
    BY <1>1, <1>8
  <2>2. at(a) = at(b)
    BY <2>1, Zenon DEF IsInjective
  <2> QED
    BY <2>2
<1>10. \A i \in DOMAIN t : \E j \in DOMAIN s : t[i] = s[j] /\ j # k
  BY <1>1, <1>8
<1>11. \A j \in DOMAIN s : j # k => \E i \in DOMAIN t : t[i] = s[j]
  <2> SUFFICES ASSUME NEW j \in DOMAIN s, j # k
               PROVE  \E i \in DOMAIN t : t[i] = s[j]
    OBVIOUS
  <2>1. CASE j < k
    BY <1>1, <1>8, <2>1
  <2>2. CASE j > k
    <3>1. j - 1 \in DOMAIN t /\ t[j - 1] = s[j]
      BY <1>1, <1>8, <2>2
    <3> QED
      BY <3>1
  <2> QED
    BY <1>1, <2>1, <2>2
<1>12. Range(t) = Range(s) \ {e}
  BY <1>1, <1>2, <1>10, <1>11 DEF Range, IsInjective
<1> QED
  BY <1>5, <1>8, <1>9, <1>12

-----------------------------------------------------------------------------
\* What an eviction leaves: map and slice agree and there is room for one more.
LEMMA EvictionMakesRoom ==
  ASSUME IInv
  PROVE  /\ OrderKept \in Seq(Messages) /\ IsInjective(OrderKept)
         /\ Range(OrderKept) = DOMAIN EntriesKept
         /\ DOMAIN EntriesKept \subseteq DOMAIN dlqEntries
         /\ \A x \in DOMAIN EntriesKept : EntriesKept[x] = dlqEntries[x]
         /\ IsFiniteSet(DOMAIN EntriesKept)
         /\ Cardinality(DOMAIN EntriesKept) < DLQMaxSize
<1> DEFINE D == DOMAIN dlqEntries
<1>1. /\ dlqOrder \in Seq(Messages) /\ IsInjective(dlqOrder) /\ Range(dlqOrder) = D
      /\ IsFiniteSet(D) /\ Cardinality(D) <= DLQMaxSize /\ Cardinality(D) \in Nat
      /\ Len(dlqOrder) \in Nat
  BY FS_CardinalityType DEF IInv, DLQTypeOK, OrderMatchesEntries
<1>2. CASE DLQEvicts
  <2>1. OrderKept = Tail(dlqOrder) /\ EntriesKept = [x \in D \ {Head(dlqOrder)} |-> dlqEntries[x]]
    BY <1>2, Zenon DEF OrderKept, EntriesKept, Restrict
  <2>2. Len(dlqOrder) > 0
    BY <1>2, Zenon DEF DLQEvicts
  <2>3. /\ Tail(dlqOrder) \in Seq(Messages) /\ IsInjective(Tail(dlqOrder))
        /\ Head(dlqOrder) \in D /\ Range(Tail(dlqOrder)) = D \ {Head(dlqOrder)}
    BY <1>1, <2>2, TailOfInjective, Zenon
  <2>4. IsFiniteSet(D \ {Head(dlqOrder)}) /\ Cardinality(D \ {Head(dlqOrder)}) = Cardinality(D) - 1
    BY <1>1, <2>3, FS_RemoveElement, Zenon
  <2> HIDE DEF D
  <2>5. Cardinality(D) - 1 < DLQMaxSize
    BY <1>1
  <2>6. DOMAIN EntriesKept = D \ {Head(dlqOrder)}
    BY <2>1
  <2> QED
    BY <2>1, <2>3, <2>4, <2>5, <2>6 DEF D
<1>3. CASE ~DLQEvicts
  <2>1. OrderKept = dlqOrder /\ EntriesKept = dlqEntries
    BY <1>3 DEF OrderKept, EntriesKept
  <2>2. ~(Cardinality(D) >= DLQMaxSize) \/ Len(dlqOrder) = 0
    BY <1>1, <1>3 DEF DLQEvicts
  <2>3. Len(dlqOrder) = 0 => D = {}
    <3>1. Len(dlqOrder) = 0 => DOMAIN dlqOrder = {}
      BY <1>1
    <3> QED
      BY <1>1, <3>1, Zenon DEF Range
  <2>4. Cardinality(D) < DLQMaxSize
    <3>1. D = {} => Cardinality(D) = 0
      BY FS_EmptySet, Zenon
    <3> HIDE DEF D
    <3> QED
      BY <1>1, <2>2, <2>3, <3>1
  <2> QED
    BY <1>1, <2>1, <2>4
<1> QED
  BY <1>2, <1>3

\* The queue is empty at first.
LEMMA InitIInv == DLQInit => IInv
<1> SUFFICES ASSUME DLQInit
             PROVE  IInv
  OBVIOUS
<1>1. DOMAIN dlqEntries = {} /\ DOMAIN dlqOrder = {} /\ dlqOrder \in Seq(Messages)
  BY DEF DLQInit
<1>2. dlqEntries \in [DOMAIN dlqEntries -> 1..MaxRetries]
  BY DEF DLQInit
<1>3. IsFiniteSet({}) /\ Cardinality({}) = 0
  BY FS_EmptySet, Zenon
<1> QED
  BY <1>1, <1>2, <1>3 DEF IInv, DLQTypeOK, OrderMatchesEntries, IsInjective, Range

\* Add, with its eviction, of a new ID or of one that is there.
LEMMA AddIInv ==
  ASSUME IInv, NEW id \in Messages, NEW attempts \in 1..MaxRetries, DLQAdd(id, attempts)
  PROVE  IInv'
<1> DEFINE K == DOMAIN EntriesKept
<1>1. /\ OrderKept \in Seq(Messages) /\ IsInjective(OrderKept) /\ Range(OrderKept) = K
      /\ K \subseteq DOMAIN dlqEntries /\ IsFiniteSet(K) /\ Cardinality(K) < DLQMaxSize
      /\ \A x \in K : EntriesKept[x] = dlqEntries[x]
  BY EvictionMakesRoom, Zenon
<1>2. /\ dlqOrder' = IF id \in K THEN OrderKept ELSE Append(OrderKept, id)
      /\ dlqEntries' = [x \in K \cup {id} |-> IF x = id THEN attempts ELSE EntriesKept[x]]
  BY DEF DLQAdd
<1> HIDE DEF K
<1>3. DOMAIN dlqEntries' = K \cup {id}
  BY <1>2, Zenon
<1>4. \A x \in K : dlqEntries[x] \in 1..MaxRetries /\ x \in Messages
  BY <1>1, Zenon DEF IInv, DLQTypeOK
<1>5. dlqEntries' \in [K \cup {id} -> 1..MaxRetries] /\ K \cup {id} \subseteq Messages
  BY <1>1, <1>2, <1>4, Zenon
<1>6. IsFiniteSet(K \cup {id}) /\ Cardinality(K \cup {id}) <= DLQMaxSize
  <2>1. Cardinality(K) \in Nat
    BY <1>1, FS_CardinalityType, Zenon
  <2>2. /\ IsFiniteSet(K \cup {id})
        /\ Cardinality(K \cup {id}) = IF id \in K THEN Cardinality(K) ELSE Cardinality(K) + 1
    BY <1>1, FS_AddElement, Zenon
  <2> QED
    BY <1>1, <2>1, <2>2
<1>7. dlqOrder' \in Seq(Messages) /\ IsInjective(dlqOrder') /\ Range(dlqOrder') = K \cup {id}
  <2>1. CASE id \in K
    <3>1. dlqOrder' = OrderKept /\ K \cup {id} = K
      BY <1>2, <2>1
    <3> QED
      BY <1>1, <3>1
  <2>2. CASE id \notin K
    BY <1>1, <1>2, <2>2, AppendOfInjective
  <2> QED
    BY <2>1, <2>2
<1> QED
  BY <1>3, <1>5, <1>6, <1>7, Zenon DEF IInv, DLQTypeOK, OrderMatchesEntries

\* Remove takes an ID from both.
LEMMA RemoveIInv ==
  ASSUME IInv, NEW id \in Messages, DLQRemove(id)
  PROVE  IInv'
<1> DEFINE D == DOMAIN dlqEntries
<1>1. /\ dlqOrder \in Seq(Messages) /\ IsInjective(dlqOrder) /\ Range(dlqOrder) = D
      /\ D \subseteq Messages /\ dlqEntries \in [D -> 1..MaxRetries]
      /\ IsFiniteSet(D) /\ Cardinality(D) <= DLQMaxSize /\ Cardinality(D) \in Nat
  BY FS_CardinalityType, Zenon DEF IInv, DLQTypeOK, OrderMatchesEntries
<1>2. /\ id \in D
      /\ dlqEntries' = [x \in D \ {id} |-> dlqEntries[x]]
      /\ dlqOrder' = Without(dlqOrder, id)
  BY Zenon DEF DLQRemove, Restrict
<1> HIDE DEF D
<1>3. dlqOrder' \in Seq(Messages) /\ IsInjective(dlqOrder') /\ Range(dlqOrder') = D \ {id}
  BY <1>1, <1>2, WithoutOfInjective, Zenon
<1>4. IsFiniteSet(D \ {id}) /\ Cardinality(D \ {id}) = Cardinality(D) - 1
  BY <1>1, <1>2, FS_RemoveElement, Zenon
<1>5. Cardinality(D \ {id}) <= DLQMaxSize
  BY <1>1, <1>4
<1>6. DOMAIN dlqEntries' = D \ {id} /\ dlqEntries' \in [D \ {id} -> 1..MaxRetries]
  BY <1>1, <1>2, Zenon
<1> QED
  BY <1>1, <1>3, <1>4, <1>5, <1>6, Zenon DEF IInv, DLQTypeOK, OrderMatchesEntries

\* Every step preserves the invariant.
LEMMA StepIInv == IInv /\ [DLQNext]_dlqVars => IInv'
<1> SUFFICES ASSUME IInv, [DLQNext]_dlqVars
             PROVE  IInv'
  OBVIOUS
<1>1. ASSUME NEW id \in Messages, NEW attempts \in 1..MaxRetries, DLQAdd(id, attempts)
      PROVE  IInv'
  BY <1>1, AddIInv, Zenon
<1>2. ASSUME NEW id \in Messages, DLQRemove(id)
      PROVE  IInv'
  BY <1>2, RemoveIInv, Zenon
<1>3. CASE DLQPurge
  <2>1. DLQInit'
    BY <1>3 DEF DLQPurge, DLQInit
  <2>2. DLQInit' => IInv'
    BY InitIInv, PTL
  <2> QED
    BY <2>1, <2>2, Zenon
<1>4. CASE UNCHANGED dlqVars
  BY <1>4, Zenon DEF dlqVars, IInv, DLQTypeOK, OrderMatchesEntries
<1> QED
  BY <1>1, <1>2, <1>3, <1>4, Zenon DEF DLQNext

-----------------------------------------------------------------------------
\* Entries have the type that Add gives them, and never exceed the capacity.
THEOREM QueueIsBounded == DLQSpec => []DLQTypeOK
<1>1. IInv => DLQTypeOK
  BY Zenon DEF IInv
<1> QED
  BY InitIInv, StepIInv, <1>1, PTL DEF DLQSpec

\* The map and the slice of dlq.go hold the same IDs, each once, always.
THEOREM MapAndSliceAgree == DLQSpec => []OrderMatchesEntries
<1>1. IInv => OrderMatchesEntries
  BY DEF IInv
<1> QED
  BY InitIInv, StepIInv, <1>1, PTL DEF DLQSpec

(***************************************************************************)
(* A step that stores an entry takes away at most the oldest one, and only *)
(* when the queue is full.                                                 *)
(***************************************************************************)
THEOREM OnlyTheOldestIsEvicted == DLQSpec => EvictsOnlyOldest
<1> DEFINE stored == {id \in DOMAIN dlqEntries' :
                        id \notin DOMAIN dlqEntries \/ dlqEntries'[id] # dlqEntries[id]}
           lost == DOMAIN dlqEntries \ DOMAIN dlqEntries'
           evicts == stored # {} /\ lost # {} =>
                       /\ lost = {Head(dlqOrder)}
                       /\ Cardinality(DOMAIN dlqEntries) = DLQMaxSize
<1>1. ASSUME IInv, [DLQNext]_dlqVars
      PROVE  [evicts]_dlqVars
  <2>1. ASSUME NEW id \in Messages, NEW attempts \in 1..MaxRetries, DLQAdd(id, attempts)
        PROVE  evicts
    <3>1. DOMAIN dlqEntries' = DOMAIN EntriesKept \cup {id}
      BY <2>1, Zenon DEF DLQAdd
    <3>2. CASE DLQEvicts
      <4>1. DOMAIN EntriesKept = DOMAIN dlqEntries \ {Head(dlqOrder)}
        BY <3>2, Zenon DEF EntriesKept, Restrict
      <4>2. /\ Cardinality(DOMAIN dlqEntries) \in Nat
            /\ Cardinality(DOMAIN dlqEntries) <= DLQMaxSize
            /\ Cardinality(DOMAIN dlqEntries) >= DLQMaxSize
        BY <1>1, <3>2, FS_CardinalityType, Zenon DEF DLQEvicts, IInv, DLQTypeOK
      <4>3. Cardinality(DOMAIN dlqEntries) = DLQMaxSize
        BY <4>2
      <4>4. lost # {} => lost = {Head(dlqOrder)}
        BY <3>1, <4>1, Zenon
      <4> QED
        BY <4>3, <4>4, Zenon
    <3>3. CASE ~DLQEvicts
      BY <3>1, <3>3, Zenon DEF EntriesKept
    <3> QED
      BY <3>2, <3>3, Zenon
  <2>2. ASSUME NEW id \in Messages, DLQRemove(id)
        PROVE  evicts
    BY <2>2, Zenon DEF DLQRemove, Restrict
  <2>3. CASE DLQPurge
    BY <2>3 DEF DLQPurge
  <2>4. CASE UNCHANGED dlqVars
    BY <2>4
  <2> QED
    BY <1>1, <2>1, <2>2, <2>3, <2>4, Zenon DEF DLQNext
<1> QED
  BY InitIInv, StepIInv, <1>1, PTL DEF DLQSpec, EvictsOnlyOldest

-----------------------------------------------------------------------------
(* Paging.                                                                 *)

\* One unfolding of the loop of List, and of the reader's.
ListedBody(offset, end, h) ==
  [n \in 0..(end - offset) |->
     IF n = 0 THEN <<>>
     ELSE IF dlqOrder[offset + n] \in DOMAIN dlqEntries
          THEN Append(h[n - 1], dlqOrder[offset + n])
          ELSE h[n - 1]]

ReadBody(limit, h) ==
  [n \in 0..(Len(dlqOrder) + 1) |->
     IF n = 0 THEN <<>> ELSE h[n - 1] \o DLQList((n - 1) * limit, limit)]

\* A piece of a sequence, and the next element.
LEMMA PieceGrows ==
  ASSUME NEW S, NEW s \in Seq(S), NEW i \in Nat, NEW n \in Nat \ {0}, i + n <= Len(s)
  PROVE  /\ SubSeq(s, i + 1, i + n) = Append(SubSeq(s, i + 1, i + (n - 1)), s[i + n])
         /\ s[i + n] \in Range(s)
<1>1. SubSeq(s, i + 1, i + n) \in Seq(S) /\ SubSeq(s, i + 1, i + (n - 1)) \in Seq(S)
  OBVIOUS
<1>2. /\ Len(SubSeq(s, i + 1, i + n)) = n /\ Len(SubSeq(s, i + 1, i + (n - 1))) = n - 1
      /\ \A k \in 1..n : SubSeq(s, i + 1, i + n)[k] = s[i + k]
      /\ \A k \in 1..(n - 1) : SubSeq(s, i + 1, i + (n - 1))[k] = s[i + k]
  OBVIOUS
<1>3. SubSeq(s, i + 1, i + n) = Append(SubSeq(s, i + 1, i + (n - 1)), s[i + n])
  BY <1>1, <1>2
<1>4. s[i + n] \in Range(s)
  BY DEF Range
<1> QED
  BY <1>3, <1>4, Zenon

\* The start of a sequence, and the piece after it.
LEMMA PiecesJoin ==
  ASSUME NEW S, NEW s \in Seq(S), NEW i \in Nat, NEW e \in Nat, i <= e, e <= Len(s)
  PROVE  SubSeq(s, 1, i) \o SubSeq(s, i + 1, e) = SubSeq(s, 1, e)
<1>1. /\ SubSeq(s, 1, i) \in Seq(S) /\ SubSeq(s, i + 1, e) \in Seq(S) /\ SubSeq(s, 1, e) \in Seq(S)
      /\ Len(SubSeq(s, 1, i)) = i /\ Len(SubSeq(s, i + 1, e)) = e - i /\ Len(SubSeq(s, 1, e)) = e
      /\ \A k \in 1..i : SubSeq(s, 1, i)[k] = s[k]
      /\ \A k \in 1..(e - i) : SubSeq(s, i + 1, e)[k] = s[i + k]
      /\ \A k \in 1..e : SubSeq(s, 1, e)[k] = s[k]
  OBVIOUS
<1> QED
  BY <1>1

\* A page is a piece of the queue: no ID is skipped.
LEMMA PageIs ==
  ASSUME IInv, NEW offset \in Nat, NEW end \in Nat, offset <= end, end <= Len(dlqOrder)
  PROVE  Listed(offset, end)[end - offset] = SubSeq(dlqOrder, offset + 1, end)
<1>0. dlqOrder \in Seq(Messages) /\ Range(dlqOrder) = DOMAIN dlqEntries
  BY Zenon DEF IInv, DLQTypeOK, OrderMatchesEntries
<1>1. PICK N \in Nat : N = end - offset
  OBVIOUS
<1>2. ASSUME NEW n \in 1..N
      PROVE  /\ dlqOrder[offset + n] \in DOMAIN dlqEntries
             /\ SubSeq(dlqOrder, offset + 1, offset + n)
                  = Append(SubSeq(dlqOrder, offset + 1, offset + (n - 1)), dlqOrder[offset + n])
  <2>1. n \in Nat \ {0} /\ offset + n <= Len(dlqOrder)
    BY <1>0, <1>1
  <2> QED
    BY <1>0, <2>1, PieceGrows, Zenon
<1>3. SubSeq(dlqOrder, offset + 1, offset + 0) = <<>>
  BY <1>0
<1>4. PICK f : f = [n \in 0..N |-> SubSeq(dlqOrder, offset + 1, offset + n)]
  BY Zenon
<1>5. \A n \in 0..N : n = 0 \/ (n \in 1..N /\ n - 1 \in 0..N)
  OBVIOUS
<1>6. f = ListedBody(offset, end, f)
  BY <1>1, <1>2, <1>3, <1>4, <1>5, Zenon DEF ListedBody
<1>7. Listed(offset, end) = CHOOSE h : h = ListedBody(offset, end, h)
  BY Zenon DEF Listed, ListedBody
<1>8. PICK h : h = Listed(offset, end) /\ h = ListedBody(offset, end, h)
  BY <1>6, <1>7, Zenon
<1>9. h[0] = <<>> /\ \A n \in 1..N : h[n] = Append(h[n - 1], dlqOrder[offset + n])
  <2>1. /\ ListedBody(offset, end, h)[0] = <<>>
        /\ \A n \in 1..N : ListedBody(offset, end, h)[n] = Append(h[n - 1], dlqOrder[offset + n])
    <3>1. 0 \in 0..N /\ \A n \in 1..N : n # 0 /\ n \in 0..N
      OBVIOUS
    <3> QED
      BY <1>1, <1>2, <3>1, Zenon DEF ListedBody
  <2> QED
    BY <1>8, <2>1, Zenon
<1> DEFINE T == {n \in 0..N : h[n] = SubSeq(dlqOrder, offset + 1, offset + n)}
<1>10. 0 \in T
  <2>1. 0 \in 0..N
    OBVIOUS
  <2> QED
    BY <1>3, <1>9, <2>1, Zenon
<1>11. ASSUME NEW n \in 0..N, n < N, n \in T
       PROVE  n + 1 \in T
  <2>1. PICK k \in 1..N : k = n + 1 /\ k - 1 = n /\ k \in 0..N
    BY <1>11
  <2>2. h[k] = Append(h[k - 1], dlqOrder[offset + k])
    BY <1>9, Zenon
  <2>3. h[k - 1] = SubSeq(dlqOrder, offset + 1, offset + (k - 1))
    BY <1>11, <2>1, Zenon
  <2>4. h[k] = SubSeq(dlqOrder, offset + 1, offset + k)
    BY <1>2, <2>2, <2>3, Zenon
  <2> QED
    BY <2>1, <2>4, Zenon
<1>12. N \in T
  <2> HIDE DEF T
  <2>1. \A n \in 0..N : n \in T
    BY <1>10, <1>11, UpTo, Zenon
  <2> QED
    BY <2>1
<1>13. offset + N = end
  BY <1>1
<1> QED
  BY <1>1, <1>8, <1>12, <1>13, Zenon

\* What n pages of size limit cover.
Covered(limit, n) == IF n * limit > Len(dlqOrder) THEN Len(dlqOrder) ELSE n * limit

\* One more page.
LEMMA NextPage ==
  ASSUME IInv, NEW limit \in Nat \ {0}, NEW n \in Nat \ {0}
  PROVE  SubSeq(dlqOrder, 1, Covered(limit, n - 1)) \o DLQList((n - 1) * limit, limit)
           = SubSeq(dlqOrder, 1, Covered(limit, n))
<1>0. dlqOrder \in Seq(Messages)
  BY Zenon DEF IInv, DLQTypeOK
<1>1. PICK L \in Nat : L = Len(dlqOrder)
  BY <1>0
<1>2. PICK o \in Nat : o = (n - 1) * limit /\ n * limit = o + limit
  <2>1. PICK j \in Nat : j = n - 1 /\ n = j + 1
    OBVIOUS
  <2>2. j * limit \in Nat /\ (j + 1) * limit = j * limit + limit
    OBVIOUS
  <2> QED
    BY <2>1, <2>2, Zenon
<1>3. CASE o >= L
  <2>1. DLQList(o, limit) = <<>>
    BY <1>1, <1>3, Zenon DEF DLQList
  <2>2. Covered(limit, n - 1) = L /\ Covered(limit, n) = L
    BY <1>1, <1>2, <1>3 DEF Covered
  <2>3. SubSeq(dlqOrder, 1, L) \o <<>> = SubSeq(dlqOrder, 1, L)
    BY <1>0, <1>1
  <2> QED
    BY <1>2, <2>1, <2>2, <2>3, Zenon
<1>4. CASE o < L
  <2>1. PICK e \in Nat : e = PageEnd(o, limit)
    <3>1. PICK e : e = IF o + limit > L THEN L ELSE o + limit
      BY Zenon
    <3>2. e \in Nat
      BY <3>1
    <3> QED
      BY <1>1, <3>1, <3>2, Zenon DEF PageEnd
  <2>2. o <= e /\ e <= L /\ e = Covered(limit, n) /\ o = Covered(limit, n - 1) /\ ~(o >= L)
    BY <1>1, <1>2, <1>4, <2>1 DEF PageEnd, Covered
  <2>3. DLQList(o, limit) = SubSeq(dlqOrder, o + 1, e)
    BY <1>1, <2>1, <2>2, PageIs, Zenon DEF DLQList
  <2>4. SubSeq(dlqOrder, 1, o) \o SubSeq(dlqOrder, o + 1, e) = SubSeq(dlqOrder, 1, e)
    BY <1>0, <1>1, <2>2, PiecesJoin, Zenon
  <2> QED
    BY <1>2, <2>2, <2>3, <2>4, Zenon
<1>5. o >= L \/ o < L
  OBVIOUS
<1> QED
  BY <1>3, <1>4, <1>5, Zenon

\* Reading page by page reads the queue.
LEMMA PagesAre ==
  ASSUME IInv, NEW limit \in Nat \ {0}
  PROVE  PagesRead(limit)[Len(dlqOrder) + 1] = dlqOrder
<1>0. dlqOrder \in Seq(Messages)
  BY Zenon DEF IInv, DLQTypeOK
<1>1. PICK N \in Nat : N = Len(dlqOrder) + 1
  BY <1>0
<1>2. ASSUME NEW n \in 1..N
      PROVE  SubSeq(dlqOrder, 1, Covered(limit, n - 1)) \o DLQList((n - 1) * limit, limit)
               = SubSeq(dlqOrder, 1, Covered(limit, n))
  <2>1. n \in Nat \ {0}
    OBVIOUS
  <2> QED
    BY <2>1, NextPage, Zenon
<1>3. SubSeq(dlqOrder, 1, Covered(limit, 0)) = <<>>
  <2>1. Covered(limit, 0) = 0
    BY <1>0 DEF Covered
  <2>2. SubSeq(dlqOrder, 1, 0) = <<>>
    BY <1>0
  <2> QED
    BY <2>1, <2>2, Zenon
<1>4. PICK f : f = [n \in 0..N |-> SubSeq(dlqOrder, 1, Covered(limit, n))]
  BY Zenon
<1>5. \A n \in 0..N : n = 0 \/ (n \in 1..N /\ n - 1 \in 0..N)
  OBVIOUS
<1>6. f = ReadBody(limit, f)
  BY <1>1, <1>2, <1>3, <1>4, <1>5, Zenon DEF ReadBody
<1>7. PagesRead(limit) = CHOOSE h : h = ReadBody(limit, h)
  BY Zenon DEF PagesRead, ReadBody
<1>8. PICK h : h = PagesRead(limit) /\ h = ReadBody(limit, h)
  BY <1>6, <1>7, Zenon
<1>9. h[0] = <<>> /\ \A n \in 1..N : h[n] = h[n - 1] \o DLQList((n - 1) * limit, limit)
  <2>1. /\ ReadBody(limit, h)[0] = <<>>
        /\ \A n \in 1..N : ReadBody(limit, h)[n] = h[n - 1] \o DLQList((n - 1) * limit, limit)
    <3>1. 0 \in 0..N /\ \A n \in 1..N : n # 0 /\ n \in 0..N
      OBVIOUS
    <3> QED
      BY <1>1, <3>1, Zenon DEF ReadBody
  <2> QED
    BY <1>8, <2>1, Zenon
<1> DEFINE T == {n \in 0..N : h[n] = SubSeq(dlqOrder, 1, Covered(limit, n))}
<1>10. 0 \in T
  <2>1. 0 \in 0..N
    OBVIOUS
  <2> QED
    BY <1>3, <1>9, <2>1, Zenon
<1>11. ASSUME NEW n \in 0..N, n < N, n \in T
       PROVE  n + 1 \in T
  <2>1. PICK k \in 1..N : k = n + 1 /\ k - 1 = n /\ k \in 0..N
    BY <1>11
  <2>2. h[k] = h[k - 1] \o DLQList((k - 1) * limit, limit)
    BY <1>9, Zenon
  <2>3. h[k - 1] = SubSeq(dlqOrder, 1, Covered(limit, k - 1))
    BY <1>11, <2>1, Zenon
  <2>4. h[k] = SubSeq(dlqOrder, 1, Covered(limit, k))
    BY <1>2, <2>2, <2>3, Zenon
  <2> QED
    BY <2>1, <2>4, Zenon
<1>12. N \in T
  <2> HIDE DEF T
  <2>1. \A n \in 0..N : n \in T
    BY <1>10, <1>11, UpTo, Zenon
  <2> QED
    BY <2>1
<1>13. Covered(limit, N) = Len(dlqOrder)
  <2>1. PICK l \in Nat : l = limit - 1 /\ limit = l + 1
    OBVIOUS
  <2>2. N * l \in Nat /\ N * (l + 1) = N * l + N
    OBVIOUS
  <2>3. N * limit > Len(dlqOrder)
    BY <1>0, <1>1, <2>1, <2>2
  <2> QED
    BY <2>3, Zenon DEF Covered
<1>14. SubSeq(dlqOrder, 1, Len(dlqOrder)) = dlqOrder
  BY <1>0
<1> QED
  BY <1>1, <1>8, <1>12, <1>13, <1>14, Zenon

(***************************************************************************)
(* Reading the dead letter queue page by page shows every entry exactly    *)
(* once, in order, whatever the size of the pages: List skips an ID that   *)
(* has no entry, and there is none.                                        *)
(***************************************************************************)
THEOREM PagingIsComplete == DLQSpec => []PagesCoverQueue
<1>1. IInv => PagesCoverQueue
  <2> SUFFICES ASSUME IInv, NEW limit \in 1..Len(dlqOrder)
               PROVE  PagesRead(limit)[Len(dlqOrder) + 1] = dlqOrder
    BY Zenon DEF PagesCoverQueue
  <2>1. Len(dlqOrder) \in Nat
    BY DEF IInv, DLQTypeOK
  <2>2. limit \in Nat \ {0}
    BY <2>1
  <2> QED
    BY <2>2, PagesAre, Zenon
<1> QED
  BY InitIInv, StepIInv, <1>1, PTL DEF DLQSpec
=============================================================================
