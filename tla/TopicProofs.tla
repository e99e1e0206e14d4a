----------------------------- MODULE TopicProofs ----------------------------
(***************************************************************************)
(* A topic's message is in one place at a time and uses its retry budget   *)
(* exactly, for any messages, groups, capacities and numbers of retries:   *)
(* the inductive invariant, what a step that moves one message has to      *)
(* show, that one place is one reference, and one lemma per action or per  *)
(* group of actions that do the same to the places.  Then the accounts of  *)
(* the deliveries balance, by what each action moves in them.              *)
(***************************************************************************)
EXTENDS Topic, DeadLetterQueueProofs, Loops

\* The time of a leaf that names no prover.
USE SMTT(30)

Ends == {"back", "front"}
PlaceNames == {"none", "ring", "due", "publishing", "popped", "pel", "wheel",
               "nacked", "timedOut", "replayed", "dlq"}

\* The place of m is p; q is the end or the group where p has several.
At(m, p, q) ==
  /\ m \in Range(ring) <=> p = "ring"
  /\ m \in Range(due) <=> p = "due"
  /\ \A end \in Ends : <<m, end>> \in publishing <=> (p = "publishing" /\ q = end)
  /\ \A g \in Groups : <<m, g>> \in popped <=> (p = "popped" /\ q = g)
  /\ \A g \in Groups : pel[g][m] # "none" <=> (p = "pel" /\ q = g)
  /\ m \in wheel <=> p = "wheel"
  /\ m \in nacked <=> p = "nacked"
  /\ m \in timedOut <=> p = "timedOut"
  /\ m \in replayed <=> p = "replayed"
  /\ m \in DOMAIN dlqEntries <=> p = "dlq"
  /\ fate[m] = "live" <=> p # "none"
  /\ p = "publishing" => q \in Ends
  /\ p \in {"popped", "pel"} => q \in Groups

\* m is in one place, or nowhere if it is not live.
Homed(m) == \E p \in PlaceNames, q \in Ends \cup Groups : At(m, p, q)

Shape ==
  /\ ring \in Seq(Messages) /\ IsInjective(ring)
  /\ due \in Seq(Messages) /\ IsInjective(due)
  /\ pel \in [Groups -> [Messages -> {"none", "pending", "expired"}]]
  /\ publishing \subseteq Messages \X Ends
  /\ popped \subseteq Messages \X Groups
  /\ wheel \subseteq Messages /\ IsFiniteSet(wheel)
  /\ nacked \subseteq Messages
  /\ timedOut \subseteq Messages
  /\ replayed \subseteq Messages
  /\ retryCount \in [Messages -> Nat]
  /\ fate \in [Messages -> Fates]
  /\ \A m \in Messages : fate[m] = "new" => retryCount[m] = 0

\* RetryBudget for one message.
InBudget(m) ==
  IF m \in DOMAIN dlqEntries \cup replayed
  THEN /\ retryCount[m] = MaxRetries
       /\ m \in DOMAIN dlqEntries => dlqEntries[m] = MaxRetries
  ELSE fate[m] = "live" => retryCount[m] < MaxRetries

(***************************************************************************)
(* The inductive invariant.  The budget needs the single place: a failed   *)
(* delivery may be counted only if its message is not in the dead letter   *)
(* queue or on its way out of it at the same time.                         *)
(***************************************************************************)
TInv ==
  /\ Shape
  /\ IInv
  /\ \A m \in Messages : Homed(m) /\ InBudget(m)

USE DLQMaxSizeAssumption, MaxRetriesAssumption, RingMaxAssumption

-----------------------------------------------------------------------------
(* The ring as a sequence.                                                 *)

\* An insertion at the back of the ring, with the drop of the oldest when full.
LEMMA PushedFacts ==
  ASSUME NEW q \in Seq(Messages), IsInjective(q), NEW m \in Messages, m \notin Range(q)
  PROVE  /\ Pushed(q, m, RingMax) \in Seq(Messages) /\ IsInjective(Pushed(q, m, RingMax))
         /\ m \in Range(Pushed(q, m, RingMax))
         /\ Range(Pushed(q, m, RingMax)) \subseteq Range(q) \cup {m}
<1> DEFINE r == IF Len(q) >= RingMax THEN Tail(q) ELSE q
<1>1. r \in Seq(Messages) /\ IsInjective(r) /\ Range(r) \subseteq Range(q)
  <2>1. CASE Len(q) >= RingMax
    <3>1. Len(q) > 0
      BY <2>1
    <3> QED
      BY <2>1, <3>1, TailOfInjective, Zenon
  <2>2. CASE ~(Len(q) >= RingMax)
    BY <2>2, Zenon
  <2> QED
    BY <2>1, <2>2, Zenon
<1>2. Pushed(q, m, RingMax) = Append(r, m)
  BY Zenon DEF Pushed
<1> HIDE DEF r
<1> QED
  BY <1>1, <1>2, AppendOfInjective

\* The ring without its newest message.
LEMMA ButLast ==
  ASSUME NEW q \in Seq(Messages), Len(q) > 0
  PROVE  /\ SubSeq(q, 1, Len(q) - 1) \in Seq(Messages)
         /\ Len(SubSeq(q, 1, Len(q) - 1)) = Len(q) - 1
         /\ \A i \in 1..(Len(q) - 1) : SubSeq(q, 1, Len(q) - 1)[i] = q[i]
<1>1. Len(q) - 1 \in Nat
  OBVIOUS
<1>2. SubSeq(q, 1, Len(q) - 1) \in Seq(Messages)
  BY <1>1
<1>3. Len(SubSeq(q, 1, Len(q) - 1)) = Len(q) - 1
  BY <1>1
<1> QED
  BY <1>1, <1>2, <1>3

\* An insertion at the front, with the drop of the newest when full.
LEMMA PushedFrontFacts ==
  ASSUME NEW q \in Seq(Messages), IsInjective(q), NEW m \in Messages, m \notin Range(q)
  PROVE  /\ PushedFront(q, m, RingMax) \in Seq(Messages)
         /\ IsInjective(PushedFront(q, m, RingMax))
         /\ m \in Range(PushedFront(q, m, RingMax))
         /\ Range(PushedFront(q, m, RingMax)) \subseteq Range(q) \cup {m}
<1> DEFINE r == IF Len(q) >= RingMax THEN SubSeq(q, 1, Len(q) - 1) ELSE q
           t == <<m>> \o r
<1>1. PushedFront(q, m, RingMax) = t
  BY DEF PushedFront
<1>2. /\ r \in Seq(Messages) /\ Len(r) \in Nat /\ Len(r) <= Len(q)
      /\ DOMAIN q = 1..Len(q) /\ Len(q) \in Nat
      /\ \A i \in 1..Len(r) : r[i] = q[i]
  <2>1. CASE Len(q) >= RingMax
    <3>1. Len(q) > 0 /\ r = SubSeq(q, 1, Len(q) - 1)
      BY <2>1
    <3> HIDE DEF r
    <3> QED
      BY <3>1, ButLast
  <2>2. CASE ~(Len(q) >= RingMax)
    BY <2>2
  <2> QED
    BY <2>1, <2>2, Zenon
<1> HIDE DEF r
<1>3. /\ t \in Seq(Messages) /\ DOMAIN t = 1..(Len(r) + 1) /\ t[1] = m
      /\ \A i \in 2..(Len(r) + 1) : t[i] = r[i - 1]
  BY <1>2
<1> HIDE DEF t
<1>4. \A i \in DOMAIN t : i = 1 \/ (i - 1 \in DOMAIN q /\ t[i] = q[i - 1])
  BY <1>2, <1>3
<1>5. \A i \in DOMAIN q : q[i] # m
  BY Zenon DEF Range
<1>6. IsInjective(t)
  <2> SUFFICES ASSUME NEW a \in DOMAIN t, NEW b \in DOMAIN t, t[a] = t[b]
               PROVE  a = b
    BY Zenon DEF IsInjective
  <2>1. CASE a = 1 \/ b = 1
    BY <1>3, <1>4, <1>5, <2>1, Zenon
  <2>2. CASE a # 1 /\ b # 1
    <3>1. a - 1 = b - 1
      BY <1>4, <2>2, Zenon DEF IsInjective
    <3> QED
      BY <1>2, <1>3, <3>1
  <2> QED
    BY <2>1, <2>2, Zenon
<1>7. m \in Range(t)
  BY <1>2, <1>3 DEF Range
<1>8. Range(t) \subseteq Range(q) \cup {m}
  BY <1>3, <1>4 DEF Range
<1> QED
  BY <1>1, <1>3, <1>6, <1>7, <1>8

\* An order of the elements of a finite set has all of them.
LEMMA OrderOfSet ==
  ASSUME NEW S, S \subseteq Messages, IsFiniteSet(S), NEW f \in Bijection(1..Cardinality(S), S)
  PROVE  f \in Seq(Messages) /\ IsInjective(f) /\ Range(f) = S
<1> DEFINE n == Cardinality(S)
<1>1. n \in Nat
  BY FS_CardinalityType, Zenon
<1>2. f \in [1..n -> S] /\ IsInjective(f) /\ \A e \in S : \E i \in 1..n : f[i] = e
  BY Zenon DEF Bijection, Injection, Surjection
<1> HIDE DEF n
<1>3. f \in Seq(Messages)
  BY <1>1, <1>2
<1>4. Range(f) = S
  BY <1>2, Zenon DEF Range
<1> QED
  BY <1>2, <1>3, <1>4, Zenon

-----------------------------------------------------------------------------
(* What a step leaves alone.                                               *)

\* The step moves x in or out of the ring and the DLQ at most ...
Elsewhere(x) ==
  /\ x \in Range(due') <=> x \in Range(due)
  /\ \A end \in Ends : <<x, end>> \in publishing' <=> <<x, end>> \in publishing
  /\ \A g \in Groups : <<x, g>> \in popped' <=> <<x, g>> \in popped
  /\ \A g \in Groups : pel'[g][x] # "none" <=> pel[g][x] # "none"
  /\ x \in wheel' <=> x \in wheel
  /\ x \in nacked' <=> x \in nacked
  /\ x \in timedOut' <=> x \in timedOut
  /\ x \in replayed' <=> x \in replayed

\* ... or does not move it at all.
Stays(x) ==
  /\ Elsewhere(x)
  /\ x \in Range(ring') <=> x \in Range(ring)
  /\ x \in DOMAIN dlqEntries' <=> x \in DOMAIN dlqEntries
  /\ fate'[x] = "live" <=> fate[x] = "live"

\* x is on no way between the ring, the groups and the DLQ.
Settled(x) ==
  /\ x \notin Range(due) \cup wheel \cup nacked \cup timedOut \cup replayed
  /\ \A end \in Ends : <<x, end>> \notin publishing
  /\ \A g \in Groups : <<x, g>> \notin popped /\ pel[g][x] = "none"

\* What is not moved keeps its place.
LEMMA StaysHomed ==
  ASSUME NEW x \in Messages, Homed(x), Stays(x)
  PROVE  Homed(x)'
<1>1. PICK p \in PlaceNames, q \in Ends \cup Groups : At(x, p, q)
  BY Zenon DEF Homed
<1>2. At(x, p, q)'
  BY <1>1, Zenon DEF At, Stays, Elsewhere, Ends
<1> QED
  BY <1>2, Zenon DEF Homed

\* What the ring drops or the DLQ evicts is nowhere.
LEMMA DroppedHomed ==
  ASSUME NEW x \in Messages, Homed(x), Elsewhere(x),
         x \in Range(ring) \cup DOMAIN dlqEntries,
         x \notin Range(ring') \cup DOMAIN dlqEntries', fate'[x] # "live"
  PROVE  Homed(x)'
<1>1. PICK p \in PlaceNames, q \in Ends \cup Groups : At(x, p, q)
  BY Zenon DEF Homed
<1>2. p \in {"ring", "dlq"}
  BY <1>1, Zenon DEF At
<1>3. At(x, "none", q)'
  BY <1>1, <1>2, Zenon DEF At, Elsewhere, Ends
<1> QED
  BY <1>3, Zenon DEF Homed, PlaceNames

\* What has come to the ring, if it is live, is there.
LEMMA ArrivedHomed ==
  ASSUME NEW x \in Messages, Settled(x)', x \notin DOMAIN dlqEntries',
         x \in Range(ring') <=> fate'[x] = "live"
  PROVE  Homed(x)'
<1>1. \/ At(x, "ring", "back")'
      \/ At(x, "none", "back")'
  BY Zenon DEF At, Settled, Ends
<1> QED
  BY <1>1, Zenon DEF Homed, PlaceNames, Ends

\* A step that leaves the dead letter queue alone keeps its invariant.
LEMMA DLQUnchanged ==
  ASSUME IInv, UNCHANGED dlqVars
  PROVE  IInv'
BY Zenon DEF dlqVars, IInv, DLQTypeOK, OrderMatchesEntries

\* The budget is kept by a step that counts no retry and moves no dead letter.
LEMMA BudgetKept ==
  ASSUME TInv, UNCHANGED <<dlqVars, retryCount, replayed>>,
         \A x \in Messages : fate'[x] = "live" => fate[x] \in {"live", "new"}
  PROVE  \A x \in Messages : InBudget(x)'
<1> SUFFICES ASSUME NEW x \in Messages
             PROVE  InBudget(x)'
  BY Zenon
<1>1. InBudget(x) /\ (fate[x] = "new" => retryCount[x] = 0)
  BY Zenon DEF TInv, Shape
<1> QED
  BY <1>1 DEF InBudget, dlqVars

\* The message m enters the ring, which becomes r.
LEMMA RingBecomesHomed ==
  ASSUME TInv, NEW m \in Messages, Settled(m)', m \notin Range(ring), m \notin DOMAIN dlqEntries,
         UNCHANGED dlqEntries, \A x \in Messages \ {m} : Elsewhere(x),
         NEW r \in Seq(Messages), m \in Range(r), Range(r) \subseteq Range(ring) \cup {m},
         RingBecomes(r, m)
  PROVE  /\ \A x \in Messages : Homed(x)'
         /\ fate' \in [Messages -> Fates]
         /\ \A x \in Messages : fate'[x] = "new" => fate[x] = "new" /\ x # m
         /\ \A x \in Messages \ {m} : fate'[x] = "live" => fate[x] = "live"
<1>1. /\ ring' = r
      /\ \A x \in Messages : fate'[x] = IF x = m THEN "live"
                                       ELSE IF x \in Range(ring) \ Range(r) THEN "overrun"
                                       ELSE fate[x]
  BY Zenon DEF RingBecomes
<1>2. fate' \in [Messages -> Fates]
  BY Zenon DEF RingBecomes, TInv, Shape, Fates
<1>3. ASSUME NEW x \in Messages PROVE Homed(x)'
  <2>1. CASE x = m
    <3>1. m \in Range(ring') /\ fate'[m] = "live" /\ m \notin DOMAIN dlqEntries'
      BY <1>1, Zenon
    <3>2. Homed(m)'
      BY <3>1, ArrivedHomed, Zenon
    <3> QED
      BY <2>1, <3>2, Zenon
  <2>2. CASE x # m /\ x \in Range(ring) \ Range(r)
    <3>1. x \notin DOMAIN dlqEntries
      BY <2>2, Zenon DEF TInv, Homed, At
    <3>2. x \notin Range(ring') \cup DOMAIN dlqEntries' /\ fate'[x] # "live"
      BY <1>1, <2>2, <3>1, Zenon
    <3> QED
      BY <2>2, <3>2, DroppedHomed, Zenon DEF TInv
  <2>3. CASE x # m /\ x \notin Range(ring) \ Range(r)
    <3>1. Stays(x)
      BY <1>1, <2>3, Zenon DEF Stays
    <3> QED
      BY <3>1, StaysHomed, Zenon DEF TInv
  <2> QED
    BY <2>1, <2>2, <2>3, Zenon
<1> QED
  BY <1>1, <1>2, <1>3, Zenon

\* ring.Push of a message that has left its place, or its loss.
LEMMA PushOrLoseHomed ==
  ASSUME TInv, NEW m \in Messages, Settled(m)', m \notin Range(ring), m \notin DOMAIN dlqEntries,
         UNCHANGED dlqEntries, \A x \in Messages \ {m} : Elsewhere(x), PushOrLose(m)
  PROVE  /\ \A x \in Messages : Homed(x)'
         /\ ring' \in Seq(Messages) /\ IsInjective(ring')
         /\ fate' \in [Messages -> Fates]
         /\ \A x \in Messages : fate'[x] = "new" => fate[x] = "new" /\ x # m
         /\ \A x \in Messages \ {m} : fate'[x] = "live" => fate[x] = "live"
<1> DEFINE r == Pushed(ring, m, RingMax)
<1>1. CASE RingBecomes(r, m)
  <2>1. r \in Seq(Messages) /\ IsInjective(r) /\ m \in Range(r) /\ Range(r) \subseteq Range(ring) \cup {m}
    BY PushedFacts, Zenon DEF TInv, Shape
  <2>2. ring' = r
    BY <1>1, Zenon DEF RingBecomes
  <2> HIDE DEF r
  <2> QED
    BY <1>1, <2>1, <2>2, RingBecomesHomed, Zenon
<1>2. CASE fate' = Fate({m}, "lost") /\ UNCHANGED ring
  <2>1. /\ \A x \in Messages : fate'[x] = IF x = m THEN "lost" ELSE fate[x]
        /\ fate' \in [Messages -> Fates]
    BY <1>2, Zenon DEF Fate, Fates, TInv, Shape
  <2>2. \A x \in Messages \ {m} : Stays(x)
    BY <1>2, <2>1, Zenon DEF Stays
  <2>3. Homed(m)'
    BY <1>2, <2>1, ArrivedHomed, Zenon
  <2> QED
    BY <1>2, <2>1, <2>2, <2>3, StaysHomed, Zenon DEF TInv, Shape
<1> QED
  BY <1>1, <1>2, Zenon DEF PushOrLose

-----------------------------------------------------------------------------
(* The references to a message.                                            *)

\* S has one element if b, and none otherwise.
Single(S, b) ==
  /\ b => S # {}
  /\ ~b => S = {}
  /\ \A i, j \in S : i = j

\* The same, for a finite set, as a number.
Counts(S, b) == IF b THEN Cardinality(S) = 1 ELSE S = {}

\* The sets that hold messages without more.
Holders == {"wheel", "nacked", "timedOut", "replayed"}

\* The references of kind t, one per element of S.
Tag(t, S) == {<<t, i>> : i \in S}

\* A message has one position in an injective sequence, or none.
LEMMA Positions ==
  ASSUME NEW s \in Seq(Messages), IsInjective(s), NEW m \in Messages
  PROVE  Single({j \in DOMAIN s : s[j] = m}, m \in Range(s))
BY Zenon DEF Single, Range, IsInjective

\* The pairs of S with m; whether there is one; whether there is at most one.
PairsOf(S, m) == {e \in S : e[1] = m}
HasPair(S, B, m) == \E c \in B : <<m, c>> \in S
OnePair(S, B, m) == \A c, d \in B : <<m, c>> \in S /\ <<m, d>> \in S => c = d

\* Elements of a set of pairs are counted by their second components.
LEMMA Pairs ==
  ASSUME NEW B, NEW S, S \in SUBSET (Messages \X B), NEW m, m \in Messages, OnePair(S, B, m)
  PROVE  Single(PairsOf(S, m), HasPair(S, B, m))
<1>1. \A e \in S : e[1] = m => e[2] \in B /\ e = <<m, e[2]>>
  OBVIOUS
<1>2. \A c \in B : <<m, c>> \in S => <<m, c>> \in PairsOf(S, m)
  BY Zenon DEF PairsOf
<1>3. \A e, f \in PairsOf(S, m) : e = f
  BY <1>1, Zenon DEF PairsOf, OnePair
<1>4. HasPair(S, B, m) => PairsOf(S, m) # {}
  BY <1>2, Zenon DEF HasPair
<1>5. ~HasPair(S, B, m) => PairsOf(S, m) = {}
  BY <1>1, Zenon DEF PairsOf, HasPair
<1> QED
  BY <1>3, <1>4, <1>5, Zenon DEF Single

\* References of one kind are as many as their marks.
LEMMA Tagged ==
  ASSUME NEW S, NEW b \in BOOLEAN, Single(S, b), NEW t
  PROVE  Counts(Tag(t, S), b)
<1>1. CASE b
  <2>1. PICK i \in S : \A j \in S : j = i
    BY <1>1, Zenon DEF Single
  <2>2. S = {i}
    BY <2>1, Zenon
  <2> DEFINE e == <<t, i>>
  <2>3. Tag(t, {i}) = {e}
    BY Zenon DEF Tag
  <2> HIDE DEF e
  <2>4. Cardinality({e}) = 1
    BY FS_Singleton, Zenon
  <2> QED
    BY <1>1, <2>2, <2>3, <2>4, Zenon DEF Counts
<1>2. CASE ~b
  BY <1>2, Zenon DEF Single, Tag, Counts
<1> QED
  BY <1>1, <1>2, Zenon

\* With one kind of reference, or none, there is one reference, or none.
LEMMA OneKind ==
  ASSUME NEW p \in PlaceNames, NEW R, NEW D, NEW P, NEW C, NEW L, NEW Q, NEW W,
         Counts(R, p = "ring"),
         Counts(D, p = "due"),
         Counts(P, p = "publishing"),
         Counts(C, p = "popped"),
         Counts(L, p = "pel"),
         Counts(Q, p = "dlq"),
         Counts(W, p \in Holders)
  PROVE  Counts(R \cup D \cup P \cup C \cup L \cup Q \cup W, p # "none")
<1> DEFINE all == R \cup D \cup P \cup C \cup L \cup Q \cup W
<1>1. CASE p = "ring"
  <2>1. all = R /\ Cardinality(R) = 1 /\ p # "none"
    BY <1>1, Zenon DEF Holders, Counts
  <2> QED
    BY <2>1, Zenon DEF Counts
<1>2. CASE p = "due"
  <2>1. all = D /\ Cardinality(D) = 1 /\ p # "none"
    BY <1>2, Zenon DEF Holders, Counts
  <2> QED
    BY <2>1, Zenon DEF Counts
<1>3. CASE p = "publishing"
  <2>1. all = P /\ Cardinality(P) = 1 /\ p # "none"
    BY <1>3, Zenon DEF Holders, Counts
  <2> QED
    BY <2>1, Zenon DEF Counts
<1>4. CASE p = "popped"
  <2>1. all = C /\ Cardinality(C) = 1 /\ p # "none"
    BY <1>4, Zenon DEF Holders, Counts
  <2> QED
    BY <2>1, Zenon DEF Counts
<1>5. CASE p = "pel"
  <2>1. all = L /\ Cardinality(L) = 1 /\ p # "none"
    BY <1>5, Zenon DEF Holders, Counts
  <2> QED
    BY <2>1, Zenon DEF Counts
<1>6. CASE p = "dlq"
  <2>1. all = Q /\ Cardinality(Q) = 1 /\ p # "none"
    BY <1>6, Zenon DEF Holders, Counts
  <2> QED
    BY <2>1, Zenon DEF Counts
<1>7. CASE p \in Holders
  <2>1. all = W /\ Cardinality(W) = 1 /\ p # "none"
    BY <1>7, Zenon DEF Holders, Counts
  <2> QED
    BY <2>1, Zenon DEF Counts
<1>8. CASE p = "none"
  <2>1. all = {}
    BY <1>8, Zenon DEF Holders, Counts
  <2> QED
    BY <1>8, <2>1, Zenon DEF Counts
<1> QED
  BY <1>1, <1>2, <1>3, <1>4, <1>5, <1>6, <1>7, <1>8, Zenon DEF PlaceNames, Holders

\* The references to a message are as many as At says.
LEMMA OneHome ==
  ASSUME TInv, NEW m \in Messages
  PROVE  Cardinality(Homes(m)) = IF fate[m] = "live" THEN 1 ELSE 0
<1>1. PICK p \in PlaceNames, q \in Ends \cup Groups : At(m, p, q)
  BY Zenon DEF TInv, Homed
<1> DEFINE R == {i \in DOMAIN ring : ring[i] = m}
           D == {i \in DOMAIN due : due[i] = m}
           P == PairsOf(publishing, m)
           C == PairsOf(popped, m)
           L == {g \in Groups : pel[g][m] # "none"}
           Q == {i \in DOMAIN dlqOrder : dlqOrder[i] = m}
           W == {s \in Holders : m \in CASE s = "wheel" -> wheel
                                      [] s = "nacked" -> nacked
                                      [] s = "timedOut" -> timedOut
                                      [] s = "replayed" -> replayed}
<1>2. Homes(m) = Tag("ring", R) \cup Tag("due", D)
                 \cup Tag("publishing", P) \cup Tag("popped", C)
                 \cup Tag("pel", L) \cup Tag("dlq", Q)
                 \cup Tag("in", W)
  BY Zenon DEF Homes, Tag, PairsOf, Holders
<1>3. Single(R, p = "ring")
  <2>1. ring \in Seq(Messages) /\ IsInjective(ring)
    BY Zenon DEF TInv, Shape
  <2>2. Single(R, m \in Range(ring))
    BY <2>1, Positions, Zenon
  <2> QED
    BY <1>1, <2>2, Zenon DEF At, Single
<1>4. Single(D, p = "due")
  <2>1. due \in Seq(Messages) /\ IsInjective(due)
    BY Zenon DEF TInv, Shape
  <2>2. Single(D, m \in Range(due))
    BY <2>1, Positions, Zenon
  <2> QED
    BY <1>1, <2>2, Zenon DEF At, Single
<1>5. Single(P, p = "publishing")
  <2>1. publishing \in SUBSET (Messages \X Ends)
    BY Zenon DEF TInv, Shape
  <2>2. /\ p = "publishing" => q \in Ends
        /\ \A c \in Ends : <<m, c>> \in publishing <=> (p = "publishing" /\ c = q)
    BY <1>1, Zenon DEF At
  <2>3. OnePair(publishing, Ends, m)
    BY <2>2, Zenon DEF OnePair
  <2>4. Single(P, HasPair(publishing, Ends, m))
    BY <2>1, <2>3, Pairs, Zenon
  <2>5. p = "publishing" => HasPair(publishing, Ends, m)
    BY <2>2, Zenon DEF HasPair
  <2>6. HasPair(publishing, Ends, m) => p = "publishing"
    BY <2>2, Zenon DEF HasPair
  <2> QED
    BY <2>4, <2>5, <2>6, Zenon DEF Single
<1>6. Single(C, p = "popped")
  <2>1. popped \in SUBSET (Messages \X Groups)
    BY Zenon DEF TInv, Shape
  <2>2. /\ p = "popped" => q \in Groups
        /\ \A c \in Groups : <<m, c>> \in popped <=> (p = "popped" /\ c = q)
    BY <1>1, Zenon DEF At
  <2>3. OnePair(popped, Groups, m)
    BY <2>2, Zenon DEF OnePair
  <2>4. Single(C, HasPair(popped, Groups, m))
    BY <2>1, <2>3, Pairs, Zenon
  <2>5. p = "popped" => HasPair(popped, Groups, m)
    BY <2>2, Zenon DEF HasPair
  <2>6. HasPair(popped, Groups, m) => p = "popped"
    BY <2>2, Zenon DEF HasPair
  <2> QED
    BY <2>4, <2>5, <2>6, Zenon DEF Single
<1>7. Single(L, p = "pel")
  BY <1>1, Zenon DEF At, Single
<1>8. Single(Q, p = "dlq")
  <2>1. /\ dlqOrder \in Seq(Messages) /\ IsInjective(dlqOrder)
        /\ m \in Range(dlqOrder) <=> p = "dlq"
    BY <1>1, Zenon DEF At, TInv, IInv, DLQTypeOK, OrderMatchesEntries
  <2>2. Single(Q, m \in Range(dlqOrder))
    BY <2>1, Positions, Zenon
  <2> QED
    BY <2>1, <2>2, Zenon DEF Single
<1>9. Single(W, p \in Holders)
  <2>1. /\ "wheel" \in W <=> p = "wheel"
        /\ "nacked" \in W <=> p = "nacked"
        /\ "timedOut" \in W <=> p = "timedOut"
        /\ "replayed" \in W <=> p = "replayed"
        /\ W \subseteq Holders
    BY <1>1, Zenon DEF At, Holders
  <2> HIDE DEF W
  <2> QED
    BY <2>1, Zenon DEF Single, Holders
<1> HIDE DEF R, D, P, C, L, Q, W
<1>10. Counts(Tag("ring", R), p = "ring")
  BY <1>3, Tagged, Zenon
<1>11. Counts(Tag("due", D), p = "due")
  BY <1>4, Tagged, Zenon
<1>12. Counts(Tag("publishing", P), p = "publishing")
  BY <1>5, Tagged, Zenon
<1>13. Counts(Tag("popped", C), p = "popped")
  BY <1>6, Tagged, Zenon
<1>14. Counts(Tag("pel", L), p = "pel")
  BY <1>7, Tagged, Zenon
<1>15. Counts(Tag("dlq", Q), p = "dlq")
  BY <1>8, Tagged, Zenon
<1>16. Counts(Tag("in", W), p \in Holders)
  <2>1. CASE p \in Holders
    <3>1. Single(W, TRUE)
      BY <1>9, <2>1, Zenon DEF Single
    <3>2. Counts(Tag("in", W), TRUE)
      BY <3>1, Tagged, Zenon
    <3> QED
      BY <2>1, <3>2, Zenon DEF Counts
  <2>2. CASE p \notin Holders
    <3>1. Single(W, FALSE)
      BY <1>9, <2>2, Zenon DEF Single
    <3>2. Counts(Tag("in", W), FALSE)
      BY <3>1, Tagged, Zenon
    <3> QED
      BY <2>2, <3>2, Zenon DEF Counts
  <2> QED
    BY <2>1, <2>2, Zenon
<1> DEFINE TR == Tag("ring", R)
           TD == Tag("due", D)
           TP == Tag("publishing", P)
           TC == Tag("popped", C)
           TL == Tag("pel", L)
           TQ == Tag("dlq", Q)
           TW == Tag("in", W)
<1> HIDE DEF TR, TD, TP, TC, TL, TQ, TW
<1>17. /\ Counts(TR, p = "ring") /\ Counts(TD, p = "due") /\ Counts(TP, p = "publishing")
       /\ Counts(TC, p = "popped") /\ Counts(TL, p = "pel") /\ Counts(TQ, p = "dlq")
       /\ Counts(TW, p \in Holders)
  BY <1>10, <1>11, <1>12, <1>13, <1>14, <1>15, <1>16, Zenon DEF TR, TD, TP, TC, TL, TQ, TW
<1>18. Counts(TR \cup TD \cup TP \cup TC \cup TL \cup TQ \cup TW, p # "none")
  BY <1>17, OneKind, Zenon
<1>19. Homes(m) = TR \cup TD \cup TP \cup TC \cup TL \cup TQ \cup TW
  BY <1>2, Zenon DEF TR, TD, TP, TC, TL, TQ, TW
<1> QED
  BY <1>1, <1>18, <1>19, FS_EmptySet, Zenon DEF At, Counts

-----------------------------------------------------------------------------
(* The actions.  A step that counts no retry and touches no dead letter    *)
(* has to show the shape, the place of what it moves, and that it moves    *)
(* nothing else.                                                           *)

USE MaxReplaysAssumption

\* Close, a new group, and stuttering leave the places alone.
LEMMA CloseTInv ==
  ASSUME TInv, Close \/ (\E g \in Groups : GetOrCreateGroup(g)) \/ UNCHANGED vars
  PROVE  TInv'
<1>1. UNCHANGED <<ring, pel, wheel, retryCount, publishing, popped, nacked, timedOut, due,
                  replayed, fate, dlqVars>>
  BY Zenon DEF Close, GetOrCreateGroup, vars, topicVars
<1>2. Shape'
  BY <1>1, Zenon DEF TInv, Shape
<1>3. \A x \in Messages : Stays(x)
  BY <1>1, Zenon DEF Stays, Elsewhere, dlqVars
<1>4. \A x \in Messages : InBudget(x)'
  BY <1>1, BudgetKept, Zenon
<1> QED
  BY <1>1, <1>2, <1>3, <1>4, StaysHomed, DLQUnchanged, Zenon DEF TInv

\* The first half of a publish: the call has the message.
LEMMA PublishTInv ==
  ASSUME TInv, NEW m \in Messages, NEW end \in Ends, Publish(m, end)
  PROVE  TInv'
<1>1. /\ UNCHANGED <<ring, pel, wheel, retryCount, popped, nacked, timedOut, due, replayed, dlqVars>>
      /\ fate[m] = "new"
      /\ \/ fate' = Fate({m}, "rejected") /\ publishing' = publishing
         \/ fate' = Fate({m}, "live") /\ publishing' = publishing \cup {<<m, end>>}
  BY Zenon DEF Publish
<1>2. Shape'
  BY <1>1 DEF TInv, Shape, Fate, Fates
<1>3. \A x \in Messages \ {m} : Stays(x)
  BY <1>1 DEF Stays, Elsewhere, dlqVars, Fate
<1>4. Homed(m)'
  <2>1. PICK p \in PlaceNames, q \in Ends \cup Groups : At(m, p, q)
    BY Zenon DEF TInv, Homed
  <2>2. p = "none"
    BY <1>1, <2>1, Zenon DEF At
  <2>3. At(m, "none", end)' \/ At(m, "publishing", end)'
    BY <1>1, <2>1, <2>2 DEF At, Fate, dlqVars, Ends
  <2> QED
    BY <2>3, Zenon DEF Homed, PlaceNames
<1>5. \A x \in Messages : InBudget(x)'
  BY <1>1, BudgetKept, Zenon DEF Fate
<1> QED
  BY <1>1, <1>2, <1>3, <1>4, <1>5, StaysHomed, DLQUnchanged, Zenon DEF TInv

\* A delayed publish puts it into the wheel or, after Stop, nowhere.
LEMMA PublishDelayedTInv ==
  ASSUME TInv, NEW m \in Messages, PublishDelayed(m)
  PROVE  TInv'
<1>1. /\ UNCHANGED <<ring, pel, retryCount, publishing, popped, nacked, timedOut, due, replayed, dlqVars>>
      /\ fate[m] = "new"
      /\ \/ fate' = Fate({m}, "lost") /\ wheel' = wheel
         \/ fate' = Fate({m}, "live") /\ wheel' = wheel \cup {m}
  BY Zenon DEF PublishDelayed, ScheduleOrLose
<1>2. IsFiniteSet(wheel \cup {m}) /\ IsFiniteSet(wheel)
  BY FS_AddElement, Zenon DEF TInv, Shape
<1>3. Shape'
  BY <1>1, <1>2, Zenon DEF TInv, Shape, Fate, Fates
<1>4. \A x \in Messages \ {m} : Stays(x)
  BY <1>1, Zenon DEF Stays, Elsewhere, dlqVars, Fate
<1>5. Homed(m)'
  <2>1. PICK p \in PlaceNames, q \in Ends \cup Groups : At(m, p, q)
    BY Zenon DEF TInv, Homed
  <2>2. p = "none"
    BY <1>1, <2>1, Zenon DEF At
  <2>3. At(m, "none", q)' \/ At(m, "wheel", q)'
    BY <1>1, <2>1, <2>2, Zenon DEF At, Fate, dlqVars, Ends
  <2> QED
    BY <2>3, Zenon DEF Homed, PlaceNames
<1>6. \A x \in Messages : InBudget(x)'
  BY <1>1, BudgetKept, Zenon DEF Fate
<1> QED
  BY <1>1, <1>3, <1>4, <1>5, <1>6, StaysHomed, DLQUnchanged, Zenon DEF TInv

\* The oldest message leaves the ring, for good or for a group.
LEMMA ConsumeTInv ==
  ASSUME TInv, Consume \/ \E g \in Groups : ConsumeGroup(g)
  PROVE  TInv'
<1>0. ring \in Seq(Messages) /\ IsInjective(ring) /\ ring # <<>>
  BY Zenon DEF TInv, Shape, Consume, ConsumeGroup
<1>m. PICK m \in Messages : m = Head(ring)
  BY <1>0
<1>1. /\ UNCHANGED <<pel, wheel, retryCount, publishing, nacked, timedOut, due, replayed, dlqVars>>
      /\ ring' = Tail(ring)
      /\ \/ fate' = Fate({m}, "consumed") /\ popped' = popped
         \/ fate' = fate /\ \E g \in Groups : popped' = popped \cup {<<m, g>>}
  BY <1>m, Zenon DEF Consume, ConsumeGroup
<1>2. /\ m \in Range(ring) /\ ring' \in Seq(Messages) /\ IsInjective(ring')
      /\ Range(ring') = Range(ring) \ {m}
  BY <1>0, <1>m, <1>1, TailOfInjective
<1>3. Shape'
  BY <1>1, <1>2 DEF TInv, Shape, Fate, Fates
<1>4. \A x \in Messages \ {m} : Stays(x)
  BY <1>1, <1>2 DEF Stays, Elsewhere, dlqVars, Fate
<1>5. Homed(m)'
  <2>1. PICK p \in PlaceNames, q \in Ends \cup Groups : At(m, p, q)
    BY Zenon DEF TInv, Homed
  <2>2. p = "ring"
    BY <1>2, <2>1, Zenon DEF At
  <2>3. CASE fate' = Fate({m}, "consumed") /\ popped' = popped
    <3>1. At(m, "none", q)'
      BY <1>1, <1>2, <2>1, <2>2, <2>3, Zenon DEF At, Fate, dlqVars, Ends
    <3> QED
      BY <3>1, Zenon DEF Homed, PlaceNames
  <2>4. ASSUME fate' = fate, NEW g \in Groups, popped' = popped \cup {<<m, g>>}
        PROVE  Homed(m)'
    <3>1. At(m, "popped", g)'
      BY <1>1, <1>2, <2>1, <2>2, <2>4, Zenon DEF At, dlqVars, Ends
    <3> QED
      BY <3>1, Zenon DEF Homed, PlaceNames
  <2> QED
    BY <1>1, <2>3, <2>4, Zenon
<1>6. \A x \in Messages : InBudget(x)'
  <2>1. \A x \in Messages : fate'[x] = "live" => fate[x] \in {"live", "new"}
    BY <1>1, Zenon DEF Fate
  <2> QED
    BY <1>1, <2>1, BudgetKept, Zenon
<1> QED
  BY <1>1, <1>3, <1>4, <1>5, <1>6, StaysHomed, DLQUnchanged, Zenon DEF TInv

\* A group checks a message out, settles it, or gives it back.
LEMMA GroupTInv ==
  ASSUME TInv, NEW m \in Messages, NEW g \in Groups,
         Checkout(m, g) \/ Ack(m, g) \/ Nack(m, g) \/ DeadlinePasses(m, g)
  PROVE  TInv'
<1>1. UNCHANGED <<ring, wheel, retryCount, publishing, timedOut, due, replayed, dlqVars>>
  BY Zenon DEF Checkout, Ack, Nack, DeadlinePasses
<1>2. PICK v \in {"none", "pending", "expired"} :
        /\ pel' = [pel EXCEPT ![g][m] = v]
        /\ \/ /\ <<m, g>> \in popped /\ popped' = popped \ {<<m, g>>} /\ v = "pending"
              /\ nacked' = nacked /\ fate' = fate
           \/ /\ pel[g][m] # "none" /\ v = "none"
              /\ popped' = popped /\ nacked' = nacked /\ fate' = Fate({m}, "acked")
           \/ /\ pel[g][m] # "none" /\ v = "none"
              /\ popped' = popped /\ nacked' = nacked \cup {m} /\ fate' = fate
           \/ /\ pel[g][m] # "none" /\ v = "expired"
              /\ popped' = popped /\ nacked' = nacked /\ fate' = fate
  <2>1. CASE Checkout(m, g)
    BY <2>1, Zenon DEF Checkout
  <2>2. CASE Ack(m, g)
    BY <2>2, Zenon DEF Ack
  <2>3. CASE Nack(m, g)
    BY <2>3, Zenon DEF Nack
  <2>4. CASE DeadlinePasses(m, g)
    BY <2>4, Zenon DEF DeadlinePasses
  <2> QED
    BY <2>1, <2>2, <2>3, <2>4, Zenon
<1>3. /\ pel' \in [Groups -> [Messages -> {"none", "pending", "expired"}]]
      /\ \A h \in Groups, x \in Messages :
           pel'[h][x] = IF h = g /\ x = m THEN v ELSE pel[h][x]
  BY <1>2, Zenon DEF TInv, Shape
<1>4. fate' \in [Messages -> Fates] /\ \A x \in Messages : fate'[x] = fate[x] \/ (x = m /\ fate'[x] = "acked")
  BY <1>2, Zenon DEF Fate, Fates, TInv, Shape
<1>5. Shape'
  BY <1>1, <1>2, <1>3, <1>4, Zenon DEF TInv, Shape
<1>6. \A x \in Messages \ {m} : Stays(x)
  BY <1>1, <1>2, <1>3, <1>4 DEF Stays, Elsewhere, dlqVars
<1>7. Homed(m)'
  <2>1. PICK p \in PlaceNames, q \in Ends \cup Groups : At(m, p, q)
    BY Zenon DEF TInv, Homed
  <2>2. q = g /\ p \in {"popped", "pel"}
    BY <1>2, <2>1, Zenon DEF At
  <2>3. At(m, "pel", g)' \/ At(m, "none", g)' \/ At(m, "nacked", g)'
    BY <1>1, <1>2, <1>3, <2>1, <2>2 DEF At, Fate, dlqVars, Ends
  <2> QED
    BY <2>3, Zenon DEF Homed, PlaceNames
<1>8. \A x \in Messages : InBudget(x)'
  BY <1>1, <1>4, BudgetKept, Zenon
<1> QED
  BY <1>1, <1>5, <1>6, <1>7, <1>8, StaysHomed, DLQUnchanged, Zenon DEF TInv

\* What the sweep finds expired in a group leaves its PEL.
LEMMA SweepTimeoutsTInv ==
  ASSUME TInv, NEW g \in Groups, SweepTimeouts(g)
  PROVE  TInv'
<1>1. /\ UNCHANGED <<ring, wheel, retryCount, publishing, popped, nacked, due, replayed, fate, dlqVars>>
      /\ timedOut = {} /\ timedOut' = {m \in Messages : pel[g][m] = "expired"}
  BY Zenon DEF SweepTimeouts
<1>2. /\ pel' \in [Groups -> [Messages -> {"none", "pending", "expired"}]]
      /\ \A h \in Groups, x \in Messages :
           pel'[h][x] = IF h = g /\ pel[g][x] = "expired" THEN "none" ELSE pel[h][x]
  BY Zenon DEF SweepTimeouts, TInv, Shape
<1>3. Shape'
  BY <1>1, <1>2, Zenon DEF TInv, Shape
<1>4. ASSUME NEW x \in Messages
      PROVE  Homed(x)'
  <2>1. CASE pel[g][x] # "expired"
    BY <1>1, <1>2, <2>1, StaysHomed, Zenon DEF Stays, Elsewhere, dlqVars, TInv
  <2>2. CASE pel[g][x] = "expired"
    <3>1. PICK p \in PlaceNames, q \in Ends \cup Groups : At(x, p, q)
      BY Zenon DEF TInv, Homed
    <3>2. p = "pel" /\ q = g
      BY <2>2, <3>1, Zenon DEF At
    <3>3. At(x, "timedOut", g)'
      BY <1>1, <1>2, <2>2, <3>1, <3>2 DEF At, dlqVars, Ends
    <3> QED
      BY <3>3, Zenon DEF Homed, PlaceNames
  <2> QED
    BY <2>1, <2>2, Zenon
<1>5. \A x \in Messages : InBudget(x)'
  BY <1>1, BudgetKept, Zenon
<1> QED
  BY <1>1, <1>3, <1>4, <1>5, DLQUnchanged, Zenon DEF TInv

\* What expires leaves the wheel and waits, each message once, for onExpire.
LEMMA AdvanceTInv ==
  ASSUME TInv, Advance
  PROVE  TInv'
<1>1. UNCHANGED <<ring, pel, retryCount, publishing, popped, nacked, timedOut, replayed, fate, dlqVars>>
  BY Zenon DEF Advance
<1>2. PICK S \in SUBSET wheel : due' \in Bijection(1..Cardinality(S), S) /\ wheel' = wheel \ S
  BY Zenon DEF Advance
<1>3. IsFiniteSet(S) /\ IsFiniteSet(wheel \ S) /\ S \subseteq Messages
  BY FS_Subset, Zenon DEF TInv, Shape
<1>4. due' \in Seq(Messages) /\ IsInjective(due') /\ Range(due') = S
  BY <1>2, <1>3, OrderOfSet, Zenon
<1>5. Shape'
  BY <1>1, <1>2, <1>3, <1>4, Zenon DEF TInv, Shape
<1>6. Range(due) = {}
  BY DEF Advance, Range
<1>7. ASSUME NEW x \in Messages
      PROVE  Homed(x)'
  <2>1. CASE x \notin S
    BY <1>1, <1>2, <1>4, <1>6, <2>1, StaysHomed, Zenon DEF Stays, Elsewhere, dlqVars, TInv
  <2>2. CASE x \in S
    <3>1. PICK p \in PlaceNames, q \in Ends \cup Groups : At(x, p, q)
      BY Zenon DEF TInv, Homed
    <3>2. p = "wheel"
      BY <2>2, <3>1, Zenon DEF At
    <3>3. At(x, "due", q)'
      BY <1>1, <1>2, <1>4, <2>2, <3>1, <3>2, Zenon DEF At, dlqVars, Ends
    <3> QED
      BY <3>3, Zenon DEF Homed, PlaceNames
  <2> QED
    BY <2>1, <2>2, Zenon
<1>8. \A x \in Messages : InBudget(x)'
  BY <1>1, BudgetKept, Zenon
<1> QED
  BY <1>1, <1>5, <1>7, <1>8, DLQUnchanged, Zenon DEF TInv

\* The next message that expired goes to the ring, or is lost.
LEMMA DispatchTInv ==
  ASSUME TInv, Dispatch
  PROVE  TInv'
<1>0. due \in Seq(Messages) /\ IsInjective(due) /\ due # <<>>
  BY Zenon DEF TInv, Shape, Dispatch
<1>m. PICK m \in Messages : m = Head(due)
  BY <1>0
<1>1. /\ UNCHANGED <<pel, wheel, retryCount, publishing, popped, nacked, timedOut, replayed, dlqVars>>
      /\ due' = Tail(due) /\ PushOrLose(m)
  BY <1>m, Zenon DEF Dispatch
<1>2. /\ m \in Range(due) /\ due' \in Seq(Messages) /\ IsInjective(due')
      /\ Range(due') = Range(due) \ {m}
  BY <1>0, <1>m, <1>1, TailOfInjective
<1>3. \A x \in Messages \ {m} : Elsewhere(x)
  BY <1>1, <1>2, Zenon DEF Elsewhere
<1>4. PICK p \in PlaceNames, q \in Ends \cup Groups : At(m, p, q)
  BY Zenon DEF TInv, Homed
<1>5. p = "due"
  BY <1>2, <1>4, Zenon DEF At
<1>6. Settled(m)'
  BY <1>1, <1>2, <1>4, <1>5, Zenon DEF At, Settled
<1>7. m \notin Range(ring) /\ m \notin DOMAIN dlqEntries /\ fate[m] = "live" /\ dlqEntries' = dlqEntries
  BY <1>1, <1>4, <1>5, Zenon DEF At, dlqVars
<1>8. /\ \A x \in Messages : Homed(x)'
      /\ ring' \in Seq(Messages) /\ IsInjective(ring')
      /\ fate' \in [Messages -> Fates]
      /\ \A x \in Messages : fate'[x] = "new" => fate[x] = "new" /\ x # m
      /\ \A x \in Messages \ {m} : fate'[x] = "live" => fate[x] = "live"
  BY <1>1, <1>3, <1>6, <1>7, PushOrLoseHomed, Zenon
<1>9. Shape'
  BY <1>1, <1>2, <1>8, Zenon DEF TInv, Shape
<1>10. \A x \in Messages : InBudget(x)'
  BY <1>1, <1>7, <1>8, BudgetKept, Zenon
<1> QED
  BY <1>1, <1>8, <1>9, <1>10, DLQUnchanged, Zenon DEF TInv

\* An accepted message goes to the ring, or is rejected there.
LEMMA PublishPushTInv ==
  ASSUME TInv, NEW m \in Messages, NEW end \in Ends, PublishPush(m, end)
  PROVE  TInv'
<1>1. /\ UNCHANGED <<pel, wheel, retryCount, popped, nacked, timedOut, due, replayed, dlqVars>>
      /\ <<m, end>> \in publishing /\ publishing' = publishing \ {<<m, end>>}
  BY Zenon DEF PublishPush
<1>2. PICK p \in PlaceNames, q \in Ends \cup Groups : At(m, p, q)
  BY Zenon DEF TInv, Homed
<1>3. p = "publishing" /\ q = end
  BY <1>1, <1>2, Zenon DEF At
<1>4. m \notin Range(ring) /\ m \notin DOMAIN dlqEntries /\ fate[m] = "live" /\ dlqEntries' = dlqEntries
  BY <1>1, <1>2, <1>3, Zenon DEF At, dlqVars
<1>5. Settled(m)'
  BY <1>1, <1>2, <1>3, Zenon DEF At, Settled
<1>6. \A x \in Messages \ {m} : Elsewhere(x)
  BY <1>1, Zenon DEF Elsewhere
<1>7. /\ \A x \in Messages : Homed(x)'
      /\ ring' \in Seq(Messages) /\ IsInjective(ring')
      /\ fate' \in [Messages -> Fates]
      /\ \A x \in Messages : fate'[x] = "new" => fate[x] = "new"
      /\ \A x \in Messages : fate'[x] = "live" => fate[x] = "live"
  <2>1. CASE fate' = Fate({m}, "rejected") /\ ring' = ring
    <3>1. /\ \A x \in Messages : fate'[x] = IF x = m THEN "rejected" ELSE fate[x]
          /\ fate' \in [Messages -> Fates]
      BY <2>1, Zenon DEF Fate, Fates, TInv, Shape
    <3>2. \A x \in Messages \ {m} : Stays(x)
      BY <1>4, <1>6, <2>1, <3>1, Zenon DEF Stays
    <3>3. Homed(m)'
      BY <1>4, <1>5, <2>1, <3>1, ArrivedHomed, Zenon
    <3>4. \A x \in Messages : Homed(x)'
      BY <3>2, <3>3, StaysHomed, Zenon DEF TInv
    <3>5. ring' \in Seq(Messages) /\ IsInjective(ring')
      BY <2>1, Zenon DEF TInv, Shape
    <3>6. \A x \in Messages : fate'[x] \in {"new", "live"} => fate'[x] = fate[x]
      BY <3>1, Zenon
    <3> QED
      BY <3>1, <3>4, <3>5, <3>6, Zenon
  <2>2. ASSUME NEW r \in Seq(Messages), IsInjective(r), m \in Range(r),
               Range(r) \subseteq Range(ring) \cup {m}, RingBecomes(r, m)
        PROVE  <1>7!:
    <3>1. ring' = r
      BY <2>2, Zenon DEF RingBecomes
    <3> QED
      BY <1>4, <1>5, <1>6, <2>2, <3>1, RingBecomesHomed, Zenon
  <2>3. CASE RingBecomes(Pushed(ring, m, RingMax), m)
    <3> DEFINE r == Pushed(ring, m, RingMax)
    <3>1. r \in Seq(Messages) /\ IsInjective(r) /\ m \in Range(r) /\ Range(r) \subseteq Range(ring) \cup {m}
      BY <1>4, PushedFacts, Zenon DEF TInv, Shape
    <3>2. RingBecomes(r, m)
      BY <2>3, Zenon
    <3> HIDE DEF r
    <3> QED
      BY <2>2, <3>1, <3>2, Zenon
  <2>4. CASE RingBecomes(PushedFront(ring, m, RingMax), m)
    <3> DEFINE r == PushedFront(ring, m, RingMax)
    <3>1. r \in Seq(Messages) /\ IsInjective(r) /\ m \in Range(r) /\ Range(r) \subseteq Range(ring) \cup {m}
      BY <1>4, PushedFrontFacts, Zenon DEF TInv, Shape
    <3>2. RingBecomes(r, m)
      BY <2>4, Zenon
    <3> HIDE DEF r
    <3> QED
      BY <2>2, <3>1, <3>2, Zenon
  <2> QED
    BY <2>1, <2>3, <2>4, Zenon DEF PublishPush
<1>8. Shape'
  BY <1>1, <1>7, Zenon DEF TInv, Shape
<1>9. \A x \in Messages : InBudget(x)'
  BY <1>1, <1>7, BudgetKept, Zenon
<1> QED
  BY <1>1, <1>7, <1>8, <1>9, DLQUnchanged, Zenon DEF TInv

\* A dead letter leaves the queue for a replay ...
LEMMA ReplayDeadLetterTInv ==
  ASSUME TInv, NEW m \in Messages, ReplayDeadLetter(m)
  PROVE  TInv'
<1>1. /\ UNCHANGED <<ring, pel, wheel, retryCount, publishing, popped, nacked, timedOut, due, fate>>
      /\ DLQRemove(m) /\ replayed' = replayed \cup {m}
  BY Zenon DEF ReplayDeadLetter
<1>2. /\ m \in DOMAIN dlqEntries /\ DOMAIN dlqEntries' = DOMAIN dlqEntries \ {m}
      /\ \A x \in DOMAIN dlqEntries' : dlqEntries'[x] = dlqEntries[x]
  BY <1>1, Zenon DEF DLQRemove, Restrict
<1>3. Shape'
  BY <1>1, Zenon DEF TInv, Shape
<1>4. IInv'
  BY <1>1, RemoveIInv, Zenon DEF TInv
<1>5. \A x \in Messages \ {m} : Stays(x)
  BY <1>1, <1>2, Zenon DEF Stays, Elsewhere
<1>6. Homed(m)'
  <2>1. PICK p \in PlaceNames, q \in Ends \cup Groups : At(m, p, q)
    BY Zenon DEF TInv, Homed
  <2>2. p = "dlq"
    BY <1>2, <2>1, Zenon DEF At
  <2>3. At(m, "replayed", q)'
    BY <1>1, <1>2, <2>1, <2>2, Zenon DEF At, Ends
  <2> QED
    BY <2>3, Zenon DEF Homed, PlaceNames
<1>7. \A x \in Messages : InBudget(x)'
  BY <1>1, <1>2, Zenon DEF TInv, InBudget
<1> QED
  BY <1>3, <1>4, <1>5, <1>6, <1>7, StaysHomed, Zenon DEF TInv

\* ... and goes to the ring with a new budget, or is lost.
LEMMA ReplayPushTInv ==
  ASSUME TInv, NEW m \in Messages, ReplayPush(m)
  PROVE  TInv'
<1>1. /\ UNCHANGED <<pel, wheel, publishing, popped, nacked, timedOut, due, dlqVars>>
      /\ m \in replayed /\ replayed' = replayed \ {m} /\ PushOrLose(m)
      /\ retryCount' = [retryCount EXCEPT ![m] = 0]
  BY Zenon DEF ReplayPush
<1>2. PICK p \in PlaceNames, q \in Ends \cup Groups : At(m, p, q)
  BY DEF TInv, Homed
<1>3. p = "replayed"
  BY <1>1, <1>2, Zenon DEF At
<1>4. m \notin Range(ring) /\ m \notin DOMAIN dlqEntries /\ dlqEntries' = dlqEntries
  BY <1>1, <1>2, <1>3, Zenon DEF At, dlqVars
<1>5. Settled(m)'
  BY <1>1, <1>2, <1>3, Zenon DEF At, Settled
<1>6. \A x \in Messages \ {m} : Elsewhere(x)
  BY <1>1, Zenon DEF Elsewhere
<1>7. /\ \A x \in Messages : Homed(x)'
      /\ ring' \in Seq(Messages) /\ IsInjective(ring')
      /\ fate' \in [Messages -> Fates]
      /\ \A x \in Messages : fate'[x] = "new" => fate[x] = "new" /\ x # m
      /\ \A x \in Messages \ {m} : fate'[x] = "live" => fate[x] = "live"
  BY <1>1, <1>4, <1>5, <1>6, PushOrLoseHomed, ZenonT(30)
<1>8. /\ retryCount' \in [Messages -> Nat]
      /\ \A x \in Messages : retryCount'[x] = IF x = m THEN 0 ELSE retryCount[x]
  BY <1>1, Zenon DEF TInv, Shape
<1>9. Shape'
  BY <1>1, <1>7, <1>8, Zenon DEF TInv, Shape
<1>10. InBudget(m)'
  <2>1. m \notin DOMAIN dlqEntries' \cup replayed' /\ retryCount'[m] < MaxRetries
    BY <1>1, <1>4, <1>8
  <2> QED
    BY <2>1, Zenon DEF InBudget
<1>11. ASSUME NEW x \in Messages \ {m}
       PROVE  InBudget(x)'
  <2>1. InBudget(x) /\ retryCount'[x] = retryCount[x] /\ (x \in replayed' <=> x \in replayed)
    BY <1>1, <1>8, Zenon DEF TInv
  <2> QED
    BY <1>4, <1>7, <2>1, Zenon DEF InBudget
<1> QED
  BY <1>1, <1>7, <1>9, <1>10, <1>11, DLQUnchanged, Zenon DEF TInv

\* A purge ends every dead letter.
LEMMA PurgeTInv ==
  ASSUME TInv, Purge
  PROVE  TInv'
<1>1. /\ UNCHANGED <<ring, pel, wheel, retryCount, publishing, popped, nacked, timedOut, due, replayed>>
      /\ DLQPurge /\ fate' = Fate(DOMAIN dlqEntries, "purged")
  BY Zenon DEF Purge
<1>2. IInv'
  <2>1. (DLQInit => IInv)'
    BY InitIInv, PTL
  <2> QED
    BY <1>1, <2>1, Zenon DEF DLQPurge, DLQInit
<1>3. DOMAIN dlqEntries' = {}
  BY <1>1 DEF DLQPurge
<1>4. /\ fate' \in [Messages -> Fates]
      /\ \A x \in Messages : fate'[x] = IF x \in DOMAIN dlqEntries THEN "purged" ELSE fate[x]
  BY <1>1, Zenon DEF Fate, Fates, TInv, Shape
<1>5. Shape'
  BY <1>1, <1>4, Zenon DEF TInv, Shape
<1>6. ASSUME NEW x \in Messages
      PROVE  Homed(x)'
  <2>1. Elsewhere(x)
    BY <1>1, Zenon DEF Elsewhere
  <2>2. CASE x \notin DOMAIN dlqEntries
    BY <1>1, <1>3, <1>4, <2>1, <2>2, StaysHomed, Zenon DEF Stays, TInv
  <2>3. CASE x \in DOMAIN dlqEntries
    <3>1. x \notin Range(ring)
      BY <2>3, Zenon DEF TInv, Homed, At
    <3> QED
      BY <1>1, <1>3, <1>4, <2>1, <2>3, <3>1, DroppedHomed, Zenon DEF TInv
  <2> QED
    BY <2>2, <2>3, Zenon
<1>7. \A x \in Messages : InBudget(x)'
  BY <1>1, <1>3, <1>4, Zenon DEF TInv, InBudget
<1> QED
  BY <1>2, <1>5, <1>6, <1>7, Zenon DEF TInv

\* A failed delivery is counted; its message waits in the wheel for the next
\* one, or is the newest dead letter, for which the oldest may have to go.
LEMMA RouteTInv ==
  ASSUME TInv, NEW m \in Messages, NackRoute(m) \/ SweepRoute(m)
  PROVE  TInv'
<1>1. /\ UNCHANGED <<ring, pel, publishing, popped, due, replayed>>
      /\ \/ m \in nacked /\ nacked' = nacked \ {m} /\ timedOut' = timedOut
         \/ m \in timedOut /\ timedOut' = timedOut \ {m} /\ nacked' = nacked
  <2>1. CASE NackRoute(m)
    BY <2>1, Zenon DEF NackRoute
  <2>2. CASE SweepRoute(m)
    BY <2>2, Zenon DEF SweepRoute
  <2> QED
    BY <2>1, <2>2, Zenon
<1>r. \E s : RetryOrDeadLetter(m, s)
  BY Zenon DEF NackRoute, SweepRoute
<1>2. PICK p \in PlaceNames, q \in Ends \cup Groups : At(m, p, q)
  BY Zenon DEF TInv, Homed
<1>3. p \in {"nacked", "timedOut"}
  BY <1>1, <1>2, Zenon DEF At
<1>4. fate[m] = "live" /\ m \notin DOMAIN dlqEntries /\ m \notin replayed /\ m \notin Range(ring)
  BY <1>2, <1>3, Zenon DEF At
<1>5. retryCount \in [Messages -> Nat] /\ retryCount[m] < MaxRetries
  BY <1>4, Zenon DEF TInv, Shape, InBudget
<1>6. retryCount' = [retryCount EXCEPT ![m] = @ + 1]
  BY <1>r, Zenon DEF RetryOrDeadLetter
<1>7. /\ retryCount' \in [Messages -> Nat]
      /\ \A x \in Messages : retryCount'[x] = IF x = m THEN retryCount[m] + 1 ELSE retryCount[x]
  BY <1>5, <1>6
<1>n. \A x \in Messages : fate[x] = "new" => retryCount[x] = 0 /\ x # m
  BY <1>4, Zenon DEF TInv, Shape
<1>8. CASE /\ retryCount'[m] < MaxRetries /\ UNCHANGED dlqVars
           /\ \/ wheel' = wheel \cup {m} /\ fate' = Fate({m}, "live")
              \/ wheel' = wheel /\ fate' = Fate({m}, "lost")
  <2>1. wheel' \subseteq Messages /\ IsFiniteSet(wheel')
    <3>1. wheel \subseteq Messages /\ IsFiniteSet(wheel)
      BY Zenon DEF TInv, Shape
    <3>2. IsFiniteSet(wheel \cup {m})
      BY <3>1, FS_AddElement, Zenon
    <3> QED
      BY <1>8, <3>1, <3>2, Zenon
  <2>2. /\ fate' \in [Messages -> Fates]
        /\ \A x \in Messages \ {m} : fate'[x] = fate[x]
        /\ fate'[m] \in {"live", "lost"}
    BY <1>8, ZenonT(30) DEF Fate, Fates, TInv, Shape
  <2>3. Shape'
    <3>1. ASSUME NEW x \in Messages, fate'[x] = "new"
          PROVE  retryCount'[x] = 0
      <4>1. fate[x] = "new"
        BY <2>2, <3>1, Zenon
      <4> QED
        BY <1>n, <1>7, <4>1, Zenon
    <3> QED
      BY <1>1, <1>7, <2>1, <2>2, <3>1, Zenon DEF TInv, Shape
  <2>4. \A x \in Messages \ {m} : Stays(x)
    BY <1>1, <1>8, <2>2, Zenon DEF Stays, Elsewhere, dlqVars
  <2>5. Homed(m)'
    <3>1. At(m, "wheel", q)' \/ At(m, "none", q)'
      BY <1>1, <1>2, <1>3, <1>8, Zenon DEF At, Fate, dlqVars, Ends
    <3> QED
      BY <3>1, Zenon DEF Homed, PlaceNames
  <2>6. \A x \in Messages : InBudget(x)'
    BY <1>1, <1>4, <1>7, <1>8, <2>2, Zenon DEF TInv, InBudget, dlqVars
  <2> QED
    BY <1>8, <2>3, <2>4, <2>5, <2>6, StaysHomed, DLQUnchanged, Zenon DEF TInv
<1>9. CASE /\ retryCount'[m] >= MaxRetries /\ DLQAdd(m, retryCount'[m]) /\ UNCHANGED wheel
           /\ fate' = Fate(DOMAIN dlqEntries \ DOMAIN dlqEntries', "evicted")
  <2>1. retryCount'[m] = MaxRetries /\ retryCount[m] + 1 = MaxRetries
    BY <1>5, <1>7, <1>9
  <2>2. DLQAdd(m, MaxRetries) /\ MaxRetries \in 1..MaxRetries
    BY <1>9, <2>1
  <2>3. IInv'
    BY <2>2, AddIInv, Zenon DEF TInv
  <2>4. /\ DOMAIN EntriesKept \subseteq DOMAIN dlqEntries
        /\ \A x \in DOMAIN EntriesKept : EntriesKept[x] = dlqEntries[x]
    BY EvictionMakesRoom, Zenon DEF TInv
  <2>5. /\ DOMAIN dlqEntries' = DOMAIN EntriesKept \cup {m} /\ dlqEntries'[m] = MaxRetries
        /\ \A x \in DOMAIN EntriesKept \ {m} : dlqEntries'[x] = dlqEntries[x]
    BY <2>2, <2>4, Zenon DEF DLQAdd
  <2>6. /\ fate' \in [Messages -> Fates]
        /\ \A x \in Messages : fate'[x] = IF x \in DOMAIN dlqEntries \ DOMAIN dlqEntries'
                                          THEN "evicted" ELSE fate[x]
    BY <1>9, Zenon DEF Fate, Fates, TInv, Shape
  <2>7. Shape'
    <3>1. ASSUME NEW x \in Messages, fate'[x] = "new"
          PROVE  retryCount'[x] = 0
      <4>1. fate[x] = "new"
        BY <2>6, <3>1, Zenon
      <4> QED
        BY <1>n, <1>7, <4>1, Zenon
    <3>2. UNCHANGED wheel
      BY <1>9, Zenon
    <3> QED
      BY <1>1, <1>7, <2>6, <3>1, <3>2, ZenonT(30) DEF TInv, Shape
  <2>8. ASSUME NEW x \in Messages \ {m}
        PROVE  Homed(x)'
    <3>1. Elsewhere(x)
      BY <1>1, <1>9, Zenon DEF Elsewhere
    <3>2. CASE x \in DOMAIN dlqEntries \ DOMAIN dlqEntries'
      <4>1. x \notin Range(ring)
        BY <3>2, Zenon DEF TInv, Homed, At
      <4> QED
        BY <1>1, <2>6, <3>1, <3>2, <4>1, DroppedHomed, Zenon DEF TInv
    <3>3. CASE x \notin DOMAIN dlqEntries \ DOMAIN dlqEntries'
      <4>1. Stays(x)
        BY <1>1, <2>4, <2>5, <2>6, <3>1, <3>3, Zenon DEF Stays
      <4> QED
        BY <4>1, StaysHomed, Zenon DEF TInv
    <3> QED
      BY <3>2, <3>3, Zenon
  <2>9. Homed(m)'
    <3>1. fate'[m] = "live" /\ m \in DOMAIN dlqEntries' /\ UNCHANGED wheel
      BY <1>4, <1>9, <2>5, <2>6, ZenonT(30)
    <3>2. At(m, "dlq", q)'
      BY <1>1, <1>2, <1>3, <3>1, Zenon DEF At, Ends
    <3> QED
      BY <3>2, Zenon DEF Homed, PlaceNames
  <2>10. \A x \in Messages : InBudget(x)'
    BY <1>1, <1>4, <1>7, <2>1, <2>4, <2>5, <2>6, ZenonT(30) DEF TInv, InBudget
  <2> QED
    BY <2>3, <2>7, <2>8, <2>9, <2>10, Zenon DEF TInv
<1> QED
  BY <1>r, <1>8, <1>9, Zenon DEF RetryOrDeadLetter, ScheduleOrLose

-----------------------------------------------------------------------------
\* Nothing is published at first.
LEMMA InitTInv == Init => TInv
<1> SUFFICES ASSUME Init
             PROVE  TInv
  BY Zenon
<1>1. IInv /\ DOMAIN dlqEntries = {}
  BY InitIInv DEF Init, DLQInit
<1>2. Range(ring) = {} /\ Range(due) = {} /\ IsInjective(ring) /\ IsInjective(due)
  BY DEF Init, Range, IsInjective
<1>3. IsFiniteSet({})
  BY FS_EmptySet, Zenon
<1>4. Shape
  BY <1>2, <1>3 DEF Init, Shape, Fates
<1>5. \A m \in Messages : At(m, "none", "back")
  BY <1>1, <1>2, Zenon DEF Init, At, Ends
<1>6. \A m \in Messages : Homed(m)
  BY <1>5, Zenon DEF Homed, PlaceNames, Ends
<1>7. \A m \in Messages : InBudget(m)
  BY <1>1, Zenon DEF Init, InBudget
<1> QED
  BY <1>1, <1>4, <1>6, <1>7, Zenon DEF TInv

\* Every step preserves the invariant.
LEMMA StepTInv == TInv /\ [Next]_vars => TInv'
<1> SUFFICES ASSUME TInv, [Next]_vars
             PROVE  TInv'
  BY Zenon
<1>1. CASE \E m \in Messages :
             \/ \E end \in Ends : Publish(m, end) \/ PublishPush(m, end)
             \/ PublishDelayed(m)
  BY <1>1, PublishTInv, PublishPushTInv, PublishDelayedTInv, Zenon
<1>2. CASE \E m \in Messages, g \in Groups :
             Checkout(m, g) \/ Ack(m, g) \/ Nack(m, g) \/ DeadlinePasses(m, g)
  BY <1>2, GroupTInv, Zenon
<1>3. CASE \E m \in Messages : NackRoute(m) \/ SweepRoute(m)
  BY <1>3, RouteTInv, Zenon
<1>4. CASE \E m \in Messages : ReplayDeadLetter(m) \/ ReplayPush(m)
  BY <1>4, ReplayDeadLetterTInv, ReplayPushTInv, Zenon
<1>5. CASE Consume \/ \E g \in Groups : ConsumeGroup(g)
  BY <1>5, ConsumeTInv, Zenon
<1>6. CASE Close \/ (\E g \in Groups : GetOrCreateGroup(g)) \/ UNCHANGED vars
  BY <1>6, CloseTInv, Zenon
<1>7. CASE Advance \/ Dispatch \/ Purge \/ \E g \in Groups : SweepTimeouts(g)
  BY <1>7, AdvanceTInv, DispatchTInv, PurgeTInv, SweepTimeoutsTInv, Zenon
<1> QED
  BY <1>1, <1>2, <1>3, <1>4, <1>5, <1>6, <1>7, Zenon DEF Next, Ends

\* The invariant holds in every state of every behaviour.
LEMMA AlwaysTInv == Spec => []TInv
BY InitTInv, StepTInv, PTL DEF Spec

(***************************************************************************)
(* A message on its way to a consumer has attempts left; one that is dead  *)
(* has used exactly MaxRetries, and its entry in the dead letter queue     *)
(* says so: Nack, the sweep and a replay never count a delivery twice or   *)
(* forget one.                                                             *)
(***************************************************************************)
THEOREM BudgetIsExact == Spec => []RetryBudget
<1>1. TInv => RetryBudget
  BY Zenon DEF TInv, InBudget, RetryBudget
<1> QED
  BY <1>1, AlwaysTInv, PTL

(***************************************************************************)
(* An accepted message that has not left is in exactly one place, and one  *)
(* that has left is nowhere, whatever the races of Ack, Nack, the sweep,   *)
(* the wheel, a replay and Close.                                          *)
(***************************************************************************)
THEOREM NeverLostNorDoubled == Spec => []ExactlyOneHome
<1>1. TInv => ExactlyOneHome
  BY OneHome, Zenon DEF ExactlyOneHome
<1> QED
  BY <1>1, AlwaysTInv, PTL

-----------------------------------------------------------------------------
(* The types.                                                              *)

\* The part of the type invariant that TInv does not need.
Scalars ==
  /\ groups \subseteq Groups
  /\ closing \in {"open", "topic", "ring", "wheel"}
  /\ replays \in 0..MaxReplays
  /\ stats \in [{"published", "consumed", "acked", "nacked", "deadLettered"} -> Nat]

\* The scalars at first.
LEMMA InitScalars == Init => Scalars
BY DEF Init, Scalars

\* The counters go up by one.
LEMMA CountersGrow ==
  ASSUME NEW s \in [{"published", "consumed", "acked", "nacked", "deadLettered"} -> Nat],
         NEW c \in {"published", "consumed", "acked", "nacked", "deadLettered"}
  PROVE  [s EXCEPT ![c] = @ + 1] \in [{"published", "consumed", "acked", "nacked", "deadLettered"} -> Nat]
OBVIOUS

\* Every step keeps the rest of the types.
LEMMA StepScalars == Scalars /\ [Next]_vars => Scalars'
<1> SUFFICES ASSUME Scalars, [Next]_vars
             PROVE  Scalars'
  BY Zenon
<1> DEFINE Counters == [{"published", "consumed", "acked", "nacked", "deadLettered"} -> Nat]
<1>0. stats \in Counters
  BY Zenon DEF Scalars
<1>b. ASSUME NEW c \in {"published", "consumed", "acked", "nacked", "deadLettered"}, Bump(c)
      PROVE  stats' \in Counters
  BY <1>0, <1>b, CountersGrow, Zenon DEF Bump
<1>r. ASSUME NEW m, NEW s \in Counters, RetryOrDeadLetter(m, s)
      PROVE  stats' \in Counters
  BY <1>r, CountersGrow, Zenon DEF RetryOrDeadLetter
<1>n. [stats EXCEPT !.nacked = @ + 1] \in Counters
  BY <1>0, CountersGrow, Zenon
<1> HIDE DEF Counters
<1>1. CASE UNCHANGED <<groups, closing, replays>> /\ stats' \in Counters
  BY <1>1, Zenon DEF Scalars, Counters
<1>2. ASSUME NEW m \in Messages, NEW end \in Ends, Publish(m, end) \/ PublishPush(m, end)
      PROVE  Scalars'
  BY <1>0, <1>1, <1>2, <1>b, Zenon DEF Publish, PublishPush
<1>3. ASSUME NEW m \in Messages, PublishDelayed(m) PROVE Scalars'
  BY <1>1, <1>3, <1>b, Zenon DEF PublishDelayed
<1>4. ASSUME NEW m \in Messages, NEW g \in Groups,
             Checkout(m, g) \/ Ack(m, g) \/ Nack(m, g) \/ DeadlinePasses(m, g)
      PROVE  Scalars'
  BY <1>0, <1>1, <1>4, <1>b, Zenon DEF Checkout, Ack, Nack, DeadlinePasses
<1>5. ASSUME NEW m \in Messages, NackRoute(m) \/ SweepRoute(m) PROVE Scalars'
  BY <1>0, <1>1, <1>5, <1>r, <1>n, Zenon DEF NackRoute, SweepRoute
<1>6. ASSUME NEW m \in Messages, ReplayPush(m) PROVE Scalars'
  BY <1>0, <1>1, <1>6, Zenon DEF ReplayPush
<1>7. ASSUME NEW m \in Messages, ReplayDeadLetter(m) PROVE Scalars'
  <2>1. replays' \in 0..MaxReplays
    BY <1>7 DEF ReplayDeadLetter, Scalars
  <2> QED
    BY <1>7, <2>1, Zenon DEF ReplayDeadLetter, Scalars
<1>8. CASE Consume \/ \E g \in Groups : ConsumeGroup(g) \/ SweepTimeouts(g)
  BY <1>0, <1>1, <1>8, <1>b, Zenon DEF Consume, ConsumeGroup, SweepTimeouts
<1>9. CASE Advance \/ Dispatch \/ Purge
  BY <1>0, <1>1, <1>9, Zenon DEF Advance, Dispatch, Purge
<1>10. CASE \E g \in Groups : GetOrCreateGroup(g)
  BY <1>10, Zenon DEF GetOrCreateGroup, Scalars
<1>11. CASE Close
  <2>1. closing' \in {"open", "topic", "ring", "wheel"}
    BY <1>11, Zenon DEF Close
  <2> QED
    BY <1>11, <2>1, Zenon DEF Close, Scalars
<1>12. CASE UNCHANGED vars
  BY <1>0, <1>1, <1>12, Zenon DEF vars, topicVars
<1> QED
  BY <1>2, <1>3, <1>4, <1>5, <1>6, <1>7, <1>8, <1>9, <1>10, <1>11, <1>12, ZenonT(30) DEF Next, Ends

(***************************************************************************)
(* Type correctness of the topic and of its dead letter queue, whose size  *)
(* stays within DLQMaxSize.                                                *)
(***************************************************************************)
THEOREM TypeCorrect == Spec => []TypeOK
<1>1. TInv /\ Scalars => TypeOK
  BY Zenon DEF TInv, Shape, Ends, IInv, Scalars, TypeOK
<1> QED
  BY <1>1, AlwaysTInv, InitScalars, StepScalars, PTL DEF Spec

-----------------------------------------------------------------------------
(* The accounts of the deliveries.                                         *)

\* The sets that DeliveriesAccounted counts: the dead, and the messages whose
\* retries are still theirs ...
Dead ==
  {m \in Messages : m \in DOMAIN dlqEntries \cup replayed \/ fate[m] \in {"evicted", "purged"}}

Alive == Messages \ Dead

\* ... what is in the groups' lists, and what was consumed outright.
Pending == {p \in Messages \X Groups : pel[p[2]][p[1]] # "none"}

Plain == {m \in Messages : fate[m] = "consumed"}

\* The entries of the ledger.
Ledger(c, a, p, q, n, t, d, s) ==
  /\ c \in Nat /\ a \in Nat /\ p \in Nat /\ q \in Nat
  /\ n \in Nat /\ t \in Nat /\ d \in Nat /\ s \in Nat
  /\ c = stats.consumed /\ a = stats.acked /\ d = stats.deadLettered
  /\ p = Cardinality(Plain) /\ q = Cardinality(Pending)
  /\ n = Cardinality(nacked) /\ t = Cardinality(timedOut)
  /\ s = SumFunctionOnSet(retryCount, Alive)

Balanced(c, a, p, q, n, t, d, s) == c = a + p + q + n + t + MaxRetries * d + s

\* DeliveriesAccounted is that the ledger is balanced.
LEMMA LedgerBalanced ==
  \A c, a, p, q, n, t, d, s :
    Ledger(c, a, p, q, n, t, d, s) => (DeliveriesAccounted <=> Balanced(c, a, p, q, n, t, d, s))
<1>1. DeliveriesAccounted
        <=> stats.consumed = stats.acked + Cardinality(Plain) + Cardinality(Pending)
                             + Cardinality(nacked) + Cardinality(timedOut)
                             + MaxRetries * stats.deadLettered
                             + SumFunctionOnSet(retryCount, Alive)
  BY Zenon DEF DeliveriesAccounted, Plain, Pending, Alive, Dead
<1> SUFFICES ASSUME NEW c, NEW a, NEW p, NEW q, NEW n, NEW t, NEW d, NEW s,
                    Ledger(c, a, p, q, n, t, d, s)
             PROVE  DeliveriesAccounted <=> Balanced(c, a, p, q, n, t, d, s)
  BY Zenon
<1>2. /\ stats.consumed = c /\ stats.acked = a /\ stats.deadLettered = d
      /\ Cardinality(Plain) = p /\ Cardinality(Pending) = q
      /\ Cardinality(nacked) = n /\ Cardinality(timedOut) = t
      /\ SumFunctionOnSet(retryCount, Alive) = s
  BY Zenon DEF Ledger
<1> QED
  BY <1>1, <1>2, Zenon DEF Balanced

\* The same of the next state.
LEMMA BalancedNext ==
  \A c, a, p, q, n, t, d, s :
    Ledger(c, a, p, q, n, t, d, s)' /\ Balanced(c, a, p, q, n, t, d, s) => DeliveriesAccounted'
<1>1. (\A c, a, p, q, n, t, d, s :
         Ledger(c, a, p, q, n, t, d, s) => (DeliveriesAccounted <=> Balanced(c, a, p, q, n, t, d, s)))'
  BY LedgerBalanced, PTL
<1> SUFFICES ASSUME NEW c, NEW a, NEW p, NEW q, NEW n, NEW t, NEW d, NEW s,
                    Ledger(c, a, p, q, n, t, d, s)', Balanced(c, a, p, q, n, t, d, s)
             PROVE  DeliveriesAccounted'
  BY Zenon
<1>2. DeliveriesAccounted' <=> Balanced(c, a, p, q, n, t, d, s)
  BY <1>1, Zenon
<1> QED
  BY <1>2, Zenon

\* The sizes of the sets of messages.
MessageSizes == [s \in SUBSET Messages |-> Cardinality(s)]

\* A set of messages is larger than what is left of it.
LEMMA MessagesMeasure == Measures(MessageSizes, Messages)
<1>1. \A s \in SUBSET Messages : IsFiniteSet(s)
  BY FiniteAssumption, FS_Subset, Zenon
<1>2. ASSUME NEW s \in SUBSET Messages
      PROVE  MessageSizes[s] = Cardinality(s) /\ Cardinality(s) \in Nat
  BY <1>1, FS_CardinalityType, Zenon DEF MessageSizes
<1>3. ASSUME NEW s \in SUBSET Messages, NEW x \in s
      PROVE  MessageSizes[s \ {x}] < MessageSizes[s]
  <2>1. Cardinality(s \ {x}) = Cardinality(s) - 1
    BY <1>1, <1>3, FS_RemoveElement, Zenon
  <2>2. /\ MessageSizes[s \ {x}] = Cardinality(s \ {x}) /\ MessageSizes[s] = Cardinality(s)
        /\ Cardinality(s) \in Nat
    BY <1>2, Zenon
  <2> QED
    BY <2>1, <2>2
<1>4. ASSUME NEW s \in SUBSET Messages, NEW r \in SUBSET Messages, s \subseteq r
      PROVE  MessageSizes[s] <= MessageSizes[r]
  <2>1. Cardinality(s) <= Cardinality(r)
    BY <1>1, <1>4, FS_Subset, Zenon
  <2> QED
    BY <1>2, <2>1, Zenon
<1> QED
  BY <1>2, <1>3, <1>4, Zenon DEF Measures

\* Everything that is counted is finite.
LEMMA CountedIsFinite ==
  ASSUME TInv
  PROVE  /\ IsFiniteSet(Plain) /\ IsFiniteSet(Pending) /\ IsFiniteSet(nacked) /\ IsFiniteSet(timedOut)
         /\ Cardinality(Plain) \in Nat /\ Cardinality(Pending) \in Nat
         /\ Cardinality(nacked) \in Nat /\ Cardinality(timedOut) \in Nat
         /\ Alive \in SUBSET Messages /\ Numbers(retryCount, Messages)
         /\ SumFunctionOnSet(retryCount, Alive) \in Nat
<1>1. IsFiniteSet(Messages \X Groups)
  BY FiniteAssumption, FS_Product, Zenon
<1>2. Plain \in SUBSET Messages /\ nacked \in SUBSET Messages /\ timedOut \in SUBSET Messages
  BY Zenon DEF Plain, TInv, Shape
<1>3. Pending \in SUBSET (Messages \X Groups)
  BY Zenon DEF Pending
<1>4. /\ IsFiniteSet(Plain) /\ IsFiniteSet(Pending) /\ IsFiniteSet(nacked) /\ IsFiniteSet(timedOut)
  BY <1>1, <1>2, <1>3, FiniteAssumption, FS_Subset, Zenon
<1>5. /\ Cardinality(Plain) \in Nat /\ Cardinality(Pending) \in Nat
      /\ Cardinality(nacked) \in Nat /\ Cardinality(timedOut) \in Nat
  BY <1>4, FS_CardinalityType, Zenon
<1>6. Alive \in SUBSET Messages /\ Numbers(retryCount, Messages)
  BY Zenon DEF Alive, Numbers, TInv, Shape
<1>7. SumFunctionOnSet(retryCount, Alive) \in Nat
  BY <1>6, MessagesMeasure, SumType, Zenon
<1> QED
  BY <1>4, <1>5, <1>6, <1>7, Zenon

\* There is a ledger.
LEMMA HasLedger ==
  ASSUME TInv, Scalars
  PROVE  \E c, a, p, q, n, t, d, s : Ledger(c, a, p, q, n, t, d, s)
<1>1. stats.consumed \in Nat /\ stats.acked \in Nat /\ stats.deadLettered \in Nat
  BY Zenon DEF Scalars
<1> QED
  BY <1>1, CountedIsFinite, Zenon DEF Ledger

\* No fate that the accounts look at is given or taken.
QuietFate(x) ==
  \/ fate'[x] = fate[x]
  \/ fate[x] \in {"new", "live"} /\ fate'[x] \notin {"consumed", "evicted", "purged"}

\* Then the dead are the same, and what was consumed outright.
LEMMA QuietSets ==
  ASSUME UNCHANGED <<dlqEntries, replayed>>, \A x \in Messages : QuietFate(x)
  PROVE  Alive' = Alive /\ Plain' = Plain
<1>1. Dead' = Dead
  BY Zenon DEF Dead, QuietFate
<1>2. Plain' = Plain
  BY Zenon DEF Plain, QuietFate
<1> QED
  BY <1>1, <1>2, Zenon DEF Alive

\* Where no entry of the ledger changes, the accounts stand.
LEMMA QuietLedger ==
  ASSUME TInv, Scalars, DeliveriesAccounted,
         Alive' = Alive, Plain' = Plain, Pending' = Pending,
         UNCHANGED <<nacked, timedOut, retryCount>>,
         stats'.consumed = stats.consumed, stats'.acked = stats.acked,
         stats'.deadLettered = stats.deadLettered
  PROVE  DeliveriesAccounted'
<1>1. PICK c, a, p, q, n, t, d, s : Ledger(c, a, p, q, n, t, d, s)
  BY HasLedger, Zenon
<1>2. Ledger(c, a, p, q, n, t, d, s)'
  BY <1>1, Zenon DEF Ledger
<1>3. Balanced(c, a, p, q, n, t, d, s)
  BY <1>1, LedgerBalanced, Zenon
<1> QED
  BY <1>2, <1>3, BalancedNext, Zenon

\* What has a place is live.
LEMMA PlacedIsLive ==
  ASSUME TInv, NEW x \in Messages
  PROVE  /\ x \in Range(ring) => fate[x] = "live"
         /\ x \in Range(due) => fate[x] = "live"
         /\ \A end \in Ends : <<x, end>> \in publishing => fate[x] = "live"
         /\ \A g \in Groups : pel[g][x] # "none" =>
              fate[x] = "live" /\ x \notin nacked /\ x \notin timedOut
         /\ x \in replayed \/ x \in DOMAIN dlqEntries => fate[x] = "live"
         /\ x \in nacked \/ x \in timedOut =>
              fate[x] = "live" /\ x \notin replayed /\ x \notin DOMAIN dlqEntries
<1>1. PICK p \in PlaceNames, q \in Ends \cup Groups : At(x, p, q)
  BY Zenon DEF TInv, Homed
<1> QED
  BY <1>1, Zenon DEF At

\* The ring's and the wheel's steps are quiet.
LEMMA PlacingIsQuiet ==
  ASSUME TInv, NEW m \in Messages, fate[m] \in {"new", "live"},
         \/ PushOrLose(m)
         \/ ScheduleOrLose(m)
         \/ \E q : RingBecomes(q, m)
         \/ \E f \in {"live", "lost", "rejected"} : fate' = Fate({m}, f)
  PROVE  \A x \in Messages : QuietFate(x)
<1>1. CASE \E f \in {"live", "lost", "rejected"} : fate' = Fate({m}, f)
  <2>1. PICK f \in {"live", "lost", "rejected"} : fate' = Fate({m}, f)
    BY <1>1, Zenon
  <2> QED
    BY <2>1, Zenon DEF Fate, QuietFate
<1>2. CASE \E q : RingBecomes(q, m)
  <2>1. PICK q : RingBecomes(q, m)
    BY <1>2, Zenon
  <2> SUFFICES ASSUME NEW x \in Messages
               PROVE  QuietFate(x)
    BY Zenon
  <2>2. x \in Range(ring) => fate[x] = "live"
    BY PlacedIsLive, Zenon
  <2>3. fate'[x] = IF x = m THEN "live"
                   ELSE IF x \in Range(ring) \ Range(q) THEN "overrun" ELSE fate[x]
    BY <2>1, Zenon DEF RingBecomes
  <2> QED
    BY <2>2, <2>3, Zenon DEF QuietFate
<1> QED
  BY <1>1, <1>2, Zenon DEF PushOrLose, ScheduleOrLose

\* The counters that the accounts look at.
CountersStand ==
  /\ stats'.consumed = stats.consumed
  /\ stats'.acked = stats.acked
  /\ stats'.deadLettered = stats.deadLettered

\* Publishing, the wheel and closing neither deliver nor settle.
LEMMA QuietAccounts ==
  ASSUME TInv, Scalars, DeliveriesAccounted,
         UNCHANGED <<pel, nacked, timedOut, retryCount, dlqEntries, replayed>>,
         CountersStand, \A x \in Messages : QuietFate(x)
  PROVE  DeliveriesAccounted'
<1>1. Pending' = Pending
  BY Zenon DEF Pending
<1>2. Alive' = Alive /\ Plain' = Plain
  BY QuietSets, Zenon
<1> QED
  BY <1>1, <1>2, QuietLedger, Zenon DEF CountersStand

\* A counter that goes up, and the others.
LEMMA BumpSettles ==
  ASSUME Scalars
  PROVE  /\ Bump("published") \/ UNCHANGED stats => CountersStand
         /\ Bump("consumed") => /\ stats'.consumed = stats.consumed + 1
                                /\ stats'.acked = stats.acked
                                /\ stats'.deadLettered = stats.deadLettered
         /\ Bump("acked") => /\ stats'.consumed = stats.consumed
                             /\ stats'.acked = stats.acked + 1
                             /\ stats'.deadLettered = stats.deadLettered
BY Zenon DEF Scalars, Bump, CountersStand

\* Publishing delivers nothing.
LEMMA PublishAccounts ==
  ASSUME TInv, Scalars, DeliveriesAccounted, NEW m \in Messages,
         \/ \E end \in Ends : Publish(m, end) \/ PublishPush(m, end)
         \/ PublishDelayed(m)
  PROVE  DeliveriesAccounted'
<1>1. CASE \E end \in Ends : Publish(m, end)
  <2>1. /\ UNCHANGED <<pel, nacked, timedOut, retryCount, dlqEntries, replayed, stats>>
        /\ fate[m] = "new" /\ \E f \in {"live", "lost", "rejected"} : fate' = Fate({m}, f)
    BY <1>1, Zenon DEF Publish, dlqVars
  <2>2. \A x \in Messages : QuietFate(x)
    BY <2>1, PlacingIsQuiet, Zenon
  <2> QED
    BY <2>1, <2>2, BumpSettles, QuietAccounts, Zenon
<1>2. CASE \E end \in Ends : PublishPush(m, end)
  <2>1. PICK end \in Ends : PublishPush(m, end)
    BY <1>2, Zenon
  <2>2. /\ UNCHANGED <<pel, nacked, timedOut, retryCount, dlqEntries, replayed>>
        /\ <<m, end>> \in publishing
        /\ (\E f \in {"live", "lost", "rejected"} : fate' = Fate({m}, f)) \/ \E q : RingBecomes(q, m)
        /\ Bump("published") \/ UNCHANGED stats
    BY <2>1, Zenon DEF PublishPush, dlqVars
  <2>3. fate[m] = "live"
    BY <2>2, PlacedIsLive, Zenon
  <2>4. \A x \in Messages : QuietFate(x)
    BY <2>2, <2>3, PlacingIsQuiet, Zenon
  <2> QED
    BY <2>2, <2>4, BumpSettles, QuietAccounts, Zenon
<1>3. CASE PublishDelayed(m)
  <2>1. /\ UNCHANGED <<pel, nacked, timedOut, retryCount, dlqEntries, replayed>>
        /\ fate[m] = "new" /\ ScheduleOrLose(m) /\ Bump("published")
    BY <1>3, Zenon DEF PublishDelayed, dlqVars
  <2>2. \A x \in Messages : QuietFate(x)
    BY <2>1, PlacingIsQuiet, Zenon
  <2> QED
    BY <2>1, <2>2, BumpSettles, QuietAccounts, Zenon
<1> QED
  BY <1>1, <1>2, <1>3, Zenon

\* Nor do the steps that only move a message to its next place.
LEMMA MovesAccounts ==
  ASSUME TInv, Scalars, DeliveriesAccounted,
         \/ \E g \in Groups : GetOrCreateGroup(g) \/ ConsumeGroup(g)
         \/ Advance \/ Close \/ UNCHANGED vars
  PROVE  DeliveriesAccounted'
<1>1. UNCHANGED <<pel, nacked, timedOut, retryCount, dlqEntries, replayed, fate, stats>>
  BY Zenon DEF GetOrCreateGroup, ConsumeGroup, Advance, Close, vars, topicVars, dlqVars
<1>2. \A x \in Messages : QuietFate(x)
  BY <1>1, Zenon DEF QuietFate
<1> QED
  BY <1>1, <1>2, BumpSettles, QuietAccounts, Zenon

\* Nor does a return from the wheel to the ring.
LEMMA DispatchAccounts ==
  ASSUME TInv, Scalars, DeliveriesAccounted, Dispatch
  PROVE  DeliveriesAccounted'
<1>1. /\ UNCHANGED <<pel, nacked, timedOut, retryCount, dlqEntries, replayed, stats>>
      /\ due # <<>> /\ PushOrLose(Head(due))
  BY Zenon DEF Dispatch, dlqVars
<1>2. due \in Seq(Messages)
  BY Zenon DEF TInv, Shape
<1>3. PICK m \in Messages : m = Head(due) /\ m \in Range(due)
  BY <1>1, <1>2 DEF Range
<1>4. fate[m] = "live"
  BY <1>3, PlacedIsLive, Zenon
<1>5. \A x \in Messages : QuietFate(x)
  BY <1>1, <1>3, <1>4, PlacingIsQuiet, Zenon
<1> QED
  BY <1>1, <1>5, BumpSettles, QuietAccounts, Zenon

\* The entries that an action makes leave the ledger balanced.
LEMMA Transfers ==
  ASSUME NEW c \in Nat, NEW a \in Nat, NEW p \in Nat, NEW q \in Nat,
         NEW n \in Nat, NEW t \in Nat, NEW d \in Nat, NEW s \in Nat,
         Balanced(c, a, p, q, n, t, d, s)
  PROVE  /\ Balanced(c + 1, a, p + 1, q, n, t, d, s)
         /\ Balanced(c + 1, a, p, q + 1, n, t, d, s)
         /\ Balanced(c, a + 1, p, q - 1, n, t, d, s)
         /\ Balanced(c, a, p, q - 1, n + 1, t, d, s)
         /\ \A k \in Nat : Balanced(c, a, p, q - k, n, t + k, d, s)
         /\ Balanced(c, a, p, q, n - 1, t, d, s + 1)
         /\ Balanced(c, a, p, q, n, t - 1, d, s + 1)
         /\ \A r \in Nat : r + 1 = MaxRetries =>
              /\ Balanced(c, a, p, q, n - 1, t, d + 1, s - r)
              /\ Balanced(c, a, p, q, n, t - 1, d + 1, s - r)
<1>1. PICK x \in Nat : x = MaxRetries * d
  OBVIOUS
<1>2. MaxRetries * (d + 1) = x + MaxRetries
  BY <1>1
<1>3. c = a + p + q + n + t + x + s
  BY <1>1, Zenon DEF Balanced
<1>4. /\ Balanced(c + 1, a, p + 1, q, n, t, d, s)
      /\ Balanced(c + 1, a, p, q + 1, n, t, d, s)
      /\ Balanced(c, a + 1, p, q - 1, n, t, d, s)
      /\ Balanced(c, a, p, q - 1, n + 1, t, d, s)
  <2>1. /\ c + 1 = a + (p + 1) + q + n + t + x + s
        /\ c + 1 = a + p + (q + 1) + n + t + x + s
        /\ c = (a + 1) + p + (q - 1) + n + t + x + s
        /\ c = a + p + (q - 1) + (n + 1) + t + x + s
    BY <1>3
  <2> QED
    BY <1>1, <2>1, Zenon DEF Balanced
<1>5. ASSUME NEW k \in Nat
      PROVE  Balanced(c, a, p, q - k, n, t + k, d, s)
  <2>1. c = a + p + (q - k) + n + (t + k) + x + s
    BY <1>3
  <2> QED
    BY <1>1, <2>1, Zenon DEF Balanced
<1>6. /\ Balanced(c, a, p, q, n - 1, t, d, s + 1)
      /\ Balanced(c, a, p, q, n, t - 1, d, s + 1)
  <2>1. /\ c = a + p + q + (n - 1) + t + x + (s + 1)
        /\ c = a + p + q + n + (t - 1) + x + (s + 1)
    BY <1>3
  <2> QED
    BY <1>1, <2>1, Zenon DEF Balanced
<1>7. ASSUME NEW r \in Nat, r + 1 = MaxRetries
      PROVE  /\ Balanced(c, a, p, q, n - 1, t, d + 1, s - r)
             /\ Balanced(c, a, p, q, n, t - 1, d + 1, s - r)
  <2>1. /\ c = a + p + q + (n - 1) + t + (x + MaxRetries) + (s - r)
        /\ c = a + p + q + n + (t - 1) + (x + MaxRetries) + (s - r)
    BY <1>3, <1>7
  <2> QED
    BY <1>2, <2>1, Zenon DEF Balanced
<1> QED
  BY <1>4, <1>5, <1>6, <1>7, ZenonT(30)

\* A message consumed outright is a delivery and its end.
LEMMA ConsumeAccounts ==
  ASSUME TInv, Scalars, DeliveriesAccounted, Consume
  PROVE  DeliveriesAccounted'
<1>1. /\ UNCHANGED <<pel, nacked, timedOut, retryCount, dlqEntries, replayed>>
      /\ ring # <<>> /\ fate' = Fate({Head(ring)}, "consumed") /\ Bump("consumed")
  BY Zenon DEF Consume, dlqVars
<1>2. ring \in Seq(Messages)
  BY Zenon DEF TInv, Shape
<1>3. PICK m \in Messages : m = Head(ring) /\ m \in Range(ring)
  BY <1>1, <1>2 DEF Range
<1>4. fate[m] = "live"
  BY <1>3, PlacedIsLive, Zenon
<1>5. \A x \in Messages : fate'[x] = IF x = m THEN "consumed" ELSE fate[x]
  BY <1>1, <1>3, Zenon DEF Fate
<1>6. Plain' = Plain \cup {m} /\ m \notin Plain
  BY <1>4, <1>5, Zenon DEF Plain
<1>7. Dead' = Dead
  <2>1. \A x \in Messages : fate'[x] \in {"evicted", "purged"} <=> fate[x] \in {"evicted", "purged"}
    BY <1>4, <1>5, Zenon
  <2> QED
    BY <1>1, <2>1, Zenon DEF Dead
<1>8. Alive' = Alive /\ Pending' = Pending
  BY <1>1, <1>7, Zenon DEF Alive, Pending
<1>9. PICK c, a, p, q, n, t, d, s : Ledger(c, a, p, q, n, t, d, s)
  BY HasLedger, Zenon
<1>10. Cardinality(Plain') = Cardinality(Plain) + 1
  BY <1>6, CountedIsFinite, FS_AddElement, Zenon
<1>11. Ledger(c + 1, a, p + 1, q, n, t, d, s)'
  <2>1. /\ stats'.consumed = c + 1 /\ stats'.acked = a /\ stats'.deadLettered = d
        /\ Cardinality(Plain') = p + 1 /\ Cardinality(Pending') = q
        /\ Cardinality(nacked') = n /\ Cardinality(timedOut') = t
        /\ SumFunctionOnSet(retryCount', Alive') = s
    BY <1>1, <1>8, <1>9, <1>10, BumpSettles, ZenonT(30) DEF Ledger
  <2>2. c + 1 \in Nat /\ p + 1 \in Nat
    BY <1>9 DEF Ledger
  <2> QED
    BY <1>9, <2>1, <2>2, Zenon DEF Ledger
<1>12. Balanced(c, a, p, q, n, t, d, s)
  BY <1>9, LedgerBalanced, Zenon
<1>13. Balanced(c + 1, a, p + 1, q, n, t, d, s)
  BY <1>9, <1>12, Transfers, Zenon DEF Ledger
<1> QED
  BY <1>11, <1>13, BalancedNext, Zenon

\* The pending entries when one of them changes.
LEMMA PendingChanges ==
  ASSUME TInv, NEW m \in Messages, NEW g \in Groups, NEW v \in {"none", "pending", "expired"},
         pel' = [pel EXCEPT ![g][m] = v]
  PROVE  /\ v # "none" => Pending' = Pending \cup {<<m, g>>}
         /\ v = "none" => Pending' = Pending \ {<<m, g>>}
         /\ <<m, g>> \in Pending <=> pel[g][m] # "none"
<1>1. pel \in [Groups -> [Messages -> {"none", "pending", "expired"}]]
  BY Zenon DEF TInv, Shape
<1>2. \A x \in Messages, h \in Groups :
        pel'[h][x] = IF x = m /\ h = g THEN v ELSE pel[h][x]
  BY <1>1, Zenon
<1>3. \A x \in Messages, h \in Groups : <<x, h>> \in Pending <=> pel[h][x] # "none"
  BY Zenon DEF Pending
<1>4. \A x \in Messages, h \in Groups : <<x, h>> \in Pending' <=> pel'[h][x] # "none"
  BY Zenon DEF Pending
<1>5. Pending \in SUBSET (Messages \X Groups) /\ Pending' \in SUBSET (Messages \X Groups)
  BY Zenon DEF Pending
<1>6. ASSUME v # "none" PROVE Pending' = Pending \cup {<<m, g>>}
  BY <1>2, <1>3, <1>4, <1>5, <1>6
<1>7. ASSUME v = "none" PROVE Pending' = Pending \ {<<m, g>>}
  BY <1>2, <1>3, <1>4, <1>5, <1>7
<1> QED
  BY <1>3, <1>6, <1>7, Zenon

\* Checking out is a delivery, pending; an acknowledgement ends it, and a
\* rejection takes it along.
LEMMA GroupAccounts ==
  ASSUME TInv, Scalars, DeliveriesAccounted, NEW m \in Messages, NEW g \in Groups,
         Checkout(m, g) \/ Ack(m, g) \/ Nack(m, g) \/ DeadlinePasses(m, g)
  PROVE  DeliveriesAccounted'
<1>1. UNCHANGED <<timedOut, retryCount, dlqEntries, replayed>>
  BY Zenon DEF Checkout, Ack, Nack, DeadlinePasses, dlqVars
<1>2. PICK c, a, p, q, n, t, d, s : Ledger(c, a, p, q, n, t, d, s)
  BY HasLedger, Zenon
<1>3. Balanced(c, a, p, q, n, t, d, s)
  BY <1>2, LedgerBalanced, Zenon
<1>4. pel[g][m] # "none" => fate[m] = "live" /\ m \notin nacked
  BY PlacedIsLive, Zenon
<1>q. \A x \in Messages : QuietFate(x)
  <2>1. CASE UNCHANGED fate
    BY <2>1, Zenon DEF QuietFate
  <2>2. CASE Ack(m, g)
    <3>1. fate' = Fate({m}, "acked") /\ fate[m] = "live"
      BY <2>2, <1>4, Zenon DEF Ack
    <3> QED
      BY <3>1, Zenon DEF Fate, QuietFate
  <2> QED
    BY <2>1, <2>2, Zenon DEF Checkout, Nack, DeadlinePasses
<1>5. Alive' = Alive /\ Plain' = Plain
  BY <1>1, <1>q, QuietSets, Zenon
<1>6. IsFiniteSet(Pending) /\ IsFiniteSet(nacked) /\ q = Cardinality(Pending) /\ q \in Nat
  BY <1>2, CountedIsFinite, Zenon DEF Ledger
<1>7. CASE Checkout(m, g)
  <2>1. pel' = [pel EXCEPT ![g][m] = "pending"] /\ Bump("consumed") /\ nacked' = nacked
    BY <1>7, Zenon DEF Checkout
  <2>2. pel[g][m] = "none"
    <3>1. PICK pl \in PlaceNames, z \in Ends \cup Groups : At(m, pl, z)
      BY Zenon DEF TInv, Homed
    <3>2. <<m, g>> \in popped
      BY <1>7, Zenon DEF Checkout
    <3>3. pl = "popped"
      BY <3>1, <3>2, Zenon DEF At
    <3> QED
      BY <3>1, <3>3, Zenon DEF At
  <2>3. Pending' = Pending \cup {<<m, g>>} /\ <<m, g>> \notin Pending
    BY <2>1, <2>2, PendingChanges, Zenon
  <2>4. Cardinality(Pending') = q + 1
    BY <1>6, <2>3, FS_AddElement, Zenon
  <2>5. Ledger(c + 1, a, p, q + 1, n, t, d, s)'
    <3>1. /\ stats'.consumed = c + 1 /\ stats'.acked = a /\ stats'.deadLettered = d
          /\ Cardinality(Plain') = p /\ Cardinality(Pending') = q + 1
          /\ Cardinality(nacked') = n /\ Cardinality(timedOut') = t
          /\ SumFunctionOnSet(retryCount', Alive') = s
      BY <1>1, <1>2, <1>5, <2>1, <2>4, BumpSettles, ZenonT(30) DEF Ledger
    <3>2. c + 1 \in Nat /\ q + 1 \in Nat
      BY <1>2 DEF Ledger
    <3> QED
      BY <1>2, <3>1, <3>2, Zenon DEF Ledger
  <2>6. Balanced(c + 1, a, p, q + 1, n, t, d, s)
    BY <1>2, <1>3, Transfers, Zenon DEF Ledger
  <2> QED
    BY <2>5, <2>6, BalancedNext, Zenon
<1>8. CASE Ack(m, g) \/ Nack(m, g)
  <2>1. pel' = [pel EXCEPT ![g][m] = "none"] /\ pel[g][m] # "none"
    BY <1>8, Zenon DEF Ack, Nack
  <2>2. Pending' = Pending \ {<<m, g>>} /\ <<m, g>> \in Pending
    BY <2>1, PendingChanges, Zenon
  <2>3. Cardinality(Pending') = q - 1
    BY <1>6, <2>2, FS_RemoveElement, Zenon
  <2>4. IsFiniteSet(Pending')
    BY <1>6, <2>2, FS_RemoveElement, Zenon
  <2>5. Cardinality(Pending') \in Nat
    BY <2>4, FS_CardinalityType, Zenon
  <2>6. q - 1 \in Nat
    BY <2>3, <2>5, Zenon
  <2>7. CASE Ack(m, g)
    <3>1. /\ Bump("acked") /\ nacked' = nacked
      BY <2>7, Zenon DEF Ack
    <3>2. Ledger(c, a + 1, p, q - 1, n, t, d, s)'
      <4>1. /\ stats'.consumed = c /\ stats'.acked = a + 1 /\ stats'.deadLettered = d
            /\ Cardinality(Plain') = p /\ Cardinality(Pending') = q - 1
            /\ Cardinality(nacked') = n /\ Cardinality(timedOut') = t
            /\ SumFunctionOnSet(retryCount', Alive') = s
        BY <1>1, <1>2, <1>5, <2>3, <3>1, BumpSettles, ZenonT(30) DEF Ledger
      <4>2. a + 1 \in Nat
        BY <1>2 DEF Ledger
      <4> QED
        BY <1>2, <2>6, <4>1, <4>2, Zenon DEF Ledger
    <3>3. Balanced(c, a + 1, p, q - 1, n, t, d, s)
      BY <1>2, <1>3, Transfers, Zenon DEF Ledger
    <3> QED
      BY <3>2, <3>3, BalancedNext, Zenon
  <2>8. CASE Nack(m, g)
    <3>1. /\ UNCHANGED stats /\ nacked' = nacked \cup {m} /\ m \notin nacked
      BY <2>8, <1>4, Zenon DEF Nack
    <3>2. Cardinality(nacked') = Cardinality(nacked) + 1
      BY <1>6, <3>1, FS_AddElement, Zenon
    <3>3. Ledger(c, a, p, q - 1, n + 1, t, d, s)'
      <4>1. /\ stats'.consumed = c /\ stats'.acked = a /\ stats'.deadLettered = d
            /\ Cardinality(Plain') = p /\ Cardinality(Pending') = q - 1
            /\ Cardinality(nacked') = n + 1 /\ Cardinality(timedOut') = t
            /\ SumFunctionOnSet(retryCount', Alive') = s
        BY <1>1, <1>2, <1>5, <2>3, <3>1, <3>2, ZenonT(30) DEF Ledger
      <4>2. n + 1 \in Nat
        BY <1>2 DEF Ledger
      <4> QED
        BY <1>2, <2>6, <4>1, <4>2, Zenon DEF Ledger
    <3>4. Balanced(c, a, p, q - 1, n + 1, t, d, s)
      BY <1>2, <1>3, Transfers, Zenon DEF Ledger
    <3> QED
      BY <3>3, <3>4, BalancedNext, Zenon
  <2> QED
    BY <1>8, <2>7, <2>8, Zenon
<1>9. CASE DeadlinePasses(m, g)
  <2>1. /\ pel' = [pel EXCEPT ![g][m] = "expired"] /\ pel[g][m] = "pending"
        /\ UNCHANGED <<stats, nacked>>
    BY <1>9, Zenon DEF DeadlinePasses
  <2>2. Pending' = Pending \cup {<<m, g>>} /\ <<m, g>> \in Pending
    BY <2>1, PendingChanges, Zenon
  <2>3. Pending' = Pending
    BY <2>2, Zenon
  <2> QED
    BY <1>1, <1>5, <2>1, <2>3, QuietLedger, Zenon
<1> QED
  BY <1>7, <1>8, <1>9, Zenon

\* The sweep takes the expired deliveries along.
LEMMA SweepAccounts ==
  ASSUME TInv, Scalars, DeliveriesAccounted, NEW g \in Groups, SweepTimeouts(g)
  PROVE  DeliveriesAccounted'
<1> DEFINE E == {m \in Messages : pel[g][m] = "expired"}
<1>1. /\ UNCHANGED <<nacked, retryCount, dlqEntries, replayed, fate, stats>>
      /\ timedOut = {} /\ timedOut' = E
      /\ pel' = [pel EXCEPT ![g] = [m \in Messages |->
                   IF pel[g][m] = "expired" THEN "none" ELSE pel[g][m]]]
  BY Zenon DEF SweepTimeouts, dlqVars
<1>2. pel \in [Groups -> [Messages -> {"none", "pending", "expired"}]]
  BY Zenon DEF TInv, Shape
<1>3. \A x \in Messages, h \in Groups :
        pel'[h][x] = IF h = g /\ pel[h][x] = "expired" THEN "none" ELSE pel[h][x]
  BY <1>1, <1>2, Zenon
<1>4. PICK X : X = E \X {g}
  BY Zenon
<1>5. \A x \in Messages, h \in Groups : <<x, h>> \in X <=> h = g /\ pel[h][x] = "expired"
  BY <1>4, Zenon
<1>6. X \in SUBSET (Messages \X Groups)
  BY <1>4, Zenon
<1>7. /\ Pending \in SUBSET (Messages \X Groups) /\ Pending' \in SUBSET (Messages \X Groups)
      /\ \A x \in Messages, h \in Groups : <<x, h>> \in Pending <=> pel[h][x] # "none"
      /\ \A x \in Messages, h \in Groups : <<x, h>> \in Pending' <=> pel'[h][x] # "none"
  BY Zenon DEF Pending
<1>8. Pending' = Pending \ X /\ X \subseteq Pending
  <2>1. ASSUME NEW z \in Messages \X Groups
        PROVE  /\ z \in Pending' <=> z \in Pending /\ z \notin X
               /\ z \in X => z \in Pending
    <3>1. PICK x \in Messages, h \in Groups : z = <<x, h>>
      BY <2>1
    <3>2. /\ <<x, h>> \in X <=> h = g /\ pel[h][x] = "expired"
          /\ <<x, h>> \in Pending <=> pel[h][x] # "none"
          /\ <<x, h>> \in Pending' <=> pel'[h][x] # "none"
      BY <1>5, <1>7, Zenon
    <3>3. pel'[h][x] = IF h = g /\ pel[h][x] = "expired" THEN "none" ELSE pel[h][x]
      BY <1>3, Zenon
    <3>4. /\ <<x, h>> \in Pending' <=> <<x, h>> \in Pending /\ <<x, h>> \notin X
          /\ <<x, h>> \in X => <<x, h>> \in Pending
      BY <3>2, <3>3, Zenon
    <3> QED
      BY <3>1, <3>4, Zenon
  <2> QED
    BY <1>6, <1>7, <2>1, Zenon
<1>9. PICK c, a, p, q, n, t, d, s : Ledger(c, a, p, q, n, t, d, s)
  BY HasLedger, Zenon
<1>10. PICK k \in Nat : k = Cardinality(E) /\ IsFiniteSet(E)
  <2>1. IsFiniteSet(E)
    BY FiniteAssumption, FS_Subset, Zenon
  <2> QED
    BY <2>1, FS_CardinalityType, Zenon
<1>11. Cardinality(X) = k
  <2>1. IsFiniteSet({g}) /\ Cardinality({g}) = 1
    BY FS_Singleton, Zenon
  <2>2. Cardinality(X) = Cardinality(E) * Cardinality({g})
    BY <1>4, <1>10, <2>1, FS_Product, Zenon
  <2>3. Cardinality(X) = k * 1
    BY <1>10, <2>1, <2>2, Zenon
  <2> QED
    BY <2>3
<1>12. /\ IsFiniteSet(Pending) /\ Cardinality(Pending) = q /\ q \in Nat
       /\ Pending \cap X = X
  BY <1>8, <1>9, CountedIsFinite, Zenon DEF Ledger
<1>13. IsFiniteSet(Pending') /\ Cardinality(Pending') = q - k
  BY <1>8, <1>11, <1>12, FS_Difference, Zenon
<1>14. q - k \in Nat
  <2>1. Cardinality(Pending') \in Nat
    BY <1>13, FS_CardinalityType, Zenon
  <2> QED
    BY <1>13, <2>1, Zenon
<1>15. t = 0 /\ t + k = k
  <2>1. t = 0
    BY <1>1, <1>9, FS_EmptySet, Zenon DEF Ledger
  <2> QED
    BY <2>1
<1>16. Alive' = Alive /\ Plain' = Plain
  BY <1>1, QuietSets, Zenon DEF QuietFate
<1>17. Ledger(c, a, p, q - k, n, t + k, d, s)'
  <2>1. /\ stats'.consumed = c /\ stats'.acked = a /\ stats'.deadLettered = d
        /\ Cardinality(Plain') = p /\ Cardinality(Pending') = q - k
        /\ Cardinality(nacked') = n /\ Cardinality(timedOut') = t + k
        /\ SumFunctionOnSet(retryCount', Alive') = s
    BY <1>1, <1>9, <1>10, <1>13, <1>15, <1>16, Zenon DEF Ledger
  <2>2. t + k \in Nat
    BY <1>15, <1>10, Zenon
  <2> QED
    BY <1>9, <1>14, <2>1, <2>2, Zenon DEF Ledger
<1>18. Balanced(c, a, p, q, n, t, d, s)
  BY <1>9, LedgerBalanced, Zenon
<1>19. Balanced(c, a, p, q - k, n, t + k, d, s)
  BY <1>9, <1>18, Transfers, Zenon DEF Ledger
<1> QED
  BY <1>17, <1>19, BalancedNext, Zenon

\* A replay takes a dead letter out of the queue, and a purge empties it: the
\* dead stay the same.
LEMMA DeadLettersAccounts ==
  ASSUME TInv, Scalars, DeliveriesAccounted,
         Purge \/ \E m \in Messages : ReplayDeadLetter(m)
  PROVE  DeliveriesAccounted'
<1>1. UNCHANGED <<pel, nacked, timedOut, retryCount, stats>>
  BY Zenon DEF Purge, ReplayDeadLetter
<1>e. DOMAIN dlqEntries \subseteq Messages
  BY Zenon DEF TInv, IInv, DLQTypeOK
<1>l. \A x \in Messages : x \in DOMAIN dlqEntries => fate[x] = "live"
  BY PlacedIsLive, Zenon
<1>2. Dead' = Dead /\ Plain' = Plain
  <2>1. CASE Purge
    <3>1. DOMAIN dlqEntries' = {} /\ replayed' = replayed
      BY <2>1 DEF Purge, DLQPurge
    <3>2. \A x \in Messages : fate'[x] = IF x \in DOMAIN dlqEntries THEN "purged" ELSE fate[x]
      BY <2>1, Zenon DEF Purge, Fate
    <3>3. \A x \in Messages :
            /\ x \in DOMAIN dlqEntries' \cup replayed' \/ fate'[x] \in {"evicted", "purged"}
                 <=> x \in DOMAIN dlqEntries \cup replayed \/ fate[x] \in {"evicted", "purged"}
            /\ fate'[x] = "consumed" <=> fate[x] = "consumed"
      BY <1>l, <3>1, <3>2, Zenon
    <3> QED
      BY <3>3, Zenon DEF Dead, Plain
  <2>2. CASE \E m \in Messages : ReplayDeadLetter(m)
    <3>1. PICK m \in Messages : ReplayDeadLetter(m)
      BY <2>2, Zenon
    <3>2. /\ m \in DOMAIN dlqEntries /\ DOMAIN dlqEntries' = DOMAIN dlqEntries \ {m}
          /\ replayed' = replayed \cup {m} /\ fate' = fate
      BY <3>1, Zenon DEF ReplayDeadLetter, DLQRemove, Restrict
    <3>3. DOMAIN dlqEntries' \cup replayed' = DOMAIN dlqEntries \cup replayed
      BY <3>2, Zenon
    <3> QED
      BY <3>2, <3>3, Zenon DEF Dead, Plain
  <2> QED
    BY <2>1, <2>2, Zenon
<1>3. Alive' = Alive /\ Pending' = Pending
  BY <1>1, <1>2, Zenon DEF Alive, Pending
<1> QED
  BY <1>1, <1>2, <1>3, QuietLedger, Zenon

\* A replayed message starts again, with the retries that it has left: all.
LEMMA ReplayPushAccounts ==
  ASSUME TInv, Scalars, DeliveriesAccounted, NEW m \in Messages, ReplayPush(m)
  PROVE  DeliveriesAccounted'
<1>1. /\ UNCHANGED <<pel, nacked, timedOut, dlqEntries, stats>>
      /\ m \in replayed /\ replayed' = replayed \ {m}
      /\ retryCount' = [retryCount EXCEPT ![m] = 0] /\ PushOrLose(m)
  BY Zenon DEF ReplayPush, dlqVars
<1>2. fate[m] = "live" /\ m \notin DOMAIN dlqEntries
  <2>1. PICK p \in PlaceNames, q \in Ends \cup Groups : At(m, p, q)
    BY Zenon DEF TInv, Homed
  <2> QED
    BY <1>1, <2>1, Zenon DEF At
<1>3. \A x \in Messages : QuietFate(x)
  BY <1>1, <1>2, PlacingIsQuiet, Zenon
<1>4. \A x \in Messages : /\ fate'[x] \in {"evicted", "purged"} <=> fate[x] \in {"evicted", "purged"}
                          /\ fate'[x] = "consumed" <=> fate[x] = "consumed"
  BY <1>3, Zenon DEF QuietFate
<1>5. Plain' = Plain
  BY <1>4, Zenon DEF Plain
<1>6. m \notin Alive /\ m \in Alive' /\ Alive' \in SUBSET Messages /\ Alive' \ {m} = Alive
  <2>1. m \in Dead
    BY <1>1, Zenon DEF Dead
  <2>2. m \notin Dead'
    BY <1>1, <1>2, <1>4, Zenon DEF Dead
  <2>3. \A x \in Messages \ {m} : x \in Dead' <=> x \in Dead
    BY <1>1, <1>4, Zenon DEF Dead
  <2> QED
    BY <2>1, <2>2, <2>3, Zenon DEF Alive
<1>7. /\ Numbers(retryCount, Messages) /\ Numbers(retryCount', Messages)
      /\ retryCount'[m] = 0 /\ \A x \in Messages \ {m} : retryCount'[x] = retryCount[x]
  BY <1>1, Zenon DEF Numbers, TInv, Shape
<1>8. PICK f : f = retryCount'
  BY Zenon
<1>9. PICK A : A = Alive'
  BY Zenon
<1>10. SumFunctionOnSet(f, A) = f[m] + SumFunctionOnSet(f, A \ {m})
  <2>1. A \in SUBSET Messages /\ m \in A /\ Numbers(f, Messages)
    BY <1>6, <1>7, <1>8, <1>9, Zenon
  <2> QED
    BY <2>1, MessagesMeasure, SumTakes
<1>11. SumFunctionOnSet(f, Alive) = SumFunctionOnSet(retryCount, Alive)
  <2>1. Alive \in SUBSET Messages /\ Numbers(f, Messages) /\ Numbers(retryCount, Messages)
    BY <1>7, <1>8, Zenon DEF Alive
  <2>2. \A x \in Alive : f[x] = retryCount[x]
    BY <1>6, <1>7, <1>8, <2>1, Zenon
  <2> QED
    BY <2>1, <2>2, MessagesMeasure, SumSame
<1>12. SumFunctionOnSet(retryCount', Alive') = 0 + SumFunctionOnSet(retryCount, Alive)
  BY <1>6, <1>7, <1>8, <1>9, <1>10, <1>11, Zenon
<1>13. SumFunctionOnSet(retryCount', Alive') = SumFunctionOnSet(retryCount, Alive)
  BY <1>12, CountedIsFinite
<1>14. Pending' = Pending
  BY <1>1, Zenon DEF Pending
<1>15. PICK c, a, p, q, n, t, d, s : Ledger(c, a, p, q, n, t, d, s)
  BY HasLedger, Zenon
<1>16. Ledger(c, a, p, q, n, t, d, s)'
  <2>1. /\ stats'.consumed = c /\ stats'.acked = a /\ stats'.deadLettered = d
        /\ Cardinality(Plain') = p /\ Cardinality(Pending') = q
        /\ Cardinality(nacked') = n /\ Cardinality(timedOut') = t
        /\ SumFunctionOnSet(retryCount', Alive') = s
    BY <1>1, <1>5, <1>13, <1>14, <1>15, Zenon DEF Ledger
  <2> QED
    BY <1>15, <2>1, Zenon DEF Ledger
<1>17. Balanced(c, a, p, q, n, t, d, s)
  BY <1>15, LedgerBalanced, Zenon
<1> QED
  BY <1>16, <1>17, BalancedNext, Zenon

\* The ledger when one failed delivery is routed: it becomes a retry, or its
\* message dies of it.
LEMMA RoutedAccounts ==
  ASSUME TInv, Scalars, DeliveriesAccounted, NEW m \in Messages,
         UNCHANGED <<pel, replayed>>,
         \/ m \in nacked /\ nacked' = nacked \ {m} /\ timedOut' = timedOut
         \/ m \in timedOut /\ timedOut' = timedOut \ {m} /\ nacked' = nacked,
         stats'.consumed = stats.consumed, stats'.acked = stats.acked,
         Plain' = Plain,
         \/ /\ stats'.deadLettered = stats.deadLettered
            /\ SumFunctionOnSet(retryCount', Alive') = SumFunctionOnSet(retryCount, Alive) + 1
         \/ /\ stats'.deadLettered = stats.deadLettered + 1
            /\ \E r \in Nat :
                 /\ r + 1 = MaxRetries
                 /\ SumFunctionOnSet(retryCount', Alive') \in Nat
                 /\ SumFunctionOnSet(retryCount, Alive) = r + SumFunctionOnSet(retryCount', Alive')
  PROVE  DeliveriesAccounted'
<1>1. Pending' = Pending
  BY Zenon DEF Pending
<1>2. PICK c, a, p, q, n, t, d, s : Ledger(c, a, p, q, n, t, d, s)
  BY HasLedger, Zenon
<1>3. Balanced(c, a, p, q, n, t, d, s)
  BY <1>2, LedgerBalanced, Zenon
<1>4. /\ IsFiniteSet(nacked) /\ IsFiniteSet(timedOut)
      /\ n = Cardinality(nacked) /\ t = Cardinality(timedOut)
  BY <1>2, CountedIsFinite, Zenon DEF Ledger
<1>5. /\ stats'.consumed = c /\ stats'.acked = a
      /\ Cardinality(Plain') = p /\ Cardinality(Pending') = q
  BY <1>1, <1>2, Zenon DEF Ledger
<1>6. \/ /\ Cardinality(nacked') = n - 1 /\ Cardinality(timedOut') = t /\ n - 1 \in Nat
      \/ /\ Cardinality(nacked') = n /\ Cardinality(timedOut') = t - 1 /\ t - 1 \in Nat
  <2>1. ASSUME NEW z, IsFiniteSet(z), m \in z
        PROVE  Cardinality(z \ {m}) = Cardinality(z) - 1 /\ Cardinality(z) - 1 \in Nat
    <3>1. IsFiniteSet(z \ {m}) /\ Cardinality(z \ {m}) = Cardinality(z) - 1
      BY <2>1, FS_RemoveElement, Zenon
    <3>2. Cardinality(z \ {m}) \in Nat
      BY <3>1, FS_CardinalityType, Zenon
    <3> QED
      BY <3>1, <3>2, Zenon
  <2> QED
    BY <1>4, <2>1, Zenon
<1>7. CASE /\ stats'.deadLettered = stats.deadLettered
           /\ SumFunctionOnSet(retryCount', Alive') = SumFunctionOnSet(retryCount, Alive) + 1
  <2>1. /\ stats'.deadLettered = d /\ SumFunctionOnSet(retryCount', Alive') = s + 1
    BY <1>2, <1>7, Zenon DEF Ledger
  <2>2. s + 1 \in Nat
    BY <1>2 DEF Ledger
  <2>3. \/ Ledger(c, a, p, q, n - 1, t, d, s + 1)'
        \/ Ledger(c, a, p, q, n, t - 1, d, s + 1)'
    BY <1>2, <1>5, <1>6, <2>1, <2>2, ZenonT(30) DEF Ledger
  <2>4. /\ Balanced(c, a, p, q, n - 1, t, d, s + 1)
        /\ Balanced(c, a, p, q, n, t - 1, d, s + 1)
    BY <1>2, <1>3, Transfers, Zenon DEF Ledger
  <2> QED
    BY <2>3, <2>4, BalancedNext, Zenon
<1>8. CASE /\ stats'.deadLettered = stats.deadLettered + 1
           /\ \E r \in Nat :
                /\ r + 1 = MaxRetries
                /\ SumFunctionOnSet(retryCount', Alive') \in Nat
                /\ SumFunctionOnSet(retryCount, Alive) = r + SumFunctionOnSet(retryCount', Alive')
  <2>1. PICK r \in Nat :
          /\ r + 1 = MaxRetries
          /\ SumFunctionOnSet(retryCount', Alive') \in Nat
          /\ SumFunctionOnSet(retryCount, Alive) = r + SumFunctionOnSet(retryCount', Alive')
    BY <1>8, Zenon
  <2>2. stats'.deadLettered = d + 1 /\ s = SumFunctionOnSet(retryCount, Alive) /\ s \in Nat
    BY <1>2, <1>8, Zenon DEF Ledger
  <2>3. SumFunctionOnSet(retryCount', Alive') = s - r /\ s - r \in Nat
    BY <2>1, <2>2
  <2>4. d + 1 \in Nat
    BY <1>2 DEF Ledger
  <2>5. \/ Ledger(c, a, p, q, n - 1, t, d + 1, s - r)'
        \/ Ledger(c, a, p, q, n, t - 1, d + 1, s - r)'
    BY <1>2, <1>5, <1>6, <2>2, <2>3, <2>4, ZenonT(30) DEF Ledger
  <2>6. /\ Balanced(c, a, p, q, n - 1, t, d + 1, s - r)
        /\ Balanced(c, a, p, q, n, t - 1, d + 1, s - r)
    BY <1>2, <1>3, <2>1, Transfers, Zenon DEF Ledger
  <2> QED
    BY <2>5, <2>6, BalancedNext, Zenon
<1> QED
  BY <1>7, <1>8, Zenon

\* A failed delivery is routed.
LEMMA RouteAccounts ==
  ASSUME TInv, Scalars, DeliveriesAccounted, NEW m \in Messages, NackRoute(m) \/ SweepRoute(m)
  PROVE  DeliveriesAccounted'
<1>1. /\ UNCHANGED <<pel, replayed>>
      /\ \/ m \in nacked /\ nacked' = nacked \ {m} /\ timedOut' = timedOut
         \/ m \in timedOut /\ timedOut' = timedOut \ {m} /\ nacked' = nacked
  <2>1. CASE NackRoute(m)
    BY <2>1, Zenon DEF NackRoute
  <2>2. CASE SweepRoute(m)
    BY <2>2, Zenon DEF SweepRoute
  <2> QED
    BY <2>1, <2>2, Zenon
<1>2. PICK w : /\ w = stats \/ w = [stats EXCEPT !.nacked = @ + 1]
               /\ RetryOrDeadLetter(m, w)
  BY Zenon DEF NackRoute, SweepRoute
<1>3. /\ w.consumed = stats.consumed /\ w.acked = stats.acked
      /\ w.deadLettered = stats.deadLettered
      /\ w \in [{"published", "consumed", "acked", "nacked", "deadLettered"} -> Nat]
  BY <1>2 DEF Scalars
<1>4. fate[m] = "live" /\ m \notin replayed /\ m \notin DOMAIN dlqEntries
  BY <1>1, PlacedIsLive, Zenon
<1>5. retryCount \in [Messages -> Nat] /\ retryCount[m] < MaxRetries
  BY <1>4, Zenon DEF TInv, Shape, InBudget
<1>6. retryCount' = [retryCount EXCEPT ![m] = @ + 1]
  BY <1>2, Zenon DEF RetryOrDeadLetter
<1>7. PICK f \in [Messages -> Nat] : f = retryCount'
  BY <1>5, <1>6
<1>8. f[m] = retryCount[m] + 1 /\ \A x \in Messages \ {m} : f[x] = retryCount[x]
  BY <1>5, <1>6, <1>7, Zenon
<1>9. Numbers(retryCount, Messages) /\ Numbers(f, Messages)
  BY <1>5, <1>7, Zenon DEF Numbers
<1>10. m \in Alive /\ Alive \in SUBSET Messages
  BY <1>4, Zenon DEF Alive, Dead
<1>11. CASE /\ f[m] < MaxRetries /\ ScheduleOrLose(m) /\ stats' = w /\ UNCHANGED dlqVars
  <2>1. \A x \in Messages : QuietFate(x)
    BY <1>4, <1>11, PlacingIsQuiet, Zenon
  <2>2. Alive' = Alive /\ Plain' = Plain
    BY <1>1, <1>11, <2>1, QuietSets, ZenonT(30) DEF dlqVars
  <2>3. \A x \in Alive \ {m} : retryCount[x] = f[x]
    BY <1>8, <1>10, Zenon
  <2>4. SumFunctionOnSet(f, Alive) + retryCount[m] = SumFunctionOnSet(retryCount, Alive) + f[m]
    BY <1>9, <1>10, <2>3, MessagesMeasure, SumChanges
  <2>5. SumFunctionOnSet(f, Alive) \in Nat /\ SumFunctionOnSet(retryCount, Alive) \in Nat
    BY <1>9, <1>10, MessagesMeasure, SumType, Zenon
  <2>6. SumFunctionOnSet(f, Alive) = SumFunctionOnSet(retryCount, Alive) + 1
    BY <1>5, <1>8, <2>4, <2>5
  <2>7. SumFunctionOnSet(retryCount', Alive') = SumFunctionOnSet(retryCount, Alive) + 1
    BY <1>7, <2>2, <2>6, Zenon
  <2> QED
    BY <1>1, <1>3, <1>11, <2>2, <2>7, RoutedAccounts, ZenonT(30)
<1>12. CASE /\ f[m] >= MaxRetries /\ DLQAdd(m, f[m]) /\ stats' = [w EXCEPT !.deadLettered = @ + 1]
            /\ fate' = Fate(DOMAIN dlqEntries \ DOMAIN dlqEntries', "evicted")
  <2>1. PICK r \in Nat : r = retryCount[m] /\ r + 1 = MaxRetries
    BY <1>5, <1>8, <1>12
  <2>2. /\ stats'.consumed = stats.consumed /\ stats'.acked = stats.acked
        /\ stats'.deadLettered = stats.deadLettered + 1
    BY <1>3, <1>12, Zenon
  <2>3. /\ DOMAIN EntriesKept \subseteq DOMAIN dlqEntries
        /\ DOMAIN dlqEntries' = DOMAIN EntriesKept \cup {m}
    BY <1>12, EvictionMakesRoom, Zenon DEF TInv, DLQAdd
  <2>4. \A x \in Messages : fate'[x] = IF x \in DOMAIN dlqEntries \ DOMAIN dlqEntries'
                                       THEN "evicted" ELSE fate[x]
    BY <1>12, Zenon DEF Fate
  <2>5. \A x \in Messages : x \in DOMAIN dlqEntries => fate[x] = "live"
    BY PlacedIsLive, Zenon
  <2>6. Plain' = Plain
    <3>1. \A x \in Messages : fate'[x] = "consumed" <=> fate[x] = "consumed"
      BY <2>4, <2>5, Zenon
    <3> QED
      BY <3>1, Zenon DEF Plain
  <2>7. Alive' = Alive \ {m}
    <3>1. ASSUME NEW x \in Messages
          PROVE  x \in Dead' <=> x = m \/ x \in Dead
      <4>1. /\ x \in Dead <=> \/ x \in DOMAIN dlqEntries \/ x \in replayed
                              \/ fate[x] = "evicted" \/ fate[x] = "purged"
            /\ x \in Dead' <=> \/ x \in DOMAIN dlqEntries' \/ x \in replayed
                               \/ fate'[x] = "evicted" \/ fate'[x] = "purged"
        BY <1>1, Zenon DEF Dead
      <4>2. CASE x \in DOMAIN dlqEntries \ DOMAIN dlqEntries'
        BY <2>4, <4>1, <4>2, Zenon
      <4>3. CASE x \notin DOMAIN dlqEntries \ DOMAIN dlqEntries'
        <5>1. fate'[x] = fate[x]
          BY <2>4, <4>3, Zenon
        <5>2. x \in DOMAIN dlqEntries' <=> x = m \/ x \in DOMAIN dlqEntries
          BY <2>3, <4>3, Zenon
        <5> QED
          BY <4>1, <5>1, <5>2, Zenon
      <4> QED
        BY <4>2, <4>3, Zenon
    <3> QED
      BY <3>1, Zenon DEF Alive
  <2>8. PICK A \in SUBSET Messages : A = Alive \ {m}
    BY <1>10, Zenon
  <2>9. SumFunctionOnSet(retryCount, Alive) = r + SumFunctionOnSet(retryCount, A)
    <3>1. SumFunctionOnSet(retryCount, Alive)
            = retryCount[m] + SumFunctionOnSet(retryCount, Alive \ {m})
      BY <1>9, <1>10, MessagesMeasure, SumTakes
    <3> QED
      BY <2>1, <2>8, <3>1, Zenon
  <2>10. SumFunctionOnSet(f, A) = SumFunctionOnSet(retryCount, A)
    <3>1. \A x \in A : f[x] = retryCount[x]
      BY <1>8, <1>10, <2>8, Zenon
    <3> QED
      BY <1>9, <2>8, <3>1, MessagesMeasure, SumSame
  <2>11. SumFunctionOnSet(f, A) \in Nat
    BY <1>9, <2>8, MessagesMeasure, SumType, Zenon
  <2>12. /\ SumFunctionOnSet(retryCount', Alive') \in Nat
         /\ SumFunctionOnSet(retryCount, Alive) = r + SumFunctionOnSet(retryCount', Alive')
    BY <1>7, <2>7, <2>8, <2>9, <2>10, <2>11, Zenon
  <2> QED
    BY <1>1, <2>1, <2>2, <2>6, <2>12, RoutedAccounts, ZenonT(30)
<1> QED
  BY <1>2, <1>7, <1>11, <1>12, Zenon DEF RetryOrDeadLetter

\* No delivery, and no account, at first.
LEMMA InitAccounts == Init => DeliveriesAccounted
<1> SUFFICES ASSUME Init
             PROVE  DeliveriesAccounted
  BY Zenon
<1>1. Plain = {} /\ Pending = {} /\ nacked = {} /\ timedOut = {}
  <2>1. \A x \in Messages, g \in Groups : pel[g][x] = "none" /\ fate[x] # "consumed"
    BY Zenon DEF Init
  <2> QED
    BY <2>1, Zenon DEF Plain, Pending, Init
<1>2. Alive = Messages
  BY DEF Alive, Dead, Init, DLQInit
<1>3. \A x \in Messages : retryCount[x] = 0
  BY Zenon DEF Init
<1>4. SumFunctionOnSet(retryCount, Messages) = 0
  BY <1>3, MessagesMeasure, SumOfZeros, Zenon
<1>5. stats.consumed = 0 /\ stats.acked = 0 /\ stats.deadLettered = 0
  BY Zenon DEF Init
<1>6. Cardinality({}) = 0
  BY FS_EmptySet, Zenon
<1>7. Ledger(0, 0, 0, 0, 0, 0, 0, 0)
  BY <1>1, <1>2, <1>4, <1>5, <1>6, Zenon DEF Ledger
<1>8. Balanced(0, 0, 0, 0, 0, 0, 0, 0)
  BY DEF Balanced
<1> QED
  BY <1>7, <1>8, LedgerBalanced, Zenon

\* Every step keeps the accounts.
LEMMA StepAccounts == TInv /\ Scalars /\ DeliveriesAccounted /\ [Next]_vars => DeliveriesAccounted'
<1> SUFFICES ASSUME TInv, Scalars, DeliveriesAccounted, [Next]_vars
             PROVE  DeliveriesAccounted'
  BY Zenon
<1>1. CASE \E m \in Messages :
             \/ \E end \in Ends : Publish(m, end) \/ PublishPush(m, end)
             \/ PublishDelayed(m)
  BY <1>1, PublishAccounts, Zenon
<1>2. CASE \E m \in Messages, g \in Groups :
             Checkout(m, g) \/ Ack(m, g) \/ Nack(m, g) \/ DeadlinePasses(m, g)
  BY <1>2, GroupAccounts, Zenon
<1>3. CASE \E m \in Messages : NackRoute(m) \/ SweepRoute(m)
  BY <1>3, RouteAccounts, Zenon
<1>4. CASE Purge \/ \E m \in Messages : ReplayDeadLetter(m)
  BY <1>4, DeadLettersAccounts, Zenon
<1>5. CASE \E m \in Messages : ReplayPush(m)
  BY <1>5, ReplayPushAccounts, Zenon
<1>6. CASE \/ \E g \in Groups : GetOrCreateGroup(g) \/ ConsumeGroup(g)
           \/ Advance \/ Close \/ UNCHANGED vars
  BY <1>6, MovesAccounts, Zenon
<1>7. CASE Consume \/ Dispatch \/ \E g \in Groups : SweepTimeouts(g)
  BY <1>7, ConsumeAccounts, DispatchAccounts, SweepAccounts, Zenon
<1> QED
  BY <1>1, <1>2, <1>3, <1>4, <1>5, <1>6, <1>7, Zenon DEF Next, Ends

(***************************************************************************)
(* The counters explain every delivery, in every state: of the deliveries  *)
(* that stats.consumed counts, each was consumed outright, acknowledged,   *)
(* is pending or being routed, or has cost its message a retry; and each   *)
(* dead letter stands for MaxRetries of them, evicted, purged or replayed  *)
(* as it may be.                                                           *)
(***************************************************************************)
THEOREM AccountsBalance == Spec => []DeliveriesAccounted
BY AlwaysTInv, InitScalars, StepScalars, InitAccounts, StepAccounts, PTL DEF Spec
=============================================================================
