-------------------------- MODULE DeadLetterQueue ---------------------------
(***************************************************************************)
(* The bounded store of failed messages (internal/queue/dlq.go): a map     *)
(* from message ID to entry and, beside it, a slice of the IDs in the      *)
(* order of their arrival.  Of an entry only the Attempts field is kept.   *)
(* Each method holds dlq.mu throughout, so each is one action.             *)
(***************************************************************************)
EXTENDS Naturals, Sequences, FiniteSets, Functions

CONSTANTS
  Messages,     \* message IDs
  DLQMaxSize,   \* 50000 in the code
  MaxRetries    \* 3 in the code: RetryCount of a message that is added

ASSUME DLQMaxSizeAssumption == DLQMaxSize \in Nat \ {0}
ASSUME MaxRetriesAssumption == MaxRetries \in Nat \ {0}

VARIABLES
  dlqEntries,   \* ID -> Attempts
  dlqOrder      \* the IDs, oldest first

dlqVars == <<dlqEntries, dlqOrder>>

DLQInit ==
  /\ dlqEntries = <<>>
  /\ dlqOrder = <<>>

\* Slips: > instead of >= in the test for a full queue; one entry too early.
DLQEvictsLate ==
  Cardinality(DOMAIN dlqEntries) > DLQMaxSize /\ Len(dlqOrder) > 0

DLQEvictsEarly ==
  Cardinality(DOMAIN dlqEntries) >= DLQMaxSize - 1 /\ Len(dlqOrder) > 0

\* Whether an insertion evicts the oldest entry first, and what it leaves.
DLQEvicts ==
  Cardinality(DOMAIN dlqEntries) >= DLQMaxSize /\ Len(dlqOrder) > 0

EntriesKept ==
  IF DLQEvicts THEN Restrict(dlqEntries, DOMAIN dlqEntries \ {Head(dlqOrder)})
               ELSE dlqEntries

OrderKept == IF DLQEvicts THEN Tail(dlqOrder) ELSE dlqOrder

\* Slip: RetryCount, which already counts the last failure, plus one.
DLQAddCountsTwice(id, attempts) ==
  /\ dlqOrder' = IF id \in DOMAIN EntriesKept THEN OrderKept
                                              ELSE Append(OrderKept, id)
  /\ dlqEntries' = [x \in DOMAIN EntriesKept \cup {id} |->
                      IF x = id THEN attempts + 1 ELSE EntriesKept[x]]

DLQAdd(id, attempts) ==
  /\ dlqOrder' = IF id \in DOMAIN EntriesKept THEN OrderKept
                                              ELSE Append(OrderKept, id)
  /\ dlqEntries' = [x \in DOMAIN EntriesKept \cup {id} |->
                      IF x = id THEN attempts ELSE EntriesKept[x]]

\* Slip: the slice keeps the ID.
DLQRemoveKeepsOrder(id) ==
  /\ id \in DOMAIN dlqEntries
  /\ dlqEntries' = Restrict(dlqEntries, DOMAIN dlqEntries \ {id})
  /\ UNCHANGED dlqOrder

\* The slice s without the first e in it.
Without(s, e) ==
  LET found == {i \in DOMAIN s : s[i] = e}
      first == CHOOSE i \in found : \A j \in found : i <= j
  IN  IF found = {} THEN s
      ELSE SubSeq(s, 1, first - 1) \o SubSeq(s, first + 1, Len(s))

DLQRemove(id) ==
  /\ id \in DOMAIN dlqEntries
  /\ dlqEntries' = Restrict(dlqEntries, DOMAIN dlqEntries \ {id})
  /\ dlqOrder' = Without(dlqOrder, id)

DLQPurge ==
  /\ dlqEntries' = <<>>
  /\ dlqOrder' = <<>>

\* Where a page that starts after offset ends.
PageEnd(offset, limit) ==
  IF offset + limit > Len(dlqOrder) THEN Len(dlqOrder) ELSE offset + limit

\* Slip: the page ends one entry early.
DLQListShort(offset, limit) ==
  IF offset >= Len(dlqOrder) THEN <<>>
  ELSE SubSeq(dlqOrder, offset + 1, PageEnd(offset, limit) - 1)

\* The loop of List over the slice's indices offset..end-1, n of them done:
\* IDs without an entry are skipped.
Listed(offset, end) ==
  LET result[n \in 0..(end - offset)] ==
        IF n = 0 THEN <<>>
        ELSE IF dlqOrder[offset + n] \in DOMAIN dlqEntries
             THEN Append(result[n - 1], dlqOrder[offset + n])
             ELSE result[n - 1]
  IN  result

\* List: the IDs on one page, oldest first.
DLQList(offset, limit) ==
  IF offset >= Len(dlqOrder) THEN <<>>
  ELSE Listed(offset, PageEnd(offset, limit))[PageEnd(offset, limit) - offset]

DLQNext ==
  \/ \E id \in Messages :
       \/ \E attempts \in 1..MaxRetries : DLQAdd(id, attempts)
       \/ DLQRemove(id)
  \/ DLQPurge

DLQSpec == DLQInit /\ [][DLQNext]_dlqVars

-----------------------------------------------------------------------------
\* Type invariant: an entry has been attempted at least once and at most
\* MaxRetries times, and the store never exceeds its capacity.
DLQTypeOK ==
  /\ dlqOrder \in Seq(Messages)
  /\ dlqEntries \in [DOMAIN dlqEntries -> 1..MaxRetries]
  /\ DOMAIN dlqEntries \subseteq Messages
  /\ Cardinality(DOMAIN dlqEntries) <= DLQMaxSize

(***************************************************************************)
(* The map and the slice hold the same IDs, each once, after any sequence  *)
(* of insertions (of a present ID too), evictions, removals and purges.    *)
(***************************************************************************)
OrderMatchesEntries ==
  /\ IsInjective(dlqOrder)
  /\ Range(dlqOrder) = DOMAIN dlqEntries

(***************************************************************************)
(* A step that stores an entry takes away at most the oldest one, and none *)
(* at all while there is room ("If at capacity, evict oldest", dlq.go:41). *)
(***************************************************************************)
EvictsOnlyOldest ==
  [][LET stored == {id \in DOMAIN dlqEntries' :
                      id \notin DOMAIN dlqEntries \/ dlqEntries'[id] # dlqEntries[id]}
         lost == DOMAIN dlqEntries \ DOMAIN dlqEntries'
     IN  stored # {} /\ lost # {} =>
           /\ lost = {Head(dlqOrder)}
           /\ Cardinality(DOMAIN dlqEntries) = DLQMaxSize]_dlqVars

\* What a client has after reading n pages of size limit, one after the other.
PagesRead(limit) ==
  LET read[n \in 0..(Len(dlqOrder) + 1)] ==
        IF n = 0 THEN <<>> ELSE read[n - 1] \o DLQList((n - 1) * limit, limit)
  IN  read

(***************************************************************************)
(* Reading the queue page by page shows every entry exactly once, in the   *)
(* order of the queue, and nothing after it.                               *)
(***************************************************************************)
PagesCoverQueue ==
  \A limit \in 1..Len(dlqOrder) : PagesRead(limit)[Len(dlqOrder) + 1] = dlqOrder
=============================================================================
