------------------------------- MODULE Topic --------------------------------
(***************************************************************************)
(* One topic: the life of its messages (internal/queue/topic.go,           *)
(* consumer_group.go).  A message is published into the ring buffer or, if *)
(* delayed, into the timing wheel; consumer groups check messages out into *)
(* their pending entries list (PEL); an acknowledgement settles a message, *)
(* a negative one or an expired deadline sends it through the wheel back   *)
(* to the ring or, after MaxRetries attempts, to the dead letter queue.    *)
(*                                                                         *)
(* The topic is composed of the ring buffer as MessageDeque specifies it,  *)
(* the timing wheel as a set of scheduled messages (TimingWheel has its    *)
(* slots and rounds), and DeadLetterQueue.                                 *)
(*                                                                         *)
(* A client's call runs in its own goroutine.  Between two critical        *)
(* sections of a call the message is held only by that goroutine; the      *)
(* variables publishing, popped, nacked, timedOut, due and replayed are    *)
(* these places.  The atomic counters change in the step before them.      *)
(***************************************************************************)
EXTENDS DequeOps, DeadLetterQueue

CONSTANTS
  Groups,       \* consumer group names
  RingMax,      \* capacity at which the ring drops, 16777216 in the code
  MaxReplays    \* bound on the calls of ReplayDeadLetter

ASSUME RingMaxAssumption == RingMax \in Nat \ {0}
ASSUME MaxReplaysAssumption == MaxReplays \in Nat
ASSUME FiniteAssumption == IsFiniteSet(Messages) /\ IsFiniteSet(Groups)

VARIABLES
  ring,         \* the ring buffer's messages, oldest first
  groups,       \* the consumer groups that exist
  pel,          \* per group: the state of each message in its PEL
  wheel,        \* messages scheduled in the timing wheel
  retryCount,   \* the RetryCount field of each message
  closing,      \* how far Close has come
  publishing,   \* <<m, end>>: accepted by Publish, not yet in the ring
  popped,       \* <<m, g>>: popped by ConsumeGroup, not yet checked out
  nacked,       \* removed from a PEL by Nack, not yet routed
  timedOut,     \* removed from a PEL by the sweep, not yet routed
  due,          \* expired in the wheel, not yet pushed, in this order
  replayed,     \* removed from the DLQ by a replay, not yet pushed
  replays,      \* number of replays so far
  stats,        \* the topic's counters
  fate          \* history: how a message left the topic, if it did

topicVars == <<ring, groups, pel, wheel, retryCount, closing, publishing, popped,
               nacked, timedOut, due, replayed, replays, stats, fate>>
vars == <<topicVars, dlqVars>>

\* Close sets t.closed, closes the ring and stops the wheel, holding t.mu.
closed == closing # "open"
ringClosed == closing \in {"ring", "wheel"}
wheelStopped == closing = "wheel"
topicLocked == closing \in {"topic", "ring"}

Init ==
  /\ ring = <<>>
  /\ groups = {}
  /\ pel = [g \in Groups |-> [m \in Messages |-> "none"]]
  /\ wheel = {}
  /\ retryCount = [m \in Messages |-> 0]
  /\ closing = "open"
  /\ publishing = {}
  /\ popped = {}
  /\ nacked = {}
  /\ timedOut = {}
  /\ due = <<>>
  /\ replayed = {}
  /\ replays = 0
  /\ stats = [published |-> 0, consumed |-> 0, acked |-> 0, nacked |-> 0,
              deadLettered |-> 0]
  /\ fate = [m \in Messages |-> "new"]
  /\ DLQInit

-----------------------------------------------------------------------------
(* The pieces actions are made of.                                         *)

Bump(counter) == stats' = [stats EXCEPT ![counter] = @ + 1]

\* Record that the messages of S left the topic (or, "live", are in it).
Fate(S, f) == [m \in Messages |-> IF m \in S THEN f ELSE fate[m]]

\* The ring becomes q, which holds m; what it no longer holds was dropped.
RingBecomes(q, m) ==
  /\ ring' = q
  /\ fate' = [x \in Messages |-> IF x = m THEN "live"
                                 ELSE IF x \in Range(ring) \ Range(q) THEN "overrun"
                                 ELSE fate[x]]

\* ring.Push whose result is ignored: a closed ring loses the message.
PushOrLose(m) ==
  \/ /\ ~ringClosed
     /\ RingBecomes(Pushed(ring, m, RingMax), m)
  \/ /\ ringClosed
     /\ fate' = Fate({m}, "lost")
     /\ UNCHANGED ring

\* tw.Add with a positive delay: a stopped wheel loses the message.
ScheduleOrLose(m) ==
  \/ /\ ~wheelStopped
     /\ wheel' = wheel \cup {m}
     /\ fate' = Fate({m}, "live")
  \/ /\ wheelStopped
     /\ fate' = Fate({m}, "lost")
     /\ UNCHANGED wheel

\* A delivery of m has failed: count it, then retry or dead-letter.  The
\* counters start from s.
RetryOrDeadLetter(m, s) ==
  /\ retryCount' = [retryCount EXCEPT ![m] = @ + 1]
  /\ \/ /\ retryCount'[m] >= MaxRetries
        /\ DLQAdd(m, retryCount'[m])
        /\ stats' = [s EXCEPT !.deadLettered = @ + 1]
        /\ fate' = Fate(DOMAIN dlqEntries \ DOMAIN dlqEntries', "evicted")
        /\ UNCHANGED wheel
     \/ /\ retryCount'[m] < MaxRetries
        /\ ScheduleOrLose(m)
        /\ stats' = s
        /\ UNCHANGED dlqVars

-----------------------------------------------------------------------------
(* Publishing.                                                             *)

\* Publish ("back") and PublishFront ("front"): the check of t.closed ...
Publish(m, end) ==
  /\ fate[m] = "new"
  /\ ~topicLocked
  /\ \/ /\ closed
        /\ fate' = Fate({m}, "rejected")
        /\ UNCHANGED publishing
     \/ /\ ~closed
        /\ publishing' = publishing \cup {<<m, end>>}
        /\ fate' = Fate({m}, "live")
  /\ UNCHANGED <<ring, groups, pel, wheel, retryCount, closing, popped, nacked,
                 timedOut, due, replayed, replays, stats, dlqVars>>

\* ... and, with t.mu released, the push.
PublishPush(m, end) ==
  /\ <<m, end>> \in publishing
  /\ publishing' = publishing \ {<<m, end>>}
  /\ \/ /\ ringClosed
        /\ fate' = Fate({m}, "rejected")
        /\ UNCHANGED <<ring, stats>>
     \/ /\ ~ringClosed
        /\ RingBecomes(IF end = "back" THEN Pushed(ring, m, RingMax)
                                       ELSE PushedFront(ring, m, RingMax), m)
        /\ Bump("published")
  /\ UNCHANGED <<groups, pel, wheel, retryCount, closing, popped, nacked,
                 timedOut, due, replayed, replays, dlqVars>>

\* PublishDelayed does not look at t.closed.
PublishDelayed(m) ==
  /\ fate[m] = "new"
  /\ Bump("published")
  /\ ScheduleOrLose(m)
  /\ UNCHANGED <<ring, groups, pel, retryCount, closing, publishing, popped,
                 nacked, timedOut, due, replayed, replays, dlqVars>>

-----------------------------------------------------------------------------
(* Consuming.                                                              *)

\* Consume and ConsumeWait, when they return a message.
Consume ==
  /\ ring # <<>>
  /\ ring' = Tail(ring)
  /\ fate' = Fate({Head(ring)}, "consumed")
  /\ Bump("consumed")
  /\ UNCHANGED <<groups, pel, wheel, retryCount, closing, publishing, popped,
                 nacked, timedOut, due, replayed, replays, dlqVars>>

GetOrCreateGroup(g) ==
  /\ ~topicLocked
  /\ groups' = groups \cup {g}
  /\ UNCHANGED <<ring, pel, wheel, retryCount, closing, publishing, popped,
                 nacked, timedOut, due, replayed, replays, stats, fate, dlqVars>>

\* ConsumeGroup after GetOrCreateGroup: the pop ...
ConsumeGroup(g) ==
  /\ g \in groups
  /\ ring # <<>>
  /\ ring' = Tail(ring)
  /\ popped' = popped \cup {<<Head(ring), g>>}
  /\ UNCHANGED <<groups, pel, wheel, retryCount, closing, publishing, nacked,
                 timedOut, due, replayed, replays, stats, fate, dlqVars>>

\* ... and the entry in the PEL, with a fresh deadline.
Checkout(m, g) ==
  /\ <<m, g>> \in popped
  /\ popped' = popped \ {<<m, g>>}
  /\ pel' = [pel EXCEPT ![g][m] = "pending"]
  /\ Bump("consumed")
  /\ UNCHANGED <<ring, groups, wheel, retryCount, closing, publishing, nacked,
                 timedOut, due, replayed, replays, fate, dlqVars>>

\* Anyone who knows the ID may acknowledge: the entry's consumer is not checked.
Ack(m, g) ==
  /\ pel[g][m] # "none"
  /\ pel' = [pel EXCEPT ![g][m] = "none"]
  /\ fate' = Fate({m}, "acked")
  /\ Bump("acked")
  /\ UNCHANGED <<ring, groups, wheel, retryCount, closing, publishing, popped,
                 nacked, timedOut, due, replayed, replays, dlqVars>>

\* Slip: the entry stays in the PEL.
NackKeepsEntry(m, g) ==
  /\ pel[g][m] # "none"
  /\ nacked' = nacked \cup {m}
  /\ UNCHANGED <<ring, groups, pel, wheel, retryCount, closing, publishing,
                 popped, timedOut, due, replayed, replays, stats, fate, dlqVars>>

\* Nack removes the entry with cg.mu held ...
Nack(m, g) ==
  /\ pel[g][m] # "none"
  /\ pel' = [pel EXCEPT ![g][m] = "none"]
  /\ nacked' = nacked \cup {m}
  /\ UNCHANGED <<ring, groups, wheel, retryCount, closing, publishing, popped,
                 timedOut, due, replayed, replays, stats, fate, dlqVars>>

\* ... and routes the message with cg.mu released.
NackRoute(m) ==
  /\ m \in nacked
  /\ nacked' = nacked \ {m}
  /\ RetryOrDeadLetter(m, [stats EXCEPT !.nacked = @ + 1])
  /\ UNCHANGED <<ring, groups, pel, closing, publishing, popped, timedOut, due,
                 replayed, replays>>

\* now >= AckDeadline becomes true of an entry.
DeadlinePasses(m, g) ==
  /\ pel[g][m] = "pending"
  /\ pel' = [pel EXCEPT ![g][m] = "expired"]
  /\ UNCHANGED <<ring, groups, wheel, retryCount, closing, publishing, popped,
                 nacked, timedOut, due, replayed, replays, stats, fate, dlqVars>>

\* Slip: the comparison with the deadline is the wrong way round.
SweepTimeoutsInverted(g) ==
  /\ g \in groups
  /\ timedOut = {}
  /\ timedOut' = {m \in Messages : pel[g][m] = "pending"}
  /\ pel' = [pel EXCEPT ![g] = [m \in Messages |->
               IF pel[g][m] = "pending" THEN "none" ELSE pel[g][m]]]
  /\ UNCHANGED <<ring, groups, wheel, retryCount, closing, publishing, popped,
                 nacked, due, replayed, replays, stats, fate, dlqVars>>

\* The sweeper, done with the previous group, collects a group's expired entries.
SweepTimeouts(g) ==
  /\ g \in groups
  /\ timedOut = {}
  /\ timedOut' = {m \in Messages : pel[g][m] = "expired"}
  /\ pel' = [pel EXCEPT ![g] = [m \in Messages |->
               IF pel[g][m] = "expired" THEN "none" ELSE pel[g][m]]]
  /\ UNCHANGED <<ring, groups, wheel, retryCount, closing, publishing, popped,
                 nacked, due, replayed, replays, stats, fate, dlqVars>>

\* Slip: a timeout is not counted as an attempt.
SweepRouteUncounted(m) ==
  /\ m \in timedOut
  /\ timedOut' = timedOut \ {m}
  /\ ScheduleOrLose(m)
  /\ UNCHANGED <<ring, groups, pel, retryCount, closing, publishing, popped,
                 nacked, due, replayed, replays, stats, dlqVars>>

SweepRoute(m) ==
  /\ m \in timedOut
  /\ timedOut' = timedOut \ {m}
  /\ RetryOrDeadLetter(m, stats)
  /\ UNCHANGED <<ring, groups, pel, closing, publishing, popped, nacked, due,
                 replayed, replays>>
-----------------------------------------------------------------------------
(* The timing wheel's goroutine.                                           *)

\* advance takes what has expired off the wheel with tw.mu held (after Stop a
\* tick already under way can still do so) ...
Advance ==
  /\ due = <<>>
  /\ \E S \in SUBSET wheel \ {{}} :
       /\ due' \in Bijection(1..Cardinality(S), S)
       /\ wheel' = wheel \ S
  /\ UNCHANGED <<ring, groups, pel, retryCount, closing, publishing, popped,
                 nacked, timedOut, replayed, replays, stats, fate, dlqVars>>

\* ... and hands it to onExpire, message by message, with tw.mu released.
Dispatch ==
  /\ due # <<>>
  /\ due' = Tail(due)
  /\ PushOrLose(Head(due))
  /\ UNCHANGED <<groups, pel, wheel, retryCount, closing, publishing, popped,
                 nacked, timedOut, replayed, replays, stats, dlqVars>>

-----------------------------------------------------------------------------
(* The dead letter queue's operators.                                      *)

\* ReplayDeadLetter takes the message out of the DLQ ...
ReplayDeadLetter(m) ==
  /\ replays < MaxReplays
  /\ replays' = replays + 1
  /\ DLQRemove(m)
  /\ replayed' = replayed \cup {m}
  /\ UNCHANGED <<ring, groups, pel, wheel, retryCount, closing, publishing,
                 popped, nacked, timedOut, due, stats, fate>>

\* Slip: the retries are not reset.
ReplayPushUnreset(m) ==
  /\ m \in replayed
  /\ replayed' = replayed \ {m}
  /\ PushOrLose(m)
  /\ UNCHANGED <<groups, pel, wheel, retryCount, closing, publishing, popped,
                 nacked, timedOut, due, replays, stats, dlqVars>>

\* ... then resets its retries and pushes it, whether or not the ring accepts it.
ReplayPush(m) ==
  /\ m \in replayed
  /\ replayed' = replayed \ {m}
  /\ retryCount' = [retryCount EXCEPT ![m] = 0]
  /\ PushOrLose(m)
  /\ UNCHANGED <<groups, pel, wheel, closing, publishing, popped, nacked,
                 timedOut, due, replays, stats, dlqVars>>

Purge ==
  /\ DLQPurge
  /\ fate' = Fate(DOMAIN dlqEntries, "purged")
  /\ UNCHANGED <<ring, groups, pel, wheel, retryCount, closing, publishing,
                 popped, nacked, timedOut, due, replayed, replays, stats>>

-----------------------------------------------------------------------------
\* Close: t.closed, then ring.Close, then tw.Stop, all with t.mu held.
Close ==
  /\ closing' = CASE closing = "open" -> "topic"
                  [] closing = "topic" -> "ring"
                  [] OTHER -> "wheel"
  /\ UNCHANGED <<ring, groups, pel, wheel, retryCount, publishing, popped,
                 nacked, timedOut, due, replayed, replays, stats, fate, dlqVars>>

-----------------------------------------------------------------------------
Next ==
  \/ \E m \in Messages :
       \/ \E end \in {"back", "front"} : Publish(m, end) \/ PublishPush(m, end)
       \/ PublishDelayed(m)
       \/ \E g \in Groups : \/ Checkout(m, g)
                            \/ Ack(m, g)
                            \/ Nack(m, g)
                            \/ DeadlinePasses(m, g)
       \/ NackRoute(m)
       \/ SweepRoute(m)
       \/ ReplayDeadLetter(m)
       \/ ReplayPush(m)
  \/ \E g \in Groups : GetOrCreateGroup(g) \/ ConsumeGroup(g) \/ SweepTimeouts(g)
  \/ Consume
  \/ Advance
  \/ Dispatch
  \/ Purge
  \/ Close

Spec == Init /\ [][Next]_vars

(***************************************************************************)
(* Goroutines that have work go on with it; time passes; the wheel's       *)
(* ticker and the sweeper's tick, and every sweep visits every group.      *)
(* Some worker keeps calling ConsumeGroup.  Nobody has to publish,         *)
(* acknowledge, reject, replay, purge or close.                            *)
(***************************************************************************)
Fairness ==
  /\ \A m \in Messages :
       /\ \A end \in {"back", "front"} : WF_vars(PublishPush(m, end))
       /\ \A g \in Groups : WF_vars(Checkout(m, g)) /\ WF_vars(DeadlinePasses(m, g))
       /\ WF_vars(NackRoute(m))
       /\ WF_vars(SweepRoute(m))
       /\ WF_vars(ReplayPush(m))
  /\ \A g \in Groups : SF_vars(SweepTimeouts(g))
  /\ WF_vars(\E g \in Groups : GetOrCreateGroup(g))
  /\ WF_vars(\E g \in Groups : ConsumeGroup(g))
  /\ WF_vars(Advance)
  /\ WF_vars(Dispatch)

FairSpec == Spec /\ Fairness

-----------------------------------------------------------------------------
(* Properties.                                                             *)

Fates == {"new", "live", "rejected", "consumed", "acked", "overrun", "evicted",
          "purged", "lost"}

\* Type invariant, with the bounds of the dead letter queue's entries.
TypeOK ==
  /\ ring \in Seq(Messages)
  /\ groups \subseteq Groups
  /\ pel \in [Groups -> [Messages -> {"none", "pending", "expired"}]]
  /\ wheel \subseteq Messages
  /\ retryCount \in [Messages -> Nat]
  /\ closing \in {"open", "topic", "ring", "wheel"}
  /\ publishing \subseteq Messages \X {"back", "front"}
  /\ popped \subseteq Messages \X Groups
  /\ nacked \subseteq Messages
  /\ timedOut \subseteq Messages
  /\ due \in Seq(Messages)
  /\ replayed \subseteq Messages
  /\ replays \in 0..MaxReplays
  /\ stats \in [{"published", "consumed", "acked", "nacked", "deadLettered"} -> Nat]
  /\ fate \in [Messages -> Fates]
  /\ DLQTypeOK

\* Everything that holds a reference to m, one element per reference.
Homes(m) ==
  {<<"ring", i>> : i \in {i \in DOMAIN ring : ring[i] = m}}
  \cup {<<"due", i>> : i \in {i \in DOMAIN due : due[i] = m}}
  \cup {<<"publishing", p>> : p \in {p \in publishing : p[1] = m}}
  \cup {<<"popped", p>> : p \in {p \in popped : p[1] = m}}
  \cup {<<"pel", g>> : g \in {g \in Groups : pel[g][m] # "none"}}
  \cup {<<"dlq", i>> : i \in {i \in DOMAIN dlqOrder : dlqOrder[i] = m}}
  \cup {<<"in", s>> : s \in {s \in {"wheel", "nacked", "timedOut", "replayed"} :
                               m \in CASE s = "wheel" -> wheel
                                       [] s = "nacked" -> nacked
                                       [] s = "timedOut" -> timedOut
                                       [] s = "replayed" -> replayed}}

(***************************************************************************)
(* A message that has been accepted and has not left is in exactly one     *)
(* place, and one that has left is nowhere: no call loses it between two   *)
(* critical sections, and no race of Ack, Nack, the sweep, the wheel and a *)
(* replay leaves two references, from which it would be delivered twice.   *)
(***************************************************************************)
ExactlyOneHome ==
  \A m \in Messages :
    Cardinality(Homes(m)) = IF fate[m] = "live" THEN 1 ELSE 0

(***************************************************************************)
(* A message on its way to a consumer has attempts left; one that is dead  *)
(* has used exactly MaxRetries, and its entry says so.                     *)
(***************************************************************************)
RetryBudget ==
  \A m \in Messages :
    IF m \in DOMAIN dlqEntries \cup replayed
    THEN /\ retryCount[m] = MaxRetries
         /\ m \in DOMAIN dlqEntries => dlqEntries[m] = MaxRetries
    ELSE fate[m] = "live" => retryCount[m] < MaxRetries

(***************************************************************************)
(* The counters explain every delivery: a delivery is consumed outright,   *)
(* acknowledged, still pending or being routed, or has cost its message    *)
(* one retry; and a dead letter has cost MaxRetries of them.               *)
(***************************************************************************)
DeliveriesAccounted ==
  LET dead == {m \in Messages : m \in DOMAIN dlqEntries \cup replayed
                                \/ fate[m] \in {"evicted", "purged"}}
      pending == {p \in Messages \X Groups : pel[p[2]][p[1]] # "none"}
      plain == {m \in Messages : fate[m] = "consumed"}
  IN  stats.consumed = stats.acked + Cardinality(plain) + Cardinality(pending)
                       + Cardinality(nacked) + Cardinality(timedOut)
                       + MaxRetries * stats.deadLettered
                       + SumFunctionOnSet(retryCount, Messages \ dead)

(***************************************************************************)
(* Whatever workers do with their deliveries, hanging or crashing          *)
(* included, every accepted message gets somewhere: it is settled or ends  *)
(* in the dead letter queue, unless the topic is closed meanwhile          *)
(* ("automatically recovered and reassigned", README.md:86).               *)
(***************************************************************************)
EveryMessageSettles ==
  \A m \in Messages :
    (fate[m] = "live") ~> (fate[m] # "live" \/ m \in DOMAIN dlqEntries \/ closed)
=============================================================================
