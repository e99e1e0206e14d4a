------------------------------- MODULE Broker -------------------------------
(***************************************************************************)
(* The broker over its topics and its log (internal/queue/broker.go), the  *)
(* HTTP handlers that call it (internal/api/server.go) and the recovery in *)
(* main (cmd/vortexmq/main.go).                                            *)
(*                                                                         *)
(* A publish takes its topic under b.mu, appends to the log, pushes into   *)
(* the topic and counts, in four steps under no common lock.  Publishers,  *)
(* consumers, the sweeper, the wheels, Close and a restart interleave.     *)
(*                                                                         *)
(* A topic is reduced to its ring and the place of each message: Topic     *)
(* shows that there is one place, counts the retries and drops at the      *)
(* capacity.  The log is the sequence of the records it has been given.    *)
(* WAL has its buffer, files, segments and rotation; here the operating    *)
(* system either does all that a call of the log asks for, or some flush,  *)
(* sync or open fails and the call goes on, as it ignores such errors.     *)
(***************************************************************************)
EXTENDS Integers, FiniteSets, Sequences, Functions

CONSTANTS
  Messages,
  Topics,
  MaxBatch      \* bound on the payloads of a batch

ASSUME BrokerAssumption == MaxBatch \in Nat
ASSUME FiniteAssumption == IsFiniteSet(Messages) /\ IsFiniteSet(Topics)

VARIABLES
  policy,       \* "off" (no log), "always" or "everysec", for a process
  log,          \* the publish records it was given, after those it has replayed
  synced,       \* how many of them the next recovery is certain to find; none is
                \* taken to be certain once the log is not trusted
  trusted,      \* the log was new and has met no error: its files have all of it
  logState,     \* "off", "open", "broken" (refuses all records) or "closed"
  topics,       \* per topic: "absent", "open" or "closed"
  ring,         \* per topic: its ring, oldest first
  at,           \* where each message is; "gone" if settled, purged or lost
  call,         \* how far the publish call of each message has come; "failed"
                \* also if a restart has cut it off or lost the message
  kind,         \* which publish it is; "back" for all that a recovery publishes
  topicOf,      \* its topic
  batch,        \* the messages of the PublishBatch call under way
  closing,      \* Close: "no", "topics" (holding b.mu) or "done"
  published,    \* per topic: its published counter
  totalPublished,
  recovered,    \* history: messages pushed by the recovery of this process
  taken,        \* history: messages a group of this process has had
  precedes,     \* history: <<x, m>>, x was confirmed before m was sent to its topic;
                \* forgotten when a log that two processes wrote is replayed
  first         \* history: this is the first process that writes the log

logVars == <<policy, log, synced, trusted, logState>>
topicVars == <<topics, ring, at, published>>
callVars == <<call, kind, topicOf, batch, totalPublished>>
histVars == <<recovered, taken, precedes, first>>
vars == <<logVars, topicVars, callVars, closing, histVars>>

\* Sequences of different messages: what a batch may publish, and a log may hold.
Batches == UNION {Injection(1..n, Messages) : n \in 1..MaxBatch}
Logs == UNION {Injection(1..n, Messages) : n \in 0..Cardinality(Messages)}

Kinds == {"back", "front", "delayed", "batch"}

Init ==
  /\ policy \in {"off", "always", "everysec"}
  /\ log = <<>>
  /\ synced = 0
  /\ trusted = TRUE
  /\ logState = IF policy = "off" THEN "off" ELSE "open"
  /\ topics = [t \in Topics |-> "absent"]
  /\ ring = [t \in Topics |-> <<>>]
  /\ at = [m \in Messages |-> "none"]
  /\ published = [t \in Topics |-> 0]
  /\ call = [m \in Messages |-> "idle"]
  /\ kind = [m \in Messages |-> "none"]
  /\ topicOf = [m \in Messages |-> "none"]
  /\ batch = <<>>
  /\ totalPublished = 0
  /\ closing = "no"
  /\ recovered = 0
  /\ taken = {}
  /\ precedes = {}
  /\ first = TRUE

-----------------------------------------------------------------------------
(* The pieces actions are made of.                                         *)

\* Close holds b.mu: GetTopic, GetOrCreateTopic and TopicsList wait for it.
locked == closing = "topics"

\* b.topics when the topic t is asked for; a closed broker creates it, too.
GetOrCreateTopic(t) ==
  /\ ~locked
  /\ topics' = [topics EXCEPT ![t] = IF @ = "absent" THEN "open" ELSE @]

(***************************************************************************)
(* writeRecord on an open log that has the records l then.  Policy always  *)
(* syncs them, and so does a rotation.  No error after the write to the    *)
(* buffer is looked at: a failed flush makes the buffer refuse all further *)
(* records, unless a rotation replaces it; a failed sync shows nowhere;    *)
(* after a rotation that cannot open its file the next record is lost, and *)
(* then the log accepts again or, the rotation failing again, refuses.     *)
(***************************************************************************)
WriteRecord(l) ==
  /\ logState = "open"
  /\ log' = l
  /\ \/ /\ trusted
        /\ synced' \in IF policy = "always" THEN {Len(l)} ELSE {synced, Len(l)}
        /\ UNCHANGED <<trusted, logState>>
     \/ /\ trusted' = FALSE
        /\ logState' \in {"open", "broken"}
        /\ synced' = 0

\* writeRecord returns an error, and may only now have met it: a record that is
\* larger than the buffer goes to the file at once.
RefuseRecord ==
  /\ \/ /\ logState \in {"broken", "closed"}
        /\ UNCHANGED <<synced, trusted, logState>>
     \/ /\ logState = "open"
        /\ synced' = 0
        /\ trusted' = FALSE
        /\ logState' = "broken"
  /\ UNCHANGED log

\* The broker has no log.
NoLog == logState = "off" /\ UNCHANGED <<log, synced, trusted, logState>>

\* A message leaves the head of t's ring for a consumer.
Taken(t, place) ==
  /\ ring[t] # <<>>
  /\ ring' = [ring EXCEPT ![t] = Tail(@)]
  /\ at' = [at EXCEPT ![Head(ring[t])] = place]

\* Slip: the place the message came from still holds it.
PushOrLoseKeeps(m) ==
  LET t == topicOf[m] IN
  IF topics[t] = "closed"
  THEN UNCHANGED <<ring, at>>
  ELSE /\ ring' = [ring EXCEPT ![t] = Append(@, m)]
       /\ UNCHANGED at

\* ring.Push whose result is ignored: a closed ring loses the message.
PushOrLose(m) ==
  LET t == topicOf[m] IN
  IF topics[t] = "closed"
  THEN /\ at' = [at EXCEPT ![m] = "gone"]
       /\ UNCHANGED ring
  ELSE /\ ring' = [ring EXCEPT ![t] = Append(@, m)]
       /\ at' = [at EXCEPT ![m] = "ring"]

\* tw.Add: a stopped wheel loses the message.
WheelOrLost(m) == IF topics[topicOf[m]] = "closed" THEN "gone" ELSE "wheel"

-----------------------------------------------------------------------------
(* Publish, PublishFront, PublishDelayed and PublishBatch.                 *)

Confirmed == {m \in Messages : call[m] = "confirmed"}

\* The messages queued at the back of t that were confirmed before now.
Earlier(t) == {m \in Confirmed : topicOf[m] = t /\ kind[m] \in {"back", "batch"}}

Begin(ms, t, k) ==
  /\ \A m \in ms : call[m] = "idle"
  /\ GetOrCreateTopic(t)
  /\ call' = [m \in Messages |-> IF m \in ms THEN "begun" ELSE call[m]]
  /\ kind' = [m \in Messages |-> IF m \in ms THEN k ELSE kind[m]]
  /\ topicOf' = [m \in Messages |-> IF m \in ms THEN t ELSE topicOf[m]]
  /\ UNCHANGED <<logVars, ring, at, published, totalPublished, closing,
                 recovered, taken, first>>

BeginPublish(m, t, k) ==
  /\ Begin({m}, t, k)
  /\ precedes' = precedes \cup (Earlier(t) \X {x \in {m} : k = "back"})
  /\ UNCHANGED batch

\* Any number of payloads, published in the order given.
BeginBatch(s, t) ==
  /\ batch = <<>>
  /\ Begin(Range(s), t, "batch")
  /\ batch' = s
  /\ precedes' = precedes \cup (Earlier(t) \X Range(s))
                 \cup UNION {{s[i]} \X Range(SubSeq(s, i + 1, Len(s))) : i \in DOMAIN s}

\* m's turn in its call: the payloads of a batch go one after the other.
Current(m) ==
  \A i, j \in DOMAIN batch :
    i < j /\ batch[j] = m => call[batch[i]] \in {"pushed", "failed"}

\* WritePublish, whose error ends the call, except in PublishBatch.
WritePublish(m) ==
  /\ call[m] = "begun"
  /\ Current(m)
  /\ \/ /\ WriteRecord(Append(log, m)) \/ NoLog
        /\ call' = [call EXCEPT ![m] = "logged"]
     \/ /\ RefuseRecord
        /\ call' = [call EXCEPT ![m] = IF kind[m] = "batch" THEN "logged" ELSE "failed"]
  /\ UNCHANGED <<policy, topicVars, kind, topicOf, batch, totalPublished,
                 closing, histVars>>

\* Slip: the push does not wait for the log.
PushUnlogged(m) ==
  /\ call[m] \in {"begun", "logged"}
  /\ kind[m] # "delayed"
  /\ topics[topicOf[m]] = "open"
  /\ ring' = [ring EXCEPT ![topicOf[m]] = Append(@, m)]
  /\ at' = [at EXCEPT ![m] = "ring"]
  /\ published' = [published EXCEPT ![topicOf[m]] = @ + 1]
  /\ call' = [call EXCEPT ![m] = "pushed"]
  /\ UNCHANGED <<logVars, topics, kind, topicOf, batch, totalPublished,
                 closing, histVars>>

\* Topic.Publish and PublishFront.
Push(m) ==
  /\ call[m] = "logged"
  /\ kind[m] # "delayed"
  /\ LET t == topicOf[m] IN
     \/ /\ topics[t] = "open"
        /\ ring' = [ring EXCEPT ![t] = IF kind[m] = "front" THEN <<m>> \o @
                                                            ELSE Append(@, m)]
        /\ at' = [at EXCEPT ![m] = "ring"]
        /\ published' = [published EXCEPT ![t] = @ + 1]
        /\ call' = [call EXCEPT ![m] = "pushed"]
     \/ /\ topics[t] = "closed"
        /\ call' = [call EXCEPT ![m] = "failed"]
        /\ UNCHANGED <<ring, at, published>>
  /\ UNCHANGED <<logVars, topics, kind, topicOf, batch, totalPublished,
                 closing, histVars>>

\* Topic.PublishDelayed has no result: a closed topic counts and drops.
Schedule(m) ==
  /\ call[m] = "logged"
  /\ kind[m] = "delayed"
  /\ published' = [published EXCEPT ![topicOf[m]] = @ + 1]
  /\ at' = [at EXCEPT ![m] = WheelOrLost(m)]
  /\ call' = [call EXCEPT ![m] = "pushed"]
  /\ UNCHANGED <<logVars, topics, ring, kind, topicOf, batch,
                 totalPublished, closing, histVars>>

\* totalPublished, and the publisher is told.
Return(m) ==
  /\ call[m] = "pushed"
  /\ kind[m] # "batch"
  /\ totalPublished' = totalPublished + 1
  /\ call' = [call EXCEPT ![m] = "confirmed"]
  /\ UNCHANGED <<logVars, topicVars, kind, topicOf, batch, closing, histVars>>

\* Slip: every payload of the batch is counted.
ReturnBatchAll ==
  /\ batch # <<>>
  /\ \A m \in Range(batch) : call[m] \in {"pushed", "failed"}
  /\ totalPublished' = totalPublished + Len(batch)
  /\ call' = [m \in Messages |-> IF m \in Range(batch) /\ call[m] = "pushed"
                                 THEN "confirmed" ELSE call[m]]
  /\ batch' = <<>>
  /\ UNCHANGED <<logVars, topicVars, kind, topicOf, closing, histVars>>

\* The count of a batch is what the topic has accepted.
ReturnBatch ==
  LET accepted == {m \in Range(batch) : call[m] = "pushed"} IN
  /\ batch # <<>>
  /\ \A m \in Range(batch) : call[m] \in {"pushed", "failed"}
  /\ totalPublished' = totalPublished + Cardinality(accepted)
  /\ call' = [m \in Messages |-> IF m \in accepted THEN "confirmed" ELSE call[m]]
  /\ batch' = <<>>
  /\ UNCHANGED <<logVars, topicVars, kind, topicOf, closing, histVars>>

-----------------------------------------------------------------------------
(* Consuming and settling.  A call may have got its topic before Close took *)
(* b.mu, so these do not wait for it.                                      *)

\* XGROUP CREATE and ConsumeGroup create the topic they name, if there is none.
CreateTopic(t) ==
  /\ topics[t] = "absent"
  /\ GetOrCreateTopic(t)
  /\ UNCHANGED <<logVars, ring, at, published, callVars, closing, histVars>>

Consume(t) ==
  /\ Taken(t, "gone")
  /\ UNCHANGED <<logVars, topics, published, callVars, closing, histVars>>

ConsumeGroup(t) ==
  /\ Taken(t, "pel")
  /\ taken' = taken \cup {Head(ring[t])}
  /\ UNCHANGED <<logVars, topics, published, callVars, closing, recovered,
                 precedes, first>>

\* Ack ignores what becomes of the record that WriteAck writes, and no recovery
\* looks at it; but its write flushes, syncs and rotates like any other.
Ack(m) ==
  /\ at[m] = "pel"
  /\ at' = [at EXCEPT ![m] = "gone"]
  /\ WriteRecord(log) \/ RefuseRecord \/ NoLog
  /\ UNCHANGED <<policy, topics, ring, published, callVars, closing, histVars>>

\* A failed delivery goes to the wheel or, its attempts used up, to the DLQ.
Nack(m) ==
  /\ at[m] = "pel"
  /\ \E place \in {WheelOrLost(m), "dead"} : at' = [at EXCEPT ![m] = place]
  /\ UNCHANGED <<logVars, topics, ring, published, callVars, closing, histVars>>

\* The wheel hands over a message whose delay is over.
Expire(m) ==
  /\ at[m] = "wheel"
  /\ PushOrLose(m)
  /\ UNCHANGED <<logVars, topics, published, callVars, closing, histVars>>

ReplayDLQ(m) ==
  /\ at[m] = "dead"
  /\ PushOrLose(m)
  /\ UNCHANGED <<logVars, topics, published, callVars, closing, histVars>>

\* The sweep visits t: what has timed out fails like a Nack.  The visits follow a
\* snapshot of the topics, and one under way goes on after Close.
SweepAllTimeouts(t) ==
  /\ \E expired \in SUBSET {m \in Messages : at[m] = "pel" /\ topicOf[m] = t} \ {{}} :
       \E dead \in SUBSET expired :
         at' = [m \in Messages |-> IF m \in dead THEN "dead"
                                   ELSE IF m \in expired THEN WheelOrLost(m)
                                   ELSE at[m]]
  /\ UNCHANGED <<logVars, topics, ring, published, callVars, closing, histVars>>

-----------------------------------------------------------------------------
(* The HTTP handlers.                                                      *)

handleTopicAction(t) ==
  \/ \E m \in Messages, k \in {"back", "delayed"} : BeginPublish(m, t, k)
  \/ Consume(t)

handleDLQReplay(m) == ReplayDLQ(m)

\* The purge of one topic, or of one of those TopicsList has returned.
handleDLQPurge(t) ==
  LET dead == {m \in Messages : at[m] = "dead" /\ topicOf[m] = t} IN
  /\ ~locked
  /\ dead # {}
  /\ at' = [m \in Messages |-> IF m \in dead THEN "gone" ELSE at[m]]
  /\ UNCHANGED <<logVars, topics, ring, published, callVars, closing, histVars>>

-----------------------------------------------------------------------------
(* The log's ticker, Close and a restart.                                  *)

\* WAL.Sync on its ticker; the errors of its flush and its sync are ignored.
Sync ==
  /\ policy = "everysec"
  /\ logState = "open"
  /\ synced < Len(log)
  /\ \/ /\ trusted
        /\ synced' = Len(log)
        /\ UNCHANGED <<trusted, logState>>
     \/ /\ trusted' = FALSE
        /\ logState' \in {"open", "broken"}
        /\ synced' = 0
  /\ UNCHANGED <<policy, log, topicVars, callVars, closing, histVars>>

BeginClose ==
  /\ closing = "no"
  /\ closing' = "topics"
  /\ UNCHANGED <<logVars, topicVars, callVars, histVars>>

\* Topic.Close, in one step: Topic has its stages.
CloseTopic(t) ==
  /\ closing = "topics"
  /\ topics[t] = "open"
  /\ topics' = [topics EXCEPT ![t] = "closed"]
  /\ UNCHANGED <<logVars, ring, at, published, callVars, closing, histVars>>

\* Slip: the log is closed without a flush.
CloseLogUnflushed ==
  /\ closing = "topics"
  /\ \A t \in Topics : topics[t] # "open"
  /\ closing' = "done"
  /\ logState' = IF logState = "open" THEN "closed" ELSE logState
  /\ UNCHANGED <<policy, log, synced, trusted, topicVars, callVars, histVars>>

\* WAL.Close flushes and syncs what the log still buffers; it ignores the errors.
CloseLog ==
  /\ closing = "topics"
  /\ \A t \in Topics : topics[t] # "open"
  /\ closing' = "done"
  /\ logState' = IF logState = "open" THEN "closed" ELSE logState
  /\ \/ /\ trusted
        /\ synced' = Len(log)
        /\ UNCHANGED trusted
     \/ /\ trusted' = FALSE
        /\ synced' = 0
  /\ UNCHANGED <<policy, log, topicVars, callVars, histVars>>

\* Slip: every record is pushed at the front.
RecoveringAtFront(l, t) ==
  LET pushed[n \in 0..Len(l)] ==
        IF n = 0 THEN <<>>
        ELSE IF topicOf[l[n]] = t THEN <<l[n]>> \o pushed[n - 1] ELSE pushed[n - 1]
  IN  pushed

\* What main's recovery has published into t after each record of the log l.
Recovering(l, t) ==
  LET pushed[n \in 0..Len(l)] ==
        IF n = 0 THEN <<>>
        ELSE IF topicOf[l[n]] = t THEN Append(pushed[n - 1], l[n]) ELSE pushed[n - 1]
  IN  pushed

Recovered(l, t) == Recovering(l, t)[Len(l)]

\* m comes before x in the sequence s, if both are there.
InOrder(s, m, x) ==
  \A i, j \in DOMAIN s : s[i] = m /\ s[j] = x => i < j

(***************************************************************************)
(* Replay may hand over the records s: every record at most once, all that *)
(* are certain and, if the log is trusted, no record without those before  *)
(* it.  The records of a first process come in the order of their writes.  *)
(* A later process has written behind segment 1 of an older log, so behind *)
(* a record that may be torn and before those of segment 2: the recovery   *)
(* from such a log may miss any record, and may find them in any order.    *)
(***************************************************************************)
Replay(s) ==
  /\ Range(s) \subseteq Range(log)
  /\ \A i \in 1..synced : log[i] \in Range(s)
  /\ trusted => \E kept \in synced..Len(log) : Range(s) = Range(SubSeq(log, 1, kept))
  /\ first => \A i, j \in DOMAIN log : i < j => InOrder(s, log[i], log[j])

(***************************************************************************)
(* The process ends, by a crash or after Close, and main starts again:     *)
(* OpenWAL continues the old log, and the records s of the log are         *)
(* published into the topics and not through the broker.  The next process *)
(* may have another policy: as nothing in its log is certain, everysec     *)
(* stands for all of them.                                                 *)
(***************************************************************************)
Restart(s) ==
  /\ Replay(s)
  /\ first' = FALSE
  /\ log' = s
  /\ synced' = 0
  /\ trusted' = FALSE
  /\ logState' = IF policy = "off" THEN "off" ELSE "open"
  /\ ring' = [t \in Topics |-> Recovered(s, t)]
  /\ topics' = [t \in Topics |-> IF ring'[t] = <<>> THEN "absent" ELSE "open"]
  /\ at' = [m \in Messages |-> IF m \in Range(s) THEN "ring" ELSE "none"]
  /\ published' = [t \in Topics |-> Len(ring'[t])]
  /\ recovered' = Len(s)
  /\ call' = [m \in Messages |->
               IF call[m] = "idle" \/ m \in Confirmed \cap Range(s)
               THEN call[m] ELSE "failed"]
  /\ batch' = <<>>
  /\ totalPublished' = 0
  /\ closing' = "no"
  /\ taken' = {}
  /\ precedes' = IF first THEN precedes ELSE {}
  /\ kind' = [m \in Messages |-> IF call[m] = "idle" THEN "none" ELSE "back"]
  /\ policy' = IF policy = "off" THEN "off" ELSE "everysec"
  /\ UNCHANGED topicOf

-----------------------------------------------------------------------------
\* The commands of the TCP server make the same calls as the HTTP handlers, and
\* those that have no handler: BeginPublish at the front, batches, groups.
Next ==
  \/ \E m \in Messages :
       \/ \E t \in Topics : BeginPublish(m, t, "front")
       \/ WritePublish(m)
       \/ Push(m)
       \/ Schedule(m)
       \/ Return(m)
       \/ Ack(m)
       \/ Nack(m)
       \/ Expire(m)
       \/ handleDLQReplay(m)
  \/ \E t \in Topics :
       \/ \E s \in Batches : BeginBatch(s, t)
       \/ CreateTopic(t)
       \/ ConsumeGroup(t)
       \/ SweepAllTimeouts(t)
       \/ handleTopicAction(t)
       \/ handleDLQPurge(t)
       \/ CloseTopic(t)
  \/ ReturnBatch
  \/ Sync
  \/ BeginClose
  \/ CloseLog
  \/ \E s \in Logs : Restart(s)

Spec == Init /\ [][Next]_vars

-----------------------------------------------------------------------------
(* Properties.                                                             *)

Places == {"none", "ring", "wheel", "pel", "dead", "gone"}

\* Type invariant: a message is in one ring, once, exactly when its place says so.
TypeOK ==
  /\ policy \in {"off", "always", "everysec"}
  /\ log \in Seq(Messages)
  /\ synced \in 0..Len(log)
  /\ trusted \in BOOLEAN /\ logState \in {"off", "open", "broken", "closed"}
  /\ topics \in [Topics -> {"absent", "open", "closed"}]
  /\ at \in [Messages -> Places]
  /\ call \in [Messages -> {"idle", "begun", "logged", "pushed", "confirmed", "failed"}]
  /\ kind \in [Messages -> Kinds \cup {"none"}]
  /\ topicOf \in [Messages -> Topics \cup {"none"}]
  /\ batch \in Seq(Messages)
  /\ closing \in {"no", "topics", "done"}
  /\ published \in [Topics -> Nat]
  /\ totalPublished \in Nat /\ recovered \in Nat /\ first \in BOOLEAN
  /\ taken \subseteq Messages /\ precedes \subseteq Messages \X Messages
  /\ \A t \in Topics :
       /\ ring[t] \in Seq(Messages) /\ IsInjective(ring[t])
       /\ Range(ring[t]) = {m \in Messages : at[m] = "ring" /\ topicOf[m] = t}

(***************************************************************************)
(* Write-ahead: the log has accepted the record of whatever a topic has    *)
(* been given, even if a closed topic has dropped it, so that no consumer  *)
(* sees what the log was never told.  Only PublishBatch, which ignores     *)
(* WritePublish's error, queues what the log has refused.                  *)
(***************************************************************************)
LoggedBeforeQueued ==
  policy # "off" =>
    \A m \in Messages :
      \/ at[m] = "none"
      \/ m \in Range(log)
      \/ kind[m] = "batch" /\ logState # "open"

(***************************************************************************)
(* The first restart brings back, in its topic's ring, every message that  *)
(* the first process has confirmed, if the log syncs always or was closed  *)
(* in order (Close "flushes the persistence layer", broker.go:340) and no  *)
(* write, flush, sync or open of it has failed.  Only a batch that came    *)
(* after Close, to a new topic, is confirmed and lost.                     *)
(***************************************************************************)
ConfirmedSurvives ==
  [][first /\ ~first' /\ trusted /\ (policy = "always" \/ logState = "closed")
     => \A m \in Confirmed :
          \/ m \in Range(ring'[topicOf[m]])
          \/ kind[m] = "batch" /\ logState = "closed" /\ m \notin Range(log)]_vars

(***************************************************************************)
(* A publisher that waits for the confirmation of one message before it    *)
(* sends the next, or sends both in one batch, finds them queued in that   *)
(* order until they are first delivered, and in the log of a first         *)
(* process: log and ring have no common lock, so this is all the order     *)
(* there is.  The rings keep it through the first recovery, whatever that  *)
(* finds.  Later recoveries read what was added to segment 1 before        *)
(* segment 2, and the rings owe an order only to what is sent after them.  *)
(***************************************************************************)
PublisherOrderKept ==
  \A m, x \in Messages :
    <<m, x>> \in precedes =>
      /\ first => InOrder(log, m, x)
      /\ {m, x} \cap taken = {} => InOrder(ring[topicOf[m]], m, x)

(***************************************************************************)
(* The broker's published total is what its topics have counted, less what *)
(* the recovery put there and the calls that have not returned yet,        *)
(* whatever topics reject while they are closed.                           *)
(***************************************************************************)
TotalsAgree ==
  totalPublished + recovered + Cardinality({m \in Messages : call[m] = "pushed"})
    = SumFunction(published)
=============================================================================
