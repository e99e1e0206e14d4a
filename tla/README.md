# A formal model of VortexMQ

VortexMQ is an in-memory message broker in Go with an optional write-ahead log.
This directory holds TLA+ modules that model its core, TLC configurations that
check them on small instances, and proofs that TLAPS checks for all instances.

## The system

| Part | Source | State | Operations |
|---|---|---|---|
| Ring buffer | `internal/queue/ring.go` | slots, uint64 head and tail, capacity, closed, waiters of one condition variable | Push, PushFront, Pop, PopBatch, PopWait, Close, grow |
| Timing wheel | `internal/queue/timingwheel.go` | buckets, rounds, current slot, ticker channel | Add, advance, Stop |
| Dead letter queue | `internal/queue/dlq.go` | map of entries, slice of IDs in order | Add, Remove, Purge, List |
| Consumer group | `internal/queue/consumer_group.go` | pending entries list (PEL) | Checkout, Ack, Nack, SweepTimeouts |
| Topic | `internal/queue/topic.go` | the four above, counters, closed | Publish, PublishFront, PublishDelayed, Consume, ConsumeGroup, Ack, Nack, ReplayDeadLetter, sweep, Close |
| Message | `internal/queue/message.go` | ID, RetryCount, MaxRetries, payload | NewMessage, Clone |
| Broker | `internal/queue/broker.go` | topics, counters, sweeper, log | publish variants, consume, Ack, Nack, Close |
| Pub/sub | `internal/queue/broker.go` | channel name -> subscriber channels | Broadcast, SubscribeChannel, UnsubscribeChannel |
| Write-ahead log | `internal/wal/wal.go` | segments, bufio buffer, current segment and size | WritePublish, WriteAck, rotateSegment, Sync, Replay, Close |
| TCP server | `internal/network/server.go` | connections, wait group, closed | acceptLoop, handleConnection, Stop |
| RESP | `internal/protocol/resp.go` | reader and writer buffers | ReadCommand, integer parsing, replies |
| HTTP API | `internal/api/server.go` | none of its own | statistics, publish, DLQ list, replay, purge |
| Main, CLI | `cmd/` | none | start, recovery, shutdown order |

How they interact: a publish is logged, then pushed into the topic's ring (or,
with a delay, into its wheel). A plain consumer takes it from the ring for good.
A group consumer checks it out into the group's PEL. An Ack settles it. A Nack or
an expired deadline, found by the broker's sweeper, sends it through the wheel
back to the ring or, when its attempts are used up, to the dead letter queue, from
where it can be replayed into the ring.

What is hard: every client call runs in its own goroutine and most calls have two
or more critical sections, between which only the goroutine holds the message;
three clocks (ack deadlines, wheel ticks, PopWait timers) race with the calls;
Close goes through its steps while calls are under way; processes crash between
the write, the flush, the sync and the rotation of a log record. On the wire, commands
are pipelined and cut anywhere, replies wait in a buffer for the end of the pipeline,
and handlers block in pops while their connection or the whole server is being closed.

## Modules

| Module | Models |
|---|---|
| `DequeOps`, `MessageDeque` | the bounded deque that the ring promises to be |
| `RingBuffer` | the ring: slots, wrapping indices, growth, drops, condition variable, timers |
| `DeadLetterQueue` | the dead letter queue and its paging |
| `DelayQueue` | what a topic relies on the wheel for |
| `TimingWheel` | the wheel, its ticker and time |
| `Topic` | a topic with its consumer groups: deque, wheel as a set, dead letter queue |
| `WAL` | the log over several lives of the process |
| `MCWAL` | `WAL` with its symmetry set for TLC |
| `Broker` | publish calls over log and topics, HTTP handlers, Close, recovery in main |
| `MCBroker` | `Broker` with its symmetry set for TLC |
| `Server` | the TCP server: accept loop, connection handlers, Stop, and main's shutdown |
| `RESP` | the protocol's parser and the writers of bulk strings and arrays, as operators |
| `MCServer` | `Server` and `RESP` with their constants for TLC |
| `RingBufferProofs`, `TimingWheelProofs`, `DeadLetterQueueProofs`, `TopicProofs`, `WALProofs`, `BrokerProofs`, `ServerProofs` | theorems about the module each is named after |
| `Loops` | induction, recursive functions and sums, for the proofs |

**RingBuffer.** A method holds `rb.mu` throughout and is one action, except PopWait:
`cond.Wait` splits it into the call and one `Resume` per wake-up. `timed`, `expired`,
`armed` and `fired` follow the deadline and the `AfterFunc` timer, whose callback can
run after the call has returned; at most one such late callback per consumer is
followed. uint64 arithmetic is arithmetic modulo `Modulus`.

**TimingWheel.** Time passes in units, the ticker fires every `Interval` units into a
channel of capacity one, and the goroutine takes a tick when it is scheduled. A bucket
is a set, so any order of dispatch is allowed. `delay`, `advances` and `age` are
history variables; `age` stops one past the longest delay.

**Topic.** The ring is `MessageDeque`'s deque and the wheel is `DelayQueue`'s set; that
`RingBuffer` and `TimingWheel` implement these is checked (`RefinesDeque`,
`RefinesDelayQueue`). Between two critical sections a message is in one of the
variables `publishing`, `popped`, `nacked`, `timedOut`, `due`, `replayed`. `fate`
records how a message left. The counters change with the step before them. `Advance`
may happen after `Stop`, as a tick under way can; the model does not count how often.

**WAL.** A file is a sequence of records, the last of which a crash can tear. A power
failure keeps the synced part of every file and any prefix of the rest; a process
crash keeps all that was flushed, except that it may cut the write in progress, and makes
nothing durable: the next process continues files that are partly in the page cache.
A write is two steps, because a crash can come before the sync, and `Sync` may get no
further than its flush. An attempt to write to
a closed log or through a failed bufio writer returns an error and changes nothing, so
it is not an action. A torn record makes Replay leave the file: what follows is
read as part of it, and length or checksum do not fit. Errors of writes to an open file
and of fsync, and the durability of directory entries, are not modelled here.

**DeadLetterQueue.** One action per method. `Get` is called nowhere and is left out.

**Broker.** A publish is four steps (`call`: begun, logged, pushed, confirmed), as the
code has no lock around GetOrCreateTopic, WritePublish, the push and the counter.
`Topic` and `WAL` have the details of what lies below, so here:

- a topic is its ring and a place per message; the ring is never full, Topic.Close is
  one step, and a failed delivery goes to the wheel or the DLQ without a count;
- the log is the sequence of publish records it was given, of which the first `synced`
  are certain to be found again. Segments are left out, but not what they do to this: any
  call of the log may meet an error (of a write, a flush, a sync, or the open of a
  rotation), which the code mostly ignores. The log then is no longer `trusted`, any
  record may be lost (`synced` is 0; `WAL` follows what an error leaves durable), and the
  log goes on accepting records or refuses them from then on;
- an acknowledgement record is not in the sequence, as no recovery looks at it, but its
  write flushes, syncs, rotates and fails like any other;
- `first` says that the process started with an empty directory. Its log is replayed in
  order. A later process has appended to segment 1, behind a record that may be torn and
  before what segment 2 holds, so `Replay` of its log may miss any record and may find
  them in any order: what is claimed of recovered order and of survival is claimed of the
  first recovery, everything else of any number of them;
- a recovery publishes at the back whatever it finds, so `kind` is "back" from then on;
- policy "none" is "everysec" in which no `Sync` happens, so it has no value of its own;
  and "everysec" stands for whatever policy a later process has, as nothing in its log is
  certain;
- "gone" stands for settled, purged and lost alike;
- of the broker's totals only the published one is followed;
- sweep and purge visit topics in any order, as their snapshot is a Go map's.

**Server.** One action per step of a client, of the accept loop, of a handler and of
main. Commands are classes by what their case of the switch does (`AllCommands`); a
client sends whole commands, or bytes that are none ("malformed"), of which only the number is kept while they are unread, and
the command is chosen when the handler takes it. A read can end inside a command
(`part`), which is what keeps `Buffered()` above zero. There is one topic; replies fit
into the 64 KB buffer; the deferred function of a handler (`Leave`) is one step; a
connection that is reset may lose what was not read. A message is `delivered` when its
reply is written to an open connection: nothing in the code tells more.

**RESP.** A byte is a string of one character. `parseUintBytes` and `parseIntBytes` wrap
as Go's integers do, at a width that `IntHalf` sets; the limits on bulk strings and
arrays are `MaxBulk` and `MaxArgs`. `Misread` is the table of all streams of up to
three short commands, with every end, that are not read as written. Its streams are arrays, as
clients send; an inline command that the end of the stream cuts is run as far as it got,
so it could not be in the table. The writers of replies of one line are formatting.

Definitions whose comment starts with "Slip" are variants of the definition below them
with a plausible mistake; no specification uses them. Each property has one that
violates it, which shows that the property can tell.

## Runs

| Run | Instance | Shows |
|---|---|---|
| `ring_deque` | 2 messages, 1 consumer, capacity 2 growing to 4, indices modulo 8 | the ring implements the deque, holds no stale pointer |
| `ring_waiting` | 2 consumers, capacity 1 growing to 2, indices modulo 4 | no lost wake-up, bounded waits return, waiters are served, Close releases |
| `dlq` | 4 IDs, capacity 3 | map and slice agree, bounded, pages complete, eviction of the oldest only |
| `topic` | 2 messages, 2 groups, ring of 1, DLQ of 1, 2 attempts, 1 replay | one home per message, exact retry budget, deliveries accounted for, every accepted message settles or is dead-lettered |
| `wheel` | 2 messages, 2 slots, interval 2, delays to 5 | exact countdown, less than two intervals early, implements the delay queue, every entry expires |
| `wheel_early` | 1 message, delays to 7 | *violated*: an entry can be early |
| `wal` | 3 messages, every fsync policy, segments of 2 records, 2 restarts, 2 failed opens | durable implies replayed unless behind a tear; confirmed implies durable under always; the first recovery is a prefix |
| `wal_zero_loss` | fsync always | *violated*: confirmed messages behind a torn record are lost |
| `wal_acked` | fsync always | *violated*: acknowledged messages come back |
| `broker` | 2 messages, 2 topics, batches of up to 2, no log or fsync always or everysec, errors of the log at any call, any number of restarts | nothing is queued that the log was not given; totals agree; a publisher's order holds in the log of the first process, in the ring and in the first recovery; what it has confirmed survives the first restart if the log has met no error |
| `server` | 2 connections, 1 message, 3 commands of every class but a timed XREADGROUP, with a password and a limit of one client or with neither; streams of 8 payloads | a popped message is in one live handler's buffer until written; after Stop nobody is served; replies are written; Stop returns unless held; commands are read as written |
| `server_stop` | 2 connections, pushes and untimed pops | *violated*: Stop waits for a handler that only Broker.Close would release |

The bounds are chosen so that every interesting case happens: the ring grows once,
then drops, and both indices wrap several times; the wheel turns fully under an entry;
the dead letter queue evicts; a message is dead-lettered, replayed and dead-lettered
again; the log rotates twice, and a third process reads what two crashes have left. Two
messages are what an order, a batch and a publish beside another one need; two
connections and three commands let one handler block and another one push, pipeline or
leave, before, during and after Stop. A timed XREADGROUP differs from a timed pop only in
keeping the message in the PEL, as the untimed one does, so `server` has the other three.

Deadlock is not checked where the system really may stop: the wheel once stopped, the
log after the last restart allowed, the server after main has exited. The broker's restarts
need no bound: a restart only rearranges what the two messages have come to.

`CommandsAreUnits` ties `RESP` to `Server`: wherever `Server` has a number of unread
commands on a connection, every stream of that many commands is read as those.

### Fairness

- Ring: a woken consumer gets the mutex, time reaches deadlines, timers fire and their
  callbacks run. Nothing is assumed of producers, of new calls or of Close.
- Wheel: time passes and the goroutine takes its ticks and dispatches.
- Topic: calls under way go on; deadlines pass; the wheel advances; some worker keeps
  calling ConsumeGroup. Sweeps are strongly fair per group, because each sweep of the
  broker's loop visits every group. Nobody has to publish, Ack, Nack, replay or close.
- Server: every handler runs on when it can (a read returns what has arrived or fails on
  a closed connection, timeouts pass), the accept loop goes on with the connection it has
  accepted, and main goes on with the shutdown. These are goroutines of Go's scheduler.
  Nobody has to connect, be accepted, send, disconnect or stop the server.
- Broker and log: safety only, no fairness.

### Disagreements between code and documents

Each of the first four is shown by a run.

1. `wheel_early`: `timingwheel.go:61` says a message runs after its delay; it can run up
   to two intervals (100 ms) before.
2. `wal_zero_loss`: `README.md:88` promises zero data loss; records written after a torn
   one are never replayed, even when fsynced. A new process always continues segment 1
   as it is.
3. `wal_acked`: `docs/wiki/Architecture-Deep-Dive.md:132` says unconsumed messages are
   replayed; all are, because acknowledgement records are skipped.
4. `server_stop`: `server.go:471` says Stop disconnects active sessions gracefully. A
   handler blocked in a pop without timeout (LPOP and XREADGROUP without BLOCK are such)
   does not notice; Stop waits for it, and main closes the broker, which would release
   it, only after Stop. `StopReturnsUnlessHeld` shows that nothing else holds Stop,
   a connection registered after it apart.
5. `message.go:48` says 3 retries before the DLQ; `RetryBudget` shows that `MaxRetries`
   is the number of deliveries, so there are 2 retries.
6. The promise of `README.md:88` when a segment cannot be opened or a flush fails: the
   error is ignored and messages are confirmed that are written nowhere, with the log
   healthy again after the next rotation. This is why `AcceptedIsStable` holds only while
   segments open, and `ConfirmedSurvives` only for a log that has met no error. After an
   orderly Close it also has to except a batch that came later, to a new topic:
   PublishBatch confirms it although the closed log has refused it.
7. A usage error leaves the handler's loop past the flush, so its reply, and those
   before it, wait for the client's next command; `RepliesAreWritten` has it as its
   exception.
8. `docs/wiki/Redis-Protocol-Compatibility.md:17` gives LPOP and RPOP ends of their own;
   both take the oldest message.
9. The arguments of an inline command are slices of the reader's buffer (`resp.go:93`)
   and `NewMessage` keeps them without a copy, so the next read of the connection
   overwrites a queued payload. The models give messages no bytes and do not show this.

## Proofs

All theorems are for every set of messages, connections, groups and topics and for every
value of the bounds (restarts, replays, failures, batch sizes), from the assumptions listed
at the end, which TLC evaluates in the runs.

**RingBufferProofs** proves `TypeCorrect`, `WakeupsAreNotLost`, `SlotsAreExact` and
`ImplementsDeque`. For the wake-ups the inductive invariant is `TypeOK /\ NoLostWakeup`:
while a consumer sleeps there are at least as many woken consumers as messages; a push
adds one to both sides or wakes the last sleeper, a consumer that leaves takes one from
both sides, and one goes to sleep only on an empty ring. `TypeOK` is needed because it
bounds the distance of the indices, without which it is not the number of messages.
For the contents it is `RingInv`: the types, the capacity is one that doubling
reaches (`Reached`), and `SlotsExact`. `Reached` is needed because head and tail wrap at the index
width and slots at the capacity: only if the one is a multiple of the other is the next
slot still the next slot after a wrap. `SlotsExact`, that the slots outside head..tail
are nil, makes what the deque holds a function of the slots. One lemma per operation then
says what it does to the contents (at the back, at the front, from the head, in a batch, growing), and
the refinement is these lemmas action by action.

**TimingWheelProofs** proves `CountdownIsExact`, `ExpiryOnItsTick`, `EntriesAreSingle`,
`TypeCorrect`, `EarlyByLessThanTwo` and `ImplementsDelayQueue`. The
inductive invariant is first the conjunction of the first four. For an entry in slot `s`,
`rounds * Slots` plus the distance from the current slot to `s` plus the calls of
`advance` so far is the number of ticks that `Add` computed: every other bucket comes
one nearer, and the entries kept in the current one trade a round for a full turn.
This needs that a message is in one bucket only, and expiry on the right tick follows.
How early an entry can be is about time: `TicksTakeTime` adds that the ticks an entry has
seen, and one waiting in the channel, are paid for by its age, up to the one tick that
was in the channel and the part of an interval that had passed when it was added.

**DeadLetterQueueProofs** proves `QueueIsBounded`, `MapAndSliceAgree`,
`OnlyTheOldestIsEvicted` and `PagingIsComplete` (`PagesCoverQueue`). The inductive
invariant is the two invariants and that the map is finite, which TLC's instance has for
free and the prover needs before it may count. Bound and agreement need each other: the
queue is not over its capacity because an eviction really removes an entry, which it does
because the head of the slice is in the map; and the slice has no duplicate because an ID
is appended only if the map does not have it. The paging follows from the agreement: the
loop of List skips IDs without an entry, there are none, so a page is a piece of the slice
(`PageIs`), and the pieces join (`NextPage`).

**TopicProofs** proves `NeverLostNorDoubled` (`ExactlyOneHome`), `BudgetIsExact`
(`RetryBudget`), `TypeCorrect` and `AccountsBalance` (`DeliveriesAccounted`). The inductive invariant `TInv` has four parts. `Shape`
gives the types, that ring
and dispatch list hold no message twice, and that the wheel is finite. `IInv` is the
invariant of the dead letter queue. `Homed(m)` names the one place of `m`, one of ten, or none,
with the end or the group where the place has several. `InBudget(m)` is the budget of `m`.
A step either does not move a message (`Stays`, `StaysHomed`), drops it from the ring or
the queue (`DroppedHomed`), brings it to the ring (`ArrivedHomed`), or moves it between
two named places, so every action's proof is the shape, one move, and the budget. That one
place is one reference, as `ExactlyOneHome` counts them, is the lemma `OneHome`. The
budget rests on the single place: a failed delivery is counted only because its message is
not in the dead letter queue, or on its way out of it, at the same time. Close changes no
place, but the pushes and schedules that come after it end a message's life as "lost";
the theorems cover these too. The counters' types (`Scalars`) need no more than their
actions. `DeliveriesAccounted` is inductive together with these two. It is read as a ledger of
eight entries (`Ledger`), and every action moves a unit from one to another: a delivery from
pending to acknowledged, to rejected or to timed out, from there to the retries of
its message, and the retries of a message that dies of its last one to the dead letters.
It needs the single place, so that nothing moves twice, and the exact budget, because a
dead letter is entered as `MaxRetries` whatever its retries were. A replay resets the
retries of a message whose deliveries the dead letter already stands for.

**WALProofs** proves `ConfirmedIsDurable` (`AcceptedIsStable`), `TypeCorrect`,
`DurableIsRecovered` (`StableIsRecovered`) and `FirstRecoveryKeepsOrder`
(`FirstRecoveryIsPrefix`), over any number of crashes.

- Under policy always a confirmed publish is on stable storage as long as every segment
  could be opened. The invariant `IInv` adds `InActiveFile`: until then the file is usable,
  and the record that writeRecord has written and not yet synced is in the active file,
  neither in the buffer nor in an earlier segment. So the Sync before the confirmation
  covers it, and so does the Sync of the rotation that the record itself brings about.
- What a Sync has covered is replayed unless torn records precede it. `WInv` adds that the
  durable part of a file is part of it and holds an intact record of every stable message
  (`Sizes`, `StableOnDisk`), which no crash touches and every later write leaves in its
  place, and that whatever record is left is of a message that was written (`Recorded`).
- Replay after the first crash is a prefix of the history. `History` says that the
  files up to the active one and the buffer hold, in order, all that was written (`Held`), and
  that only the active file has a part a crash can take (`Durable`): a hole before a later
  segment would break the prefix, and the Sync of each rotation is what excludes it.

**BrokerProofs** proves `TypeCorrect`, `LogComesFirst` (`LoggedBeforeQueued`), `OrderIsKept`
(`PublisherOrderKept`), `ConfirmedIsRecovered` (`ConfirmedSurvives`) and `TotalsAddUp`
(`TotalsAgree`). The inductive
invariant `BInv` has the types (`Shape`); that a ring holds the messages whose place it is,
once each (`Rings`); how far the log is durable (`Synced`: all of it under policy always
and after Close, while it is trusted, which a broken log is not); for every message what its call has come to and
where it can be (`Placed`), and that it is in the log if it has to be (`Written`); and for
every two messages of which one was sent after the other, `Sent`: the first has been
pushed, or the second waits for it in the batch under way, and they are in order in the log
of the first process and, until delivered, in the ring. `Waits` is what makes the order of a batch
inductive: between the two pushes nothing else orders them. A restart rebuilds the rings
from the records that Replay finds (`Recovering`), and the lemmas about it say that the
result holds exactly the topic's records, once each and in the order found, which for the
first recovery is that of the log (`ReplayKeepsOrder`). If the log is trusted and all of it
is synced, Replay finds all of it (`SyncedIsRecovered`). The totals agree with the topics' counters up to
what is `Uncounted`, the messages pushed and not yet returned to their callers; a push
raises one topic's counter and that number, the return moves the number to the total, and a
restart counts every record that it pushes on both sides.

**ServerProofs** proves `NobodyIsServedAfterStop` (`StoppedServesNobody`), `TypeCorrect` and
`PoppedStaysInHand` (`PoppedIsInHand`). For the first the
inductive invariant adds two facts. `StartsEmpty`: a connection whose
handler has not started has nothing in its buffer, so a handler that the accept loop
starts late starts with nothing to execute. `Shape`: the types of the variables the
argument needs, and that a connection with a handler is registered; so Stop, which closes
every registered connection, reaches all of them, and wg.Wait leaves only those that
wg.Add had not counted yet. For the other two, `SInv` adds `Hands`: the buffers hold
exactly the messages whose place is "reply", none twice (`InHand`); only a live handler has
replies in its buffer (`Owned`), so that the deferred flush takes along everything when it
leaves; and the commands of a connection, wherever they are, are among those sent
(`Accounted`), which bounds the buffers.

**Loops** holds induction for the rest. The library's induction theorems take an operator,
which the provers cannot instantiate; induction over a *set* of naturals follows from the well-foundedness of `<`
(`Least`, `UpTo`), and from it that a loop of N rounds computes something (`LoopExists`).
That is what makes a recursive function equal to its defining equation, so the
recoveries of `WAL` and `Broker` and the pages of `DeadLetterQueue` are written as recursive
functions. The sums over topics and messages are folds of the library over a finite set, in
the order that CHOOSE happens to give. `SumTakes` shows that any element can be taken out of a
sum, not only the one CHOOSE takes first, by induction over the size of the set; what a
step does to a sum (`SumChanges`, `SumSame`) follows.

Assumptions: capacities, intervals, numbers of retries and sizes are natural numbers,
positive where zero makes no sense in the code; the ring's consumers are finitely many, and so
are, for the totals and the accounts, the messages, topics and groups, without which a sum
over them means nothing (a process only ever sees finitely many); the ring's
capacities and index width are powers of two (stated as what the proof needs of them:
doubling a divisor gives a divisor), the index width at least twice the largest
capacity; replies that carry no message are no messages.

Only model-checked:

- liveness, which is out of the prover's reach;
- `CommandsAreUnits` and `RESP`: the parser and the writer are recursive operators over
  byte strings, and what they compute would be an induction over their input.

## Not modelled

- Pub/sub channels: nothing in the program calls SubscribeChannel or UnsubscribeChannel,
  so Broadcast never has a subscriber; VMQ.BROADCAST is a command that only replies.
- HTTP API: the handlers that change state are actions of `Broker`. Statistics,
  listings, JSON and the web studio are I/O over what is modelled.
- Command line client: interactive I/O on one connection.
- Wording and layout of replies and errors, statistics of bytes, flags, the banner.
- Errors of fsync itself in `WAL` (`Broker` has them), errors of OpenWAL and of reading the
  files at a start, and the durability of directory entries.
