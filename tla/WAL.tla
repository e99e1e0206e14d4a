-------------------------------- MODULE WAL ---------------------------------
(***************************************************************************)
(* The segmented write-ahead log (internal/wal/wal.go) over the life of    *)
(* several processes: records go through the bufio buffer and the page     *)
(* cache to the disk, segments rotate, processes crash, the machine loses  *)
(* power, and the next process opens the log again and replays it.         *)
(*                                                                         *)
(* A file is a sequence of cells, one per record.  A crash can leave the   *)
(* last cell torn: some of its bytes are missing.  The CRC and the length  *)
(* field make Replay stop at a torn cell, because the bytes of whatever    *)
(* follows are read as part of it.  A record counts 1 towards the size of  *)
(* its segment.                                                            *)
(***************************************************************************)
EXTENDS Naturals, Sequences, Functions

CONSTANTS
  Messages,       \* message IDs
  Policies,       \* the values of -fsync considered: "always", "everysec", "none"
  FlushAt,        \* buffered records that force a flush, 128 KB in the code
  MaxSegSize,     \* records after which a segment is rotated, 64 MB
  MaxFailures,    \* bound on the failures of os.OpenFile in rotateSegment
  MaxSegments,    \* bound on the number of segments
  MaxRestarts     \* bound on the number of process starts after the first

ASSUME WALAssumption ==
  /\ Policies \subseteq {"always", "everysec", "none"}
  /\ FlushAt \in Nat \ {0}
  /\ MaxSegSize \in Nat \ {0}
  /\ MaxFailures \in Nat
  /\ MaxSegments \in Nat \ {0}
  /\ MaxRestarts \in Nat

VARIABLES
  policy,       \* the configured fsync policy, the same in every process
  disk,         \* segment -> cells, as the operating system shows them
  synced,       \* segment -> number of cells at its start that are durable
  buf,          \* cells in bufWriter
  segmentID,
  currentSize,
  usable,       \* activeFile is open (rotateSegment may leave it closed)
  sticky,       \* bufWriter has met a write error and returns it from now on
  writing,      \* the record that writeRecord has written and not yet synced
  phase,        \* "up", "closed" (w.closed) or "down" (no process)
  restarts,
  failures,     \* history: failed opens in rotateSegment, of all processes
  accepted,     \* history: messages whose WritePublish returned nil, in order
  ackedIDs,     \* history: messages whose WriteAck returned nil
  written,      \* history: publish records in the order of writeRecord calls
  stable,       \* history: messages in a file when its Sync completed
  recovered     \* what Replay handed to the broker when this process started

logVars == <<disk, synced, buf, segmentID, currentSize, usable, sticky>>
historyVars == <<failures, accepted, ackedIDs, written, stable>>
vars == <<policy, logVars, historyVars, writing, phase, restarts, recovered>>

Segments == 1..MaxSegments
NoRecord == [op |-> "none"]
Cell(op, m) == [op |-> op, msg |-> m, torn |-> FALSE]
Torn(cell) == [cell EXCEPT !.torn = TRUE]

MessagesOf(cells) ==
  {c.msg : c \in {c \in Range(cells) : c.op = "publish" /\ ~c.torn}}

-----------------------------------------------------------------------------
(* Replay: every segment in order, each up to its first torn cell; publish *)
(* records are handed to the broker and all others skipped.                *)

\* The loop over a file reads its n-th record: it has met no torn one.
Readable(cells, n) == \A i \in 1..n : ~cells[i].torn

\* What a file of the given cells has handed over, after each of them.
Handed(cells) ==
  LET handed[n \in 0..Len(cells)] ==
        IF n = 0 THEN <<>>
        ELSE IF Readable(cells, n) /\ cells[n].op = "publish"
             THEN Append(handed[n - 1], cells[n].msg)
             ELSE handed[n - 1]
  IN  handed

ReplayFile(cells) == Handed(cells)[Len(cells)]

\* What the files of d have handed over, after each of them.
HandedBy(d) ==
  LET handed[s \in 0..MaxSegments] ==
        IF s = 0 THEN <<>> ELSE handed[s - 1] \o ReplayFile(d[s])
  IN  handed

Replay(d) == HandedBy(d)[MaxSegments]

-----------------------------------------------------------------------------
(* OpenWAL always opens segment 1, at its end, and syncs nothing: what a   *)
(* killed process has written may still be in the page cache alone.        *)

\* Slip: O_TRUNC instead of O_APPEND.
OpenWALTruncates(d) ==
  /\ disk' = [d EXCEPT ![1] = <<>>]
  /\ synced' = [synced EXCEPT ![1] = 0]
  /\ buf' = <<>>
  /\ segmentID' = 1
  /\ currentSize' = 0
  /\ usable' = TRUE
  /\ sticky' = FALSE

OpenWAL(d) ==
  /\ disk' = d
  /\ UNCHANGED synced
  /\ buf' = <<>>
  /\ segmentID' = 1
  /\ currentSize' = Len(d[1])
  /\ usable' = TRUE
  /\ sticky' = FALSE

Init ==
  /\ policy \in Policies
  /\ disk = [s \in Segments |-> <<>>]
  /\ synced = [s \in Segments |-> 0]
  /\ buf = <<>>
  /\ segmentID = 1
  /\ currentSize = 0
  /\ usable = TRUE
  /\ sticky = FALSE
  /\ writing = NoRecord
  /\ phase = "up"
  /\ restarts = 0
  /\ failures = 0
  /\ accepted = <<>>
  /\ ackedIDs = {}
  /\ written = <<>>
  /\ stable = {}
  /\ recovered = <<>>

\* bufWriter.Flush, whose error every caller ignores: on a closed file the
\* buffer is kept and the writer fails from now on.
Flush(b) ==
  /\ disk' = IF usable THEN [disk EXCEPT ![segmentID] = @ \o b] ELSE disk
  /\ buf' = IF usable THEN <<>> ELSE b
  /\ sticky' = (sticky \/ (~usable /\ b # <<>>))

\* activeFile.Sync after a flush: all of the active file is durable.  On a
\* closed file it fails, and the error is ignored.
FileSync ==
  \/ /\ usable
     /\ synced' = [synced EXCEPT ![segmentID] = Len(disk'[segmentID])]
     /\ stable' = stable \cup MessagesOf(disk'[segmentID])
  \/ /\ ~usable
     /\ UNCHANGED <<synced, stable>>

\* writeRecord with w.mu held, up to the flush: a crash can come before the
\* sync.  A closed log and a failed bufWriter return the error and write nothing.
WriteRecord(op, m) ==
  /\ phase = "up"
  /\ writing = NoRecord
  /\ ~sticky
  /\ currentSize' = currentSize + 1
  /\ writing' = Cell(op, m)
  /\ LET b == Append(buf, Cell(op, m))
     IN  \/ /\ policy = "always" \/ Len(b) >= FlushAt
            /\ Flush(b)
         \/ /\ policy # "always" /\ Len(b) < FlushAt
            /\ buf' = b
            /\ UNCHANGED <<disk, sticky>>
  /\ written' = IF op = "publish" THEN Append(written, m) ELSE written
  /\ UNCHANGED <<policy, synced, segmentID, usable, failures, accepted, ackedIDs,
                 stable, phase, restarts, recovered>>

\* WritePublish and WriteAck.  A broker publishes a new ID once, and logs an
\* acknowledgement of a message that it has delivered.
WritePublish(m) ==
  /\ m \notin Range(written)
  /\ WriteRecord("publish", m)

WriteAck(m) ==
  /\ m \in (Range(accepted) \cup Range(recovered)) \ ackedIDs
  /\ WriteRecord("ack", m)

\* Slip: no Sync of the segment that is left.
RotateSegmentUnsynced ==
  /\ segmentID < MaxSegments
  /\ segmentID' = segmentID + 1
  /\ disk' = [disk EXCEPT ![segmentID] = @ \o buf]
  /\ usable' = TRUE
  /\ buf' = <<>>
  /\ sticky' = FALSE
  /\ currentSize' = 0
  /\ UNCHANGED <<synced, stable, failures>>

\* rotateSegment: flush, sync, close, then open the next segment for append.
\* When the open fails the closed file and its writer stay in place.
RotateSegment ==
  /\ segmentID < MaxSegments
  /\ segmentID' = segmentID + 1
  /\ disk' = IF usable THEN [disk EXCEPT ![segmentID] = @ \o buf] ELSE disk
  /\ FileSync
  /\ \/ /\ usable' = TRUE
        /\ buf' = <<>>
        /\ sticky' = FALSE
        /\ currentSize' = 0
        /\ UNCHANGED failures
     \/ /\ failures < MaxFailures
        /\ failures' = failures + 1
        /\ usable' = FALSE
        /\ buf' = IF usable THEN <<>> ELSE buf
        /\ sticky' = (sticky \/ (~usable /\ buf # <<>>))
        /\ UNCHANGED currentSize

\* Slip: > instead of >=.
SegmentOverfull == currentSize > MaxSegSize

\* "Segment rotation if exceeds max segment size"
SegmentFull == currentSize >= MaxSegSize

\* Slip: policy always does not sync.
NoFsync == UNCHANGED <<synced, stable>>

\* The flush was part of WriteRecord; policy always syncs before it returns.
PolicyFsync ==
  IF policy = "always" THEN FileSync ELSE UNCHANGED <<synced, stable>>

\* The rest of writeRecord: the sync of policy always, the rotation, return nil.
FinishRecord ==
  /\ phase = "up"
  /\ writing # NoRecord
  /\ writing' = NoRecord
  /\ \/ /\ SegmentFull
        /\ RotateSegment
     \/ /\ ~SegmentFull
        /\ UNCHANGED <<disk, buf, segmentID, currentSize, usable, sticky, failures>>
        /\ PolicyFsync
  /\ accepted' = IF writing.op = "publish" THEN Append(accepted, writing.msg)
                                           ELSE accepted
  /\ ackedIDs' = IF writing.op = "ack" THEN ackedIDs \cup {writing.msg} ELSE ackedIDs
  /\ UNCHANGED <<policy, written, phase, restarts, recovered>>

\* Sync, called every second under policy everysec.  A crash can come between
\* the flush and the fsync.
Sync ==
  /\ policy = "everysec"
  /\ phase = "up"
  /\ writing = NoRecord
  /\ Flush(buf)
  /\ FileSync \/ UNCHANGED <<synced, stable>>
  /\ UNCHANGED <<policy, segmentID, currentSize, usable, failures, accepted,
                 ackedIDs, written, writing, phase, restarts, recovered>>

Close ==
  /\ phase = "up"
  /\ writing = NoRecord
  /\ phase' = "closed"
  /\ Flush(buf)
  /\ FileSync
  /\ UNCHANGED <<policy, segmentID, currentSize, usable, failures, accepted,
                 ackedIDs, written, writing, restarts, recovered>>

-----------------------------------------------------------------------------
(* The world around the process.  Both kinds of crash lose the buffer.     *)

\* What can be left of a file whose first n cells are safe.
CutBeyond(cells, n) ==
  {SubSeq(cells, 1, k) : k \in n..Len(cells)}
    \cup {Append(SubSeq(cells, 1, k - 1), Torn(cells[k])) : k \in (n + 1)..Len(cells)}

\* A crash of the process can only cut short the write that is going on.
ProcessKeeps ==
  [s \in Segments |->
     IF s = segmentID /\ writing # NoRecord /\ buf = <<>> /\ Len(disk[s]) > synced[s]
     THEN Len(disk[s]) - 1
     ELSE Len(disk[s])]

\* A crash leaves at least the kept[s] first cells of each segment s.
Crash(kept) ==
  /\ phase = "up"
  /\ phase' = "down"
  /\ LET remains == [s \in Segments |-> CutBeyond(disk[s], kept[s])]
     IN  \E d \in [Segments -> UNION Range(remains)] :
           /\ \A s \in Segments : d[s] \in remains[s]
           /\ disk' = d
  /\ buf' = <<>>
  /\ writing' = NoRecord
  /\ UNCHANGED <<policy, segmentID, currentSize, usable, sticky, historyVars,
                 restarts, recovered>>

\* The machine loses power: what is left is on the disk.
PowerLoss ==
  /\ Crash(synced)
  /\ synced' = [s \in Segments |-> Len(disk'[s])]

\* The process dies, and the page cache stays.
ProcessCrash ==
  /\ Crash(ProcessKeeps)
  /\ UNCHANGED synced

\* main.go: OpenWAL, then Replay into the topics of the new broker.
Restart ==
  /\ phase # "up"
  /\ restarts < MaxRestarts
  /\ phase' = "up"
  /\ restarts' = restarts + 1
  /\ OpenWAL(disk)
  /\ recovered' = Replay(disk)
  /\ UNCHANGED <<policy, historyVars, writing>>

Next ==
  \/ \E m \in Messages : WritePublish(m) \/ WriteAck(m)
  \/ FinishRecord
  \/ Sync
  \/ Close
  \/ PowerLoss
  \/ ProcessCrash
  \/ Restart

Spec == Init /\ [][Next]_vars

-----------------------------------------------------------------------------
Cells == {Cell(op, m) : op \in {"publish", "ack"}, m \in Messages}

\* Type invariant: every cell of every file and of the buffer is a record of
\* writeRecord, intact or torn; the durable part never exceeds the file; in the
\* first process an open segment is always below the rotation threshold; the
\* bufWriter fails only over a closed file.
TypeOK ==
  /\ policy \in Policies
  /\ failures \in 0..MaxFailures
  /\ \A s \in Segments : Range(disk[s]) \subseteq Cells \cup {Torn(c) : c \in Cells}
  /\ Range(buf) \subseteq Cells
  /\ \A s \in Segments : synced[s] \in 0..Len(disk[s])
  /\ segmentID \in Segments
  /\ phase = "up" /\ usable /\ writing = NoRecord /\ restarts = 0
       => currentSize < MaxSegSize
  /\ sticky => ~usable
  /\ usable \in BOOLEAN /\ sticky \in BOOLEAN
  /\ writing \in Cells \cup {NoRecord}
  /\ phase \in {"up", "closed", "down"}
  /\ restarts \in 0..MaxRestarts
  /\ Range(accepted) \subseteq Range(written)
  /\ Range(recovered) \subseteq Range(written)
  /\ ackedIDs \subseteq Messages

\* A message that a completed Sync covered (writeRecord under always, Sync,
\* rotateSegment, Close) keeps an intact record through every crash, restart
\* and rotation, and the next Replay returns it unless a torn record of an
\* earlier crash comes before it in the same segment.
StableIsRecovered ==
  \A m \in stable :
    \E s \in Segments : \E i \in DOMAIN disk[s] :
      /\ disk[s][i] = Cell("publish", m)
      /\ m \in Range(Replay(disk)) \/ \E j \in 1..(i - 1) : disk[s][j].torn

\* Under policy always a publish is confirmed to the client only after its
\* record is durable, the record that fills a segment included, as long as
\* rotateSegment has always been able to open the next segment.
AcceptedIsStable ==
  policy = "always" /\ failures = 0 => Range(accepted) \subseteq stable

\* After the first crash or shutdown Replay returns a prefix of what was
\* written, over all segments and under every policy: rotateSegment syncs a
\* segment before the next one gets its first record, so no crash leaves a
\* hole in the history unless a segment could not be opened.
FirstRecoveryIsPrefix ==
  restarts <= 1 /\ failures = 0 =>
    \E n \in 0..Len(written) : recovered = SubSeq(written, 1, n)

\* README.md: the log "ensures zero data loss across power outages or
\* restarts".  Every confirmed message is recovered by the next process, here
\* under the strictest policy.
ZeroDataLoss ==
  [][Restart => Range(accepted) \subseteq Range(recovered')]_vars

\* docs/wiki/Architecture-Deep-Dive.md: a start "replays unconsumed messages
\* directly into memory".  No message comes back whose acknowledgement was
\* logged before the crash or shutdown.
OnlyUnconsumedReplayed ==
  [][Restart => Range(recovered') \cap ackedIDs = {}]_vars

=============================================================================
