----------------------------- MODULE WALProofs ------------------------------
(***************************************************************************)
(* Four results about the log, for any number of messages, segments,       *)
(* restarts and failed opens and any segment and buffer size: under policy *)
(* always no publish is confirmed before it is durable; the log is type    *)
(* correct; a durable message is recovered; the first recovery keeps the   *)
(* order.  Each of the last three needs what Replay computes.              *)
(***************************************************************************)
EXTENDS WAL, Loops

\* The time of a leaf that names no prover.
USE SMTT(30)

AnyCell == [op : {"publish", "ack"}, msg : Messages, torn : BOOLEAN]

\* What the argument needs of the types.
Shape ==
  /\ disk \in [Segments -> Seq(AnyCell)]
  /\ synced \in [Segments -> Nat]
  /\ buf \in Seq(AnyCell)
  /\ segmentID \in Segments
  /\ writing \in Cells \cup {NoRecord}
  /\ accepted \in Seq(Messages)
  /\ failures \in Nat
  /\ phase # "up" => writing = NoRecord

(***************************************************************************)
(* The inductive invariant: as long as every segment could be opened, the  *)
(* active file is open, and the record that writeRecord is about to sync   *)
(* is in the active file, not in the buffer or in another segment; so the  *)
(* Sync that precedes the confirmation, also that of the rotation, covers  *)
(* it.                                                                     *)
(***************************************************************************)
InActiveFile ==
  policy = "always" /\ failures = 0 =>
    /\ usable
    /\ writing # NoRecord => writing \in Range(disk[segmentID])

IInv == Shape /\ InActiveFile /\ AcceptedIsStable

USE WALAssumption

\* A cell has a message and is not torn, and is not the absence of a record.
LEMMA CellFields ==
  ASSUME NEW c \in Cells
  PROVE  /\ c.msg \in Messages /\ c.torn = FALSE /\ c.op \in {"publish", "ack"}
         /\ c \in AnyCell
<1>1. PICK op \in {"publish", "ack"}, m \in Messages : c = [op |-> op, msg |-> m, torn |-> FALSE]
  BY DEF Cells, Cell
<1> QED
  BY <1>1 DEF AnyCell

\* Appending keeps the elements of a sequence and adds one.
LEMMA ElementsOfAppend ==
  ASSUME NEW S, NEW s \in Seq(S), NEW e \in S
  PROVE  Range(Append(s, e)) = Range(s) \cup {e}
<1>1. \A i \in 1..Len(s) : Append(s, e)[i] = s[i]
  OBVIOUS
<1>2. Append(s, e)[Len(s) + 1] = e /\ Len(Append(s, e)) = Len(s) + 1
  OBVIOUS
<1>3. DOMAIN s = 1..Len(s) /\ DOMAIN Append(s, e) = 1..(Len(s) + 1)
  OBVIOUS
<1> QED
  BY <1>1, <1>2, <1>3 DEF Range

\* The elements of a concatenation.
LEMMA ElementsOfConcatenation ==
  ASSUME NEW S, NEW s \in Seq(S), NEW t \in Seq(S)
  PROVE  Range(s \o t) = Range(s) \cup Range(t)
<1>1. /\ DOMAIN s = 1..Len(s) /\ DOMAIN t = 1..Len(t)
      /\ DOMAIN (s \o t) = 1..(Len(s) + Len(t))
      /\ Len(s) \in Nat /\ Len(t) \in Nat
  OBVIOUS
<1>2. \A i \in 1..Len(s) : (s \o t)[i] = s[i]
  OBVIOUS
<1>3. \A i \in 1..Len(t) : (s \o t)[Len(s) + i] = t[i] /\ Len(s) + i \in DOMAIN (s \o t)
  BY <1>1
<1>4. \A i \in DOMAIN (s \o t) : i \in 1..Len(s) \/ i - Len(s) \in 1..Len(t)
  BY <1>1
<1>5. \A i \in DOMAIN (s \o t) : i - Len(s) \in 1..Len(t) => (s \o t)[i] = t[i - Len(s)]
  BY <1>1, <1>3
<1>6. Range(s \o t) \subseteq Range(s) \cup Range(t)
  BY <1>1, <1>2, <1>4, <1>5, Zenon DEF Range
<1>7. Range(s) \subseteq Range(s \o t)
  BY <1>1, <1>2 DEF Range
<1>8. Range(t) \subseteq Range(s \o t)
  BY <1>1, <1>3, Zenon DEF Range
<1> QED
  BY <1>6, <1>7, <1>8

\* The log is empty at first.
LEMMA InitIInv == Init => IInv
BY DEF Init, IInv, Shape, InActiveFile, AcceptedIsStable, Segments, Range

\* A flush leaves sequences of cells.
LEMMA FlushType ==
  ASSUME Shape, NEW b \in Seq(AnyCell), Flush(b)
  PROVE  disk' \in [Segments -> Seq(AnyCell)] /\ buf' \in Seq(AnyCell)
<1>1. \/ disk' = [disk EXCEPT ![segmentID] = @ \o b]
      \/ disk' = disk
  BY DEF Flush
<1>2. buf' = <<>> \/ buf' = b
  BY DEF Flush
<1>3. [disk EXCEPT ![segmentID] = @ \o b] \in [Segments -> Seq(AnyCell)]
  BY DEF Shape
<1>4. disk' \in [Segments -> Seq(AnyCell)]
  BY <1>1, <1>3, Zenon DEF Shape
<1>5. <<>> \in Seq(AnyCell)
  OBVIOUS
<1> QED
  BY <1>2, <1>4, <1>5, Zenon

\* WritePublish and WriteAck: policy always flushes the record into the open file.
LEMMA WriteIInv ==
  ASSUME IInv, NEW op \in {"publish", "ack"}, NEW m \in Messages, WriteRecord(op, m)
  PROVE  IInv'
<1> DEFINE c == Cell(op, m)
           b == Append(buf, c)
<1>1. c \in Cells /\ c \in AnyCell
  <2>1. c \in Cells
    BY DEF Cells
  <2> HIDE DEF c
  <2> QED
    BY <2>1, CellFields, Zenon
<1>2. b \in Seq(AnyCell) /\ Range(b) = Range(buf) \cup {c}
  BY <1>1, ElementsOfAppend DEF IInv, Shape
<1>3. /\ writing' = c /\ segmentID' = segmentID /\ accepted' = accepted
      /\ policy' = policy /\ failures' = failures /\ usable' = usable
      /\ stable' = stable /\ synced' = synced /\ phase = "up" /\ phase' = "up"
  BY Zenon DEF WriteRecord
<1>4. \/ Flush(b)
      \/ policy # "always" /\ buf' = b /\ disk' = disk
  BY Zenon DEF WriteRecord
<1> HIDE DEF b, c
<1>6. disk' \in [Segments -> Seq(AnyCell)] /\ buf' \in Seq(AnyCell)
  BY <1>2, <1>4, FlushType, Zenon DEF IInv, Shape
<1>7. policy = "always" /\ usable => c \in Range(disk'[segmentID])
  <2> SUFFICES ASSUME policy = "always", usable
               PROVE  c \in Range(disk'[segmentID])
    BY Zenon
  <2>1. disk'[segmentID] = disk[segmentID] \o b
    BY <1>4, Zenon DEF Flush, IInv, Shape
  <2> QED
    BY <1>2, <2>1, ElementsOfConcatenation DEF IInv, Shape
<1>8. Shape'
  BY <1>1, <1>3, <1>6, Zenon DEF IInv, Shape
<1>9. InActiveFile'
  BY <1>3, <1>7, Zenon DEF IInv, InActiveFile
<1>10. AcceptedIsStable'
  BY <1>3 DEF IInv, AcceptedIsStable
<1> QED
  BY <1>8, <1>9, <1>10 DEF IInv

\* A completed Sync of the active file covers the messages of its intact records.
LEMMA SyncCovers ==
  ASSUME NEW cells \in Seq(AnyCell), NEW c \in Cells, c \in Range(cells), c.op = "publish"
  PROVE  c.msg \in MessagesOf(cells)
BY CellFields, Zenon DEF MessagesOf

\* The end of writeRecord: whether it rotates or not, it syncs the file that has
\* the record before it confirms.
LEMMA FinishIInv ==
  ASSUME IInv, FinishRecord
  PROVE  IInv'
<1> DEFINE file == disk'[segmentID]
<1>1. writing \in Cells /\ writing.msg \in Messages /\ writing.op \in {"publish", "ack"}
  BY CellFields, Zenon DEF FinishRecord, IInv, Shape
<1>2. /\ writing' = NoRecord /\ policy' = policy
      /\ accepted' = IF writing.op = "publish" THEN Append(accepted, writing.msg) ELSE accepted
  BY DEF FinishRecord
<1>3. \/ RotateSegment
      \/ /\ UNCHANGED <<disk, buf, segmentID, usable, failures>>
         /\ PolicyFsync
  BY DEF FinishRecord
<1>4. disk[segmentID] \in Seq(AnyCell) /\ disk[segmentID] \o buf \in Seq(AnyCell)
  BY DEF IInv, Shape
<1>5. disk' \in [Segments -> Seq(AnyCell)] /\ buf' \in Seq(AnyCell)
  <2>1. \/ disk' = [disk EXCEPT ![segmentID] = @ \o buf]
        \/ disk' = disk
    BY <1>3, Zenon DEF RotateSegment
  <2>2. buf' = <<>> \/ buf' = buf
    BY <1>3, Zenon DEF RotateSegment
  <2>3. [disk EXCEPT ![segmentID] = @ \o buf] \in [Segments -> Seq(AnyCell)]
    BY <1>4 DEF IInv, Shape
  <2>4. disk' \in [Segments -> Seq(AnyCell)]
    BY <2>1, <2>3, Zenon DEF IInv, Shape
  <2>5. <<>> \in Seq(AnyCell)
    OBVIOUS
  <2> QED
    BY <2>2, <2>4, <2>5, Zenon DEF IInv, Shape
<1>6. segmentID' \in Segments /\ failures' \in Nat
  <2>1. segmentID \in Segments /\ failures \in Nat
    BY DEF IInv, Shape
  <2>2. /\ segmentID' = segmentID \/ (segmentID < MaxSegments /\ segmentID' = segmentID + 1)
        /\ failures' = failures \/ failures' = failures + 1
    BY <1>3, Zenon DEF RotateSegment
  <2> QED
    BY <2>1, <2>2 DEF Segments
<1>7. Len(file) \in Nat
  BY <1>5 DEF IInv, Shape
<1>8. synced' \in [Segments -> Nat]
  BY <1>3, <1>7, Zenon DEF RotateSegment, PolicyFsync, FileSync, IInv, Shape
<1>9. accepted' \in Seq(Messages) /\ Range(accepted') \subseteq Range(accepted) \cup {writing.msg}
  BY <1>1, <1>2, ElementsOfAppend DEF IInv, Shape
<1>10. Shape'
  BY <1>2, <1>5, <1>6, <1>8, <1>9 DEF FinishRecord, Shape
<1>11. ASSUME policy = "always", failures' = 0
       PROVE  /\ failures = 0 /\ usable' = TRUE
              /\ Range(disk[segmentID]) \subseteq Range(file)
              /\ stable' = stable \cup MessagesOf(file)
  <2>1. CASE RotateSegment
    <3>1. failures = 0 /\ usable' = TRUE
      BY <1>11, <2>1 DEF RotateSegment, IInv, Shape
    <3>2. file = disk[segmentID] \o buf
      BY <1>11, <2>1, <3>1, Zenon DEF RotateSegment, IInv, Shape, InActiveFile
    <3> QED
      BY <1>4, <1>11, <2>1, <3>1, <3>2, ElementsOfConcatenation
      DEF RotateSegment, FileSync, IInv, Shape, InActiveFile
  <2>2. CASE UNCHANGED <<disk, buf, segmentID, usable, failures>> /\ PolicyFsync
    BY <1>11, <2>2 DEF PolicyFsync, FileSync, IInv, InActiveFile
  <2> QED
    BY <1>3, <2>1, <2>2, Zenon
<1>12. InActiveFile'
  BY <1>2, <1>11, Zenon DEF InActiveFile
<1>13. AcceptedIsStable'
  <2> SUFFICES ASSUME policy = "always", failures' = 0
               PROVE  Range(accepted') \subseteq stable'
    BY <1>2, Zenon DEF AcceptedIsStable
  <2>1. Range(accepted) \subseteq stable'
    BY <1>11, Zenon DEF IInv, AcceptedIsStable
  <2>2. writing \in Range(file)
    BY <1>1, <1>11, Zenon DEF IInv, InActiveFile, FinishRecord
  <2>3. file \in Seq(AnyCell)
    BY <1>5, Zenon DEF IInv, Shape
  <2>4. writing.op = "publish" => writing.msg \in stable'
    BY <1>1, <1>11, <2>2, <2>3, SyncCovers, Zenon
  <2> QED
    BY <1>2, <1>9, <2>1, <2>4, Zenon
<1> QED
  BY <1>10, <1>12, <1>13 DEF IInv

\* Sync and Close flush and sync; they confirm nothing.
LEMMA SyncCloseIInv ==
  ASSUME IInv, Sync \/ Close
  PROVE  IInv'
<1>1. /\ Flush(buf) /\ (FileSync \/ UNCHANGED <<synced, stable>>)
      /\ writing = NoRecord
      /\ UNCHANGED <<policy, segmentID, usable, failures, accepted, writing>>
  BY Zenon DEF Sync, Close
<1>2. disk' \in [Segments -> Seq(AnyCell)] /\ buf' \in Seq(AnyCell)
  BY <1>1, FlushType, Zenon DEF IInv, Shape
<1>3. Len(disk'[segmentID]) \in Nat
  BY <1>2 DEF IInv, Shape
<1>4. synced' \in [Segments -> Nat]
  BY <1>1, <1>3, Zenon DEF FileSync, IInv, Shape
<1>5. Shape'
  BY <1>1, <1>2, <1>4, Zenon DEF IInv, Shape
<1>6. InActiveFile' /\ AcceptedIsStable'
  BY <1>1, Zenon DEF FileSync, IInv, InActiveFile, AcceptedIsStable
<1> QED
  BY <1>5, <1>6, Zenon DEF IInv

\* What a crash leaves of a file is a sequence of cells, the last perhaps torn.
LEMMA CutType ==
  ASSUME NEW cells \in Seq(AnyCell), NEW n \in Nat
  PROVE  CutBeyond(cells, n) \subseteq Seq(AnyCell)
<1>1. \A k \in n..Len(cells) : SubSeq(cells, 1, k) \in Seq(AnyCell)
  OBVIOUS
<1>2. ASSUME NEW k \in (n + 1)..Len(cells)
      PROVE  Append(SubSeq(cells, 1, k - 1), Torn(cells[k])) \in Seq(AnyCell)
  <2>1. k \in 1..Len(cells) /\ cells[k] \in AnyCell
    OBVIOUS
  <2>2. Torn(cells[k]) \in AnyCell
    BY <2>1, Zenon DEF AnyCell, Torn
  <2>3. SubSeq(cells, 1, k - 1) \in Seq(AnyCell)
    BY <2>1
  <2> QED
    BY <2>2, <2>3
<1> QED
  BY <1>1, <1>2, Zenon DEF CutBeyond

\* What is durable stays so, or all that a crash has left is durable.
SyncedOrLeft ==
  synced' = synced \/ synced' = [s \in Segments |-> Len(disk'[s])]

\* A crash takes records away, and nothing that was recorded as durable before.
LEMMA CrashIInv ==
  ASSUME IInv, NEW kept \in [Segments -> Nat], Crash(kept), SyncedOrLeft
  PROVE  IInv'
<1>1. /\ buf' = <<>> /\ writing' = NoRecord
      /\ UNCHANGED <<policy, segmentID, usable, failures, accepted, stable>>
  BY DEF Crash, historyVars
<1>2. disk' \in [Segments -> Seq(AnyCell)]
  <2> DEFINE remains == [s \in Segments |-> CutBeyond(disk[s], kept[s])]
  <2>1. PICK d \in [Segments -> UNION Range(remains)] :
          (\A s \in Segments : d[s] \in remains[s]) /\ disk' = d
    BY DEF Crash
  <2>2. \A s \in Segments : remains[s] \subseteq Seq(AnyCell)
    BY CutType, Zenon DEF IInv, Shape
  <2> HIDE DEF remains
  <2>3. \A s \in Segments : d[s] \in Seq(AnyCell)
    BY <2>1, <2>2, Zenon
  <2> QED
    BY <2>1, <2>3
<1>3. \A s \in Segments : Len(disk'[s]) \in Nat
  BY <1>2
<1>4. synced' \in [Segments -> Nat]
  BY <1>3, Zenon DEF SyncedOrLeft, IInv, Shape
<1>5. Shape'
  BY <1>1, <1>2, <1>4 DEF IInv, Shape
<1>6. InActiveFile' /\ AcceptedIsStable'
  BY <1>1, Zenon DEF IInv, InActiveFile, AcceptedIsStable
<1> QED
  BY <1>5, <1>6 DEF IInv

\* A restart opens the first segment with an empty buffer.
LEMMA RestartIInv ==
  ASSUME IInv, Restart
  PROVE  IInv'
BY DEF Restart, OpenWAL, historyVars, IInv, Shape, InActiveFile, AcceptedIsStable, Segments

\* Every step preserves the invariant.
LEMMA StepIInv == IInv /\ [Next]_vars => IInv'
<1> SUFFICES ASSUME IInv, [Next]_vars
             PROVE  IInv'
  OBVIOUS
<1>1. ASSUME NEW m \in Messages, WritePublish(m) \/ WriteAck(m)
      PROVE  IInv'
  BY <1>1, WriteIInv DEF WritePublish, WriteAck
<1>2. CASE FinishRecord
  BY <1>2, FinishIInv
<1>3. CASE Sync \/ Close
  BY <1>3, SyncCloseIInv
<1>4. CASE PowerLoss
  BY <1>4, CrashIInv, Zenon DEF PowerLoss, SyncedOrLeft, IInv, Shape
<1>5. CASE ProcessCrash
  <2>1. \A s \in Segments : Len(disk[s]) \in Nat /\ synced[s] \in Nat
    BY DEF IInv, Shape
  <2>2. ProcessKeeps \in [Segments -> Nat]
    BY <2>1 DEF ProcessKeeps
  <2> QED
    BY <1>5, <2>2, CrashIInv, Zenon DEF ProcessCrash, SyncedOrLeft
<1>6. CASE Restart
  BY <1>6, RestartIInv
<1>7. CASE UNCHANGED vars
  BY <1>7, Zenon DEF vars, logVars, historyVars, IInv, Shape, InActiveFile, AcceptedIsStable
<1> QED
  BY <1>1, <1>2, <1>3, <1>4, <1>5, <1>6, <1>7 DEF Next

(***************************************************************************)
(* Under policy always, WritePublish returns nil only after a Sync of the  *)
(* file that holds the record, whatever crashes, restarts and rotations    *)
(* come between, unless a segment could not be opened.                     *)
(***************************************************************************)
THEOREM ConfirmedIsDurable == Spec => []AcceptedIsStable
<1>1. IInv => AcceptedIsStable
  BY DEF IInv
<1> QED
  BY InitIInv, StepIInv, <1>1, PTL DEF Spec

-----------------------------------------------------------------------------
(* The loops of Replay, one over the records of a file, one over the files. *)

\* What one record hands over.
Round(cells, n, q) ==
  IF Readable(cells, n) /\ cells[n].op = "publish" THEN Append(q, cells[n].msg) ELSE q

\* One unfolding of the loop.
HandedBody(cells, h) ==
  [n \in 0..Len(cells) |->
     IF n = 0 THEN <<>>
     ELSE IF Readable(cells, n) /\ cells[n].op = "publish"
          THEN Append(h[n - 1], cells[n].msg)
          ELSE h[n - 1]]

\* The loop over a file, record by record.
LEMMA HandedLoop ==
  ASSUME NEW cells \in Seq(AnyCell)
  PROVE  /\ Handed(cells) \in [0..Len(cells) -> Seq(Messages)]
         /\ Handed(cells)[0] = <<>>
         /\ \A n \in 1..Len(cells) : Handed(cells)[n] = Round(cells, n, Handed(cells)[n - 1])
<1>1. PICK N \in Nat : N = Len(cells)
  OBVIOUS
<1>2. \A n \in 1..N : cells[n].msg \in Messages
  <2>1. \A n \in 1..N : cells[n] \in AnyCell
    BY <1>1
  <2> QED
    BY <2>1, Zenon DEF AnyCell
<1>r. \A n \in 1..N, q \in Seq(Messages) : Round(cells, n, q) \in Seq(Messages)
  BY <1>2 DEF Round
<1>3. PICK round : round = [n \in 1..N |-> [q \in Seq(Messages) |-> Round(cells, n, q)]]
  BY Zenon
<1>4. round \in [1..N -> [Seq(Messages) -> Seq(Messages)]]
  BY <1>3, <1>r, Zenon
<1>5. <<>> \in Seq(Messages)
  OBVIOUS
<1>6. PICK f \in [0..N -> Seq(Messages)] :
        f[0] = <<>> /\ \A n \in 1..N : f[n] = round[n][f[n - 1]]
  <2>1. PICK A, a : A = Seq(Messages) /\ a = <<>>
    BY Zenon
  <2>2. a \in A /\ round \in [1..N -> [A -> A]]
    BY <1>4, <1>5, <2>1, Zenon
  <2>3. PICK f : Loops(N, A, a, round, f)
    BY <2>2, LoopExists, Zenon
  <2> QED
    BY <2>1, <2>3, Zenon DEF Loops
<1>7. \A n \in 1..N : n - 1 \in 0..N /\ n \in 0..N
  OBVIOUS
<1>8. \A n \in 1..N : f[n] = Round(cells, n, f[n - 1])
  BY <1>3, <1>6, <1>7, Zenon
<1>9. f = HandedBody(cells, f)
  <2>1. \A n \in 0..N : n = 0 \/ n \in 1..N
    OBVIOUS
  <2> QED
    BY <1>1, <1>6, <1>8, <2>1, Zenon DEF Round, HandedBody
<1>10. Handed(cells) = CHOOSE h : h = HandedBody(cells, h)
  BY Zenon DEF Handed, HandedBody
<1>11. Handed(cells) = HandedBody(cells, Handed(cells))
  BY <1>9, <1>10, Zenon
<1>12. PICK h : h = Handed(cells)
  BY Zenon
<1>13. DOMAIN h = 0..N /\ h[0] = <<>> /\ \A n \in 1..N : h[n] = Round(cells, n, h[n - 1])
  <2>1. h = HandedBody(cells, h)
    BY <1>11, <1>12
  <2>2. /\ DOMAIN HandedBody(cells, h) = 0..N /\ HandedBody(cells, h)[0] = <<>>
        /\ \A n \in 0..N : n # 0 => HandedBody(cells, h)[n] = Round(cells, n, h[n - 1])
    BY <1>1 DEF HandedBody, Round
  <2> QED
    BY <2>1, <2>2
<1>14. \A n \in 0..N : h[n] \in Seq(Messages)
  <2> DEFINE S == {n \in 0..N : h[n] \in Seq(Messages)}
  <2>1. 0 \in S
    <3>1. h[0] \in Seq(Messages)
      BY <1>5, <1>13, Zenon
    <3> QED
      BY <3>1
  <2>2. ASSUME NEW n \in 0..N, n < N, n \in S
        PROVE  n + 1 \in S
    <3>1. PICK k \in 1..N : k = n + 1
      BY <2>2
    <3>2. h[k] = Round(cells, k, h[n]) /\ h[n] \in Seq(Messages) /\ k \in 0..N
      BY <1>13, <2>2, <3>1
    <3> QED
      BY <1>r, <3>1, <3>2, Zenon
  <2> HIDE DEF S
  <2>3. \A n \in 0..N : n \in S
    BY <2>1, <2>2, UpTo, Zenon
  <2> QED
    BY <2>3, Zenon DEF S
<1>15. h \in [0..N -> Seq(Messages)]
  <2>1. h = [n \in 0..N |-> h[n]]
    <3>1. h = HandedBody(cells, h)
      BY <1>11, <1>12
    <3> QED
      BY <1>1, <3>1, Zenon DEF HandedBody
  <2> QED
    BY <1>14, <2>1, Zenon
<1> QED
  BY <1>1, <1>12, <1>13, <1>15, Zenon

\* One unfolding of the loop over the files.
HandedByBody(d, h) ==
  [s \in 0..MaxSegments |-> IF s = 0 THEN <<>> ELSE h[s - 1] \o ReplayFile(d[s])]

\* A file hands over messages.
LEMMA FileType ==
  ASSUME NEW cells \in Seq(AnyCell)
  PROVE  ReplayFile(cells) \in Seq(Messages)
<1>1. Len(cells) \in 0..Len(cells)
  OBVIOUS
<1> QED
  BY <1>1, HandedLoop, Zenon DEF ReplayFile

\* The loop over the files, file by file.
LEMMA HandedByLoop ==
  ASSUME NEW d \in [Segments -> Seq(AnyCell)]
  PROVE  /\ HandedBy(d) \in [0..MaxSegments -> Seq(Messages)]
         /\ HandedBy(d)[0] = <<>>
         /\ \A s \in Segments : HandedBy(d)[s] = HandedBy(d)[s - 1] \o ReplayFile(d[s])
<1>1. PICK N \in Nat : N = MaxSegments /\ Segments = 1..N
  BY Zenon DEF Segments
<1>2. \A s \in 1..N : ReplayFile(d[s]) \in Seq(Messages)
  BY <1>1, FileType, Zenon
<1>3. PICK round : round = [s \in 1..N |-> [q \in Seq(Messages) |-> q \o ReplayFile(d[s])]]
  BY Zenon
<1>4. round \in [1..N -> [Seq(Messages) -> Seq(Messages)]]
  <2>1. \A s \in 1..N, q \in Seq(Messages) : q \o ReplayFile(d[s]) \in Seq(Messages)
    BY <1>2
  <2> QED
    BY <1>3, <2>1, Zenon
<1>5. <<>> \in Seq(Messages)
  OBVIOUS
<1>6. PICK f \in [0..N -> Seq(Messages)] :
        f[0] = <<>> /\ \A s \in 1..N : f[s] = round[s][f[s - 1]]
  <2>1. PICK A, a : A = Seq(Messages) /\ a = <<>>
    BY Zenon
  <2>2. a \in A /\ round \in [1..N -> [A -> A]]
    BY <1>4, <1>5, <2>1, Zenon
  <2>3. PICK f : Loops(N, A, a, round, f)
    BY <2>2, LoopExists, Zenon
  <2> QED
    BY <2>1, <2>3, Zenon DEF Loops
<1>7. \A s \in 1..N : s - 1 \in 0..N /\ s \in 0..N
  OBVIOUS
<1>8. \A s \in 1..N : f[s] = f[s - 1] \o ReplayFile(d[s])
  BY <1>3, <1>6, <1>7, Zenon
<1>9. f = HandedByBody(d, f)
  <2>1. \A s \in 0..N : s = 0 \/ s \in 1..N
    OBVIOUS
  <2> QED
    BY <1>1, <1>6, <1>8, <2>1, Zenon DEF HandedByBody
<1>10. HandedBy(d) = CHOOSE h : h = HandedByBody(d, h)
  BY Zenon DEF HandedBy, HandedByBody
<1>11. HandedBy(d) = HandedByBody(d, HandedBy(d))
  BY <1>9, <1>10, Zenon
<1>12. PICK h : h = HandedBy(d)
  OBVIOUS
<1>13. DOMAIN h = 0..N /\ h[0] = <<>> /\ \A s \in 1..N : h[s] = h[s - 1] \o ReplayFile(d[s])
  <2>1. h = HandedByBody(d, h)
    BY <1>11, <1>12, Zenon
  <2>2. /\ DOMAIN HandedByBody(d, h) = 0..N /\ HandedByBody(d, h)[0] = <<>>
        /\ \A s \in 0..N : s # 0 => HandedByBody(d, h)[s] = h[s - 1] \o ReplayFile(d[s])
    <3>1. /\ DOMAIN HandedByBody(d, h) = 0..N
          /\ \A s \in 0..N : HandedByBody(d, h)[s] = IF s = 0 THEN <<>> ELSE h[s - 1] \o ReplayFile(d[s])
      BY <1>1, Zenon DEF HandedByBody
    <3>2. 0 \in 0..N
      OBVIOUS
    <3> QED
      BY <3>1, <3>2, Zenon
  <2>3. \A s \in 1..N : s \in 0..N /\ s # 0
    OBVIOUS
  <2> QED
    BY <2>1, <2>2, <2>3, Zenon
<1>14. \A s \in 0..N : h[s] \in Seq(Messages)
  <2> DEFINE S == {s \in 0..N : h[s] \in Seq(Messages)}
  <2>1. 0 \in S
    <3>1. h[0] \in Seq(Messages)
      BY <1>5, <1>13, Zenon
    <3> QED
      BY <3>1
  <2>2. ASSUME NEW s \in 0..N, s < N, s \in S
        PROVE  s + 1 \in S
    <3>1. PICK k \in 1..N : k = s + 1
      BY <2>2
    <3>2. PICK q \in Seq(Messages), r \in Seq(Messages) : q = h[s] /\ r = ReplayFile(d[k])
      BY <1>2, <2>2, Zenon
    <3>3. k - 1 = s /\ k \in 0..N
      BY <3>1
    <3>4. h[k] = q \o r
      BY <1>13, <3>2, <3>3, Zenon
    <3>5. h[k] \in Seq(Messages)
      BY <3>4
    <3> QED
      BY <3>1, <3>3, <3>5, Zenon
  <2> HIDE DEF S
  <2>3. \A s \in 0..N : s \in S
    BY <2>1, <2>2, UpTo, Zenon
  <2> QED
    BY <2>3, Zenon DEF S
<1>15. h \in [0..N -> Seq(Messages)]
  <2>1. h = [s \in 0..N |-> h[s]]
    <3>1. h = HandedByBody(d, h)
      BY <1>11, <1>12
    <3> QED
      BY <1>1, <3>1, Zenon DEF HandedByBody
  <2> QED
    BY <1>14, <2>1, Zenon
<1> QED
  BY <1>1, <1>12, <1>13, <1>15, Zenon

\* A publish before the first torn record is handed over, and nothing else is.
LEMMA FileElements ==
  ASSUME NEW cells \in Seq(AnyCell)
  PROVE  Range(ReplayFile(cells))
           = {cells[i].msg : i \in {i \in DOMAIN cells : Readable(cells, i) /\ cells[i].op = "publish"}}
<1>1. PICK N \in Nat : N = Len(cells) /\ DOMAIN cells = 1..N
  OBVIOUS
<1>2. PICK h : h = Handed(cells)
  BY Zenon
<1>3. /\ h \in [0..N -> Seq(Messages)] /\ h[0] = <<>>
      /\ \A n \in 1..N : h[n] = Round(cells, n, h[n - 1])
  BY <1>1, <1>2, HandedLoop, Zenon
<1> DEFINE From(n) == {cells[i].msg : i \in {i \in 1..n : Readable(cells, i) /\ cells[i].op = "publish"}}
           S == {n \in 0..N : Range(h[n]) = From(n)}
<1>4. 0 \in S
  <2>1. From(0) = {}
    OBVIOUS
  <2>2. Range(<<>>) = {}
    BY DEF Range
  <2>3. 0 \in 0..N
    OBVIOUS
  <2> QED
    BY <1>3, <2>1, <2>2, <2>3, Zenon
<1>5. ASSUME NEW n \in 0..N, n < N, n \in S
      PROVE  n + 1 \in S
  <2>1. PICK k \in 1..N : k = n + 1
    BY <1>5
  <2>2. PICK q \in Seq(Messages) : q = h[n]
    BY <1>3, Zenon
  <2>a. k - 1 = n /\ k \in 0..N
    BY <2>1
  <2>3. h[k] = Round(cells, k, q) /\ Range(q) = From(n)
    BY <1>3, <1>5, <2>a, <2>2, Zenon
  <2>4. \A i \in 1..k : i = k \/ i \in 1..n
    BY <2>1
  <2>5. k \in 1..k /\ 1..n \subseteq 1..k
    BY <2>1
  <2>6. CASE Readable(cells, k) /\ cells[k].op = "publish"
    <3>0. cells[k] \in AnyCell
      BY <1>1
    <3>1. PICK m \in Messages : m = cells[k].msg
      BY <3>0 DEF AnyCell
    <3>2. h[k] = Append(q, m)
      BY <2>3, <2>6, <3>1 DEF Round
    <3>3. Range(h[k]) = Range(q) \cup {m}
      BY <3>2, ElementsOfAppend
    <3>4. From(k) = From(n) \cup {m}
      BY <2>4, <2>5, <2>6, <3>1, Zenon
    <3>5. Range(h[k]) = From(k)
      BY <2>3, <3>3, <3>4, Zenon
    <3> QED
      BY <2>1, <2>a, <3>5, Zenon
  <2>7. CASE ~(Readable(cells, k) /\ cells[k].op = "publish")
    <3>1. h[k] = q
      BY <2>3, <2>7, Zenon DEF Round
    <3>2. From(k) = From(n)
      BY <2>4, <2>5, <2>7, Zenon
    <3>3. Range(h[k]) = From(k)
      BY <2>3, <3>1, <3>2, Zenon
    <3> QED
      BY <2>1, <2>a, <3>3, Zenon
  <2> QED
    BY <2>6, <2>7, Zenon
<1> HIDE DEF S
<1>6. \A n \in 0..N : n \in S
  BY <1>4, <1>5, UpTo, Zenon
<1>7. Range(h[N]) = From(N)
  BY <1>6 DEF S
<1> QED
  BY <1>1, <1>2, <1>7, Zenon DEF ReplayFile

\* Replay hands over what the files hand over.
LEMMA ReplayElements ==
  ASSUME NEW d \in [Segments -> Seq(AnyCell)]
  PROVE  /\ Replay(d) \in Seq(Messages)
         /\ \A m : m \in Range(Replay(d)) <=> \E s \in Segments : m \in Range(ReplayFile(d[s]))
<1>1. PICK N \in Nat : N = MaxSegments /\ Segments = 1..N
  BY DEF Segments
<1>2. PICK h : h = HandedBy(d)
  OBVIOUS
<1>3. /\ h \in [0..N -> Seq(Messages)] /\ h[0] = <<>>
      /\ \A s \in 1..N : h[s] = h[s - 1] \o ReplayFile(d[s])
  BY <1>1, <1>2, HandedByLoop, Zenon
<1> DEFINE From(n) == UNION {Range(ReplayFile(d[s])) : s \in 1..n}
           S == {n \in 0..N : Range(h[n]) = From(n)}
<1>4. 0 \in S
  <2>1. From(0) = {}
    OBVIOUS
  <2>2. Range(<<>>) = {}
    BY DEF Range
  <2>3. 0 \in 0..N
    OBVIOUS
  <2> QED
    BY <1>3, <2>1, <2>2, <2>3, Zenon
<1>5. ASSUME NEW n \in 0..N, n < N, n \in S
      PROVE  n + 1 \in S
  <2>1. PICK k \in 1..N : k = n + 1
    BY <1>5
  <2>2. PICK q \in Seq(Messages), r \in Seq(Messages) : q = h[n] /\ r = ReplayFile(d[k])
    BY <1>1, <1>3, FileType, Zenon
  <2>a. k - 1 = n /\ k \in 0..N
    BY <2>1
  <2>3. h[k] = q \o r /\ Range(q) = From(n)
    BY <1>3, <1>5, <2>a, <2>2, Zenon
  <2>4. \A s \in 1..k : s = k \/ s \in 1..n
    BY <2>1
  <2>5. k \in 1..k /\ 1..n \subseteq 1..k
    BY <2>1
  <2>6. Range(h[k]) = Range(q) \cup Range(r)
    BY <2>3, ElementsOfConcatenation
  <2>7. From(k) = From(n) \cup Range(r)
    BY <2>2, <2>4, <2>5, Zenon
  <2>8. Range(h[k]) = From(k)
    BY <2>3, <2>6, <2>7, Zenon
  <2> QED
    BY <2>1, <2>a, <2>8, Zenon
<1> HIDE DEF S
<1>6. \A n \in 0..N : n \in S
  BY <1>4, <1>5, UpTo, Zenon
<1>7. Range(h[N]) = From(N) /\ h[N] \in Seq(Messages)
  BY <1>3, <1>6 DEF S
<1> QED
  BY <1>1, <1>2, <1>7 DEF Replay

-----------------------------------------------------------------------------
(***************************************************************************)
(* The invariant WInv: IInv, the types, and where the durable messages are. *)
(* A message that a Sync has covered has a record in the durable part of a *)
(* file, which no step shortens or changes; and every publish record that  *)
(* is left, torn or not, is of a message that was written.                 *)
(***************************************************************************)

\* The durable part of a file is a part of it, and every message that a Sync
\* has covered has an intact record there.
Sizes == \A s \in Segments : synced[s] <= Len(disk[s])

StableOnDisk ==
  \A m \in stable : \E s \in Segments : \E i \in 1..synced[s] : disk[s][i] = Cell("publish", m)

\* The messages of the publish records, torn ones too, are among w.
PublishedIn(cells, w) ==
  \A c \in Range(cells) : c.op = "publish" => c.msg \in Range(w)

\* What the log holds, confirms and gives back has been written.
Recorded ==
  /\ written \in Seq(Messages) /\ recovered \in Seq(Messages) /\ buf \in Seq(Cells)
  /\ PublishedIn(buf, written)
  /\ \A s \in Segments : PublishedIn(disk[s], written)
  /\ writing # NoRecord /\ writing.op = "publish" => writing.msg \in Range(written)
  /\ Range(accepted) \subseteq Range(written)
  /\ Range(recovered) \subseteq Range(written)

\* The rest of the type invariant.
Scalars ==
  /\ policy \in Policies
  /\ failures \in 0..MaxFailures
  /\ currentSize \in Nat
  /\ phase = "up" /\ usable /\ writing = NoRecord /\ restarts = 0
       => currentSize < MaxSegSize
  /\ sticky => ~usable
  /\ usable \in BOOLEAN /\ sticky \in BOOLEAN
  /\ phase \in {"up", "closed", "down"}
  /\ restarts \in 0..MaxRestarts
  /\ ackedIDs \subseteq Messages

WInv == IInv /\ Sizes /\ StableOnDisk /\ Recorded /\ Scalars

\* The durable part of every file only grows, and keeps its cells.
Keeps(d, y, d2, y2) ==
  \A s \in Segments :
    /\ y[s] <= y2[s] /\ y2[s] <= Len(d2[s])
    /\ \A i \in 1..y[s] : d2[s][i] = d[s][i]

\* The files only grow.
Grows(d, d2) ==
  \A s \in Segments :
    /\ Len(d[s]) <= Len(d2[s])
    /\ \A i \in 1..Len(d[s]) : d2[s][i] = d[s][i]

\* A flush lets the active file grow.
LEMMA FlushGrows ==
  ASSUME NEW d \in [Segments -> Seq(AnyCell)], NEW id \in Segments, NEW b \in Seq(AnyCell),
         NEW d2, d2 = d \/ d2 = [d EXCEPT ![id] = d[id] \o b]
  PROVE  d2 \in [Segments -> Seq(AnyCell)] /\ Grows(d, d2)
<1>1. CASE d2 = d
  <2>1. \A s \in Segments : Len(d[s]) \in Nat
    OBVIOUS
  <2> QED
    BY <1>1, <2>1 DEF Grows
<1>2. CASE d2 = [d EXCEPT ![id] = d[id] \o b]
  <2>1. d[id] \in Seq(AnyCell) /\ d[id] \o b \in Seq(AnyCell)
    OBVIOUS
  <2>2. /\ d2 \in [Segments -> Seq(AnyCell)] /\ d2[id] = d[id] \o b
        /\ \A s \in Segments : s # id => d2[s] = d[s]
    BY <1>2, <2>1, Zenon
  <2>3. Len(d[id]) <= Len(d2[id]) /\ \A i \in 1..Len(d[id]) : d2[id][i] = d[id][i]
    <3>1. PICK q \in Seq(AnyCell) : q = d[id]
      BY <2>1, Zenon
    <3>2. Len(q) <= Len(q \o b) /\ \A i \in 1..Len(q) : (q \o b)[i] = q[i]
      OBVIOUS
    <3> QED
      BY <2>2, <3>1, <3>2, Zenon
  <2>4. ASSUME NEW s \in Segments, s # id
        PROVE  Len(d[s]) <= Len(d2[s]) /\ \A i \in 1..Len(d[s]) : d2[s][i] = d[s][i]
    <3>1. d2[s] = d[s] /\ Len(d[s]) \in Nat
      BY <2>2, <2>4
    <3> QED
      BY <3>1
  <2> QED
    BY <2>2, <2>3, <2>4, Zenon DEF Grows
<1> QED
  BY <1>1, <1>2, Zenon

\* What is durable and stays so.
LEMMA KeptStable ==
  ASSUME Shape, StableOnDisk, Keeps(disk, synced, disk', synced'),
         synced' \in [Segments -> Nat], stable' = stable
  PROVE  Sizes' /\ StableOnDisk'
<1>1. Sizes'
  BY Zenon DEF Keeps, Sizes
<1>2. ASSUME NEW m \in stable
      PROVE  \E s \in Segments : \E i \in 1..synced'[s] : disk'[s][i] = Cell("publish", m)
  <2>1. PICK s \in Segments : \E i \in 1..synced[s] : disk[s][i] = Cell("publish", m)
    BY Zenon DEF StableOnDisk
  <2>2. PICK i \in 1..synced[s] : disk[s][i] = Cell("publish", m)
    BY <2>1, Zenon
  <2>3. synced[s] \in Nat /\ synced'[s] \in Nat /\ synced[s] <= synced'[s]
    BY Zenon DEF Shape, Keeps
  <2>4. disk'[s][i] = Cell("publish", m)
    BY <2>2, Zenon DEF Keeps
  <2>5. i \in 1..synced'[s]
    BY <2>3
  <2> QED
    BY <2>4, <2>5, Zenon
<1>3. StableOnDisk'
  BY <1>2, Zenon DEF StableOnDisk, Cell
<1> QED
  BY <1>1, <1>3, Zenon

\* A flush alone.
LEMMA UnsyncedStable ==
  ASSUME Shape, Sizes, StableOnDisk, UNCHANGED <<synced, stable>>,
         disk' \in [Segments -> Seq(AnyCell)], Grows(disk, disk')
  PROVE  Sizes' /\ StableOnDisk'
<1>1. disk \in [Segments -> Seq(AnyCell)] /\ synced \in [Segments -> Nat]
  BY Zenon DEF Shape
<1>2. ASSUME NEW s \in Segments
      PROVE  /\ synced[s] <= synced'[s] /\ synced'[s] <= Len(disk'[s])
             /\ \A i \in 1..synced[s] : disk'[s][i] = disk[s][i]
  <2>1. Len(disk[s]) \in Nat /\ Len(disk'[s]) \in Nat /\ synced[s] \in Nat
    BY <1>1
  <2>2. PICK l, l2, y \in Nat : l = Len(disk[s]) /\ l2 = Len(disk'[s]) /\ y = synced[s]
    BY <2>1, Zenon
  <2>3. y <= l /\ l <= l2 /\ synced'[s] = y
    BY <2>2, Zenon DEF Sizes, Grows
  <2>4. y <= y /\ y <= l2 /\ \A i \in 1..y : i \in 1..l
    BY <2>3
  <2>5. \A i \in 1..l : disk'[s][i] = disk[s][i]
    BY <2>2, Zenon DEF Grows
  <2> QED
    BY <2>2, <2>3, <2>4, <2>5, Zenon
<1>3. Keeps(disk, synced, disk', synced')
  BY <1>2, Zenon DEF Keeps
<1> QED
  BY <1>1, <1>3, KeptStable, Zenon

\* A Sync after a flush: what the active file holds is durable now.
LEMMA SyncedStable ==
  ASSUME Shape, Sizes, StableOnDisk, FileSync, usable,
         disk' \in [Segments -> Seq(AnyCell)], Grows(disk, disk')
  PROVE  Sizes' /\ StableOnDisk'
<1>0. /\ segmentID \in Segments /\ synced \in [Segments -> Nat] /\ disk \in [Segments -> Seq(AnyCell)]
      /\ synced' = [synced EXCEPT ![segmentID] = Len(disk'[segmentID])]
      /\ stable' = stable \cup MessagesOf(disk'[segmentID])
  BY Zenon DEF Shape, FileSync
<1>1. \A s \in Segments : Len(disk[s]) \in Nat /\ Len(disk'[s]) \in Nat
  BY <1>0
<1>2. /\ synced' \in [Segments -> Nat] /\ synced'[segmentID] = Len(disk'[segmentID])
      /\ \A s \in Segments : s # segmentID => synced'[s] = synced[s]
  BY <1>0, <1>1, Zenon
<1>3. ASSUME NEW s \in Segments
      PROVE  /\ synced[s] <= synced'[s] /\ synced'[s] <= Len(disk'[s])
             /\ \A i \in 1..synced[s] : disk'[s][i] = disk[s][i]
  <2>1. PICK l, l2, y, y2 \in Nat : l = Len(disk[s]) /\ l2 = Len(disk'[s]) /\ y = synced[s] /\ y2 = synced'[s]
    BY <1>0, <1>1, <1>2, Zenon
  <2>2. y <= l /\ l <= l2 /\ (y2 = y \/ y2 = l2)
    BY <1>2, <2>1, Zenon DEF Sizes, Grows
  <2>3. y <= y2 /\ y2 <= l2 /\ \A i \in 1..y : i \in 1..l
    BY <2>2
  <2>4. \A i \in 1..l : disk'[s][i] = disk[s][i]
    BY <2>1, Zenon DEF Grows
  <2> QED
    BY <2>1, <2>3, <2>4, Zenon
<1>4. Keeps(disk, synced, disk', synced')
  BY <1>3, Zenon DEF Keeps
<1>5. Sizes'
  BY <1>4, Zenon DEF Keeps, Sizes
<1>6. ASSUME NEW m \in stable
      PROVE  \E s \in Segments : \E i \in 1..synced'[s] : disk'[s][i] = Cell("publish", m)
  <2>1. PICK s \in Segments : \E i \in 1..synced[s] : disk[s][i] = Cell("publish", m)
    BY Zenon DEF StableOnDisk
  <2>2. PICK i \in 1..synced[s] : disk[s][i] = Cell("publish", m)
    BY <2>1, Zenon
  <2>3. synced[s] \in Nat /\ synced'[s] \in Nat /\ synced[s] <= synced'[s] /\ disk'[s][i] = disk[s][i]
    BY <1>0, <1>2, <1>3, Zenon
  <2>4. i \in 1..synced'[s]
    BY <2>3
  <2> QED
    BY <2>2, <2>3, <2>4, Zenon
<1>7. ASSUME NEW m \in MessagesOf(disk'[segmentID])
      PROVE  \E i \in 1..synced'[segmentID] : disk'[segmentID][i] = Cell("publish", m)
  <2>1. PICK cells \in Seq(AnyCell) : cells = disk'[segmentID]
    BY <1>0, Zenon
  <2>2. PICK c \in Range(cells) : c.op = "publish" /\ ~c.torn /\ c.msg = m
    BY <1>7, <2>1, Zenon DEF MessagesOf
  <2>3. PICK i \in DOMAIN cells : cells[i] = c
    BY <2>2, Zenon DEF Range
  <2>4. i \in 1..Len(cells) /\ c \in AnyCell
    BY <2>3
  <2>5. c = Cell("publish", m)
    BY <2>2, <2>4, Zenon DEF AnyCell, Cell
  <2> QED
    BY <1>2, <2>1, <2>3, <2>4, <2>5, Zenon
<1>8. StableOnDisk'
  BY <1>0, <1>6, <1>7, Zenon DEF StableOnDisk, Cell
<1> QED
  BY <1>5, <1>8, Zenon

\* What a crash leaves of a file still has its safe cells.
LEMMA CutKeeps ==
  ASSUME NEW cells \in Seq(AnyCell), NEW n \in 0..Len(cells), NEW left \in CutBeyond(cells, n)
  PROVE  /\ left \in Seq(AnyCell) /\ n <= Len(left) /\ Len(left) <= Len(cells)
         /\ \A i \in 1..n : left[i] = cells[i]
         /\ \A i \in 1..Len(left) : left[i].op = cells[i].op /\ left[i].msg = cells[i].msg
<1>0. n \in Nat /\ Len(cells) \in Nat
  OBVIOUS
<1>1. left \in Seq(AnyCell)
  BY <1>0, CutType, Zenon
<1>2. CASE \E k \in n..Len(cells) : left = SubSeq(cells, 1, k)
  <2>1. PICK k \in n..Len(cells) : left = SubSeq(cells, 1, k)
    BY <1>2, Zenon
  <2>2. k \in 0..Len(cells) /\ Len(left) = k /\ \A i \in 1..k : left[i] = cells[i]
    BY <1>0, <2>1
  <2> QED
    BY <1>0, <1>1, <2>1, <2>2
<1>3. CASE \E k \in (n + 1)..Len(cells) : left = Append(SubSeq(cells, 1, k - 1), Torn(cells[k]))
  <2>1. PICK k \in (n + 1)..Len(cells) : left = Append(SubSeq(cells, 1, k - 1), Torn(cells[k]))
    BY <1>3, Zenon
  <2>2. PICK j \in Nat : j = k - 1 /\ n <= j /\ k \in 1..Len(cells) /\ k = j + 1
    BY <1>0
  <2>3. PICK q \in Seq(AnyCell) : q = SubSeq(cells, 1, j) /\ Len(q) = j /\ \A i \in 1..j : q[i] = cells[i]
    <3>1. j \in 0..Len(cells)
      BY <1>0, <2>2
    <3>2. /\ SubSeq(cells, 1, j) \in Seq(AnyCell) /\ Len(SubSeq(cells, 1, j)) = j
          /\ \A i \in 1..j : SubSeq(cells, 1, j)[i] = cells[i]
      BY <1>0, <3>1
    <3> QED
      BY <3>2, Zenon
  <2>4. PICK t \in AnyCell : t = Torn(cells[k]) /\ t.op = cells[k].op /\ t.msg = cells[k].msg
    <3>1. PICK c \in AnyCell : c = cells[k]
      BY <2>2
    <3>2. Torn(c) \in AnyCell /\ Torn(c).op = c.op /\ Torn(c).msg = c.msg
      BY Zenon DEF AnyCell, Torn
    <3> QED
      BY <3>1, <3>2, Zenon
  <2>5. left = Append(q, t)
    BY <2>1, <2>2, <2>3, <2>4, Zenon
  <2>6. Len(left) = k /\ left[k] = t /\ \A i \in 1..j : left[i] = q[i]
    BY <2>2, <2>3, <2>5
  <2>7. \A i \in 1..k : i = k \/ i \in 1..j
    BY <2>2
  <2>8. \A i \in 1..j : left[i] = cells[i]
    BY <2>3, <2>6, Zenon
  <2>9. \A i \in 1..n : i \in 1..j
    BY <1>0, <2>2
  <2>10. n <= k /\ k <= Len(cells)
    BY <1>0, <2>2
  <2>11. ASSUME NEW i \in 1..k PROVE left[i].op = cells[i].op /\ left[i].msg = cells[i].msg
    BY <2>4, <2>6, <2>7, <2>8, Zenon
  <2> QED
    BY <1>1, <2>6, <2>8, <2>9, <2>10, <2>11, Zenon
<1> QED
  BY <1>2, <1>3, Zenon DEF CutBeyond

\* The log is empty at first.
LEMMA InitWInv == Init => WInv
<1> SUFFICES ASSUME Init PROVE WInv
  BY Zenon
<1>1. Range(<<>>) = {} /\ <<>> \in Seq(Messages) /\ <<>> \in Seq(Cells) /\ Len(<<>>) = 0
  BY DEF Range
<1>2. /\ stable = {} /\ written = <<>> /\ recovered = <<>> /\ accepted = <<>> /\ buf = <<>>
      /\ \A s \in Segments : disk[s] = <<>> /\ synced[s] = 0
      /\ writing = NoRecord
  BY Zenon DEF Init
<1>3. IInv
  BY InitIInv, Zenon
<1>4. Sizes /\ StableOnDisk
  BY <1>1, <1>2 DEF Sizes, StableOnDisk
<1>5. Recorded
  BY <1>1, <1>2, Zenon DEF Recorded, PublishedIn
<1>6. Scalars
  <2>1. 0 \in 0..MaxFailures /\ 0 \in Nat /\ 0 < MaxSegSize /\ 0 \in 0..MaxRestarts
    OBVIOUS
  <2> QED
    BY <2>1, Zenon DEF Init, Scalars
<1> QED
  BY <1>3, <1>4, <1>5, <1>6, Zenon DEF WInv

\* Sequences of intact cells are sequences of cells.
LEMMA CellsAreCells == Seq(Cells) \subseteq Seq(AnyCell)
<1>1. Cells \subseteq AnyCell
  BY CellFields, Zenon
<1> QED
  BY <1>1

\* The effect of a flush on the files and the buffer.
LEMMA FlushEffect ==
  ASSUME NEW b \in Seq(Cells), Flush(b), WInv
  PROVE  /\ disk' = disk \/ disk' = [disk EXCEPT ![segmentID] = disk[segmentID] \o b]
         /\ buf' = <<>> \/ buf' = b
         /\ disk' \in [Segments -> Seq(AnyCell)] /\ Grows(disk, disk')
         /\ \A s \in Segments : Range(disk'[s]) \subseteq Range(disk[s]) \cup Range(b)
<1>1. /\ disk' = disk \/ disk' = [disk EXCEPT ![segmentID] = disk[segmentID] \o b]
      /\ buf' = <<>> \/ buf' = b
  BY Zenon DEF Flush
<1>2. b \in Seq(AnyCell) /\ disk \in [Segments -> Seq(AnyCell)] /\ segmentID \in Segments
  BY CellsAreCells DEF WInv, IInv, Shape
<1>3. disk' \in [Segments -> Seq(AnyCell)] /\ Grows(disk, disk')
  BY <1>1, <1>2, FlushGrows, Zenon
<1>4. ASSUME NEW s \in Segments
      PROVE  Range(disk'[s]) \subseteq Range(disk[s]) \cup Range(b)
  <2>1. PICK q \in Seq(AnyCell) : q = disk[s]
    BY <1>2, Zenon
  <2>2. Range(q \o b) = Range(q) \cup Range(b)
    BY <1>2, ElementsOfConcatenation
  <2>3. disk'[s] = q \/ disk'[s] = q \o b
    BY <1>1, <1>2, <2>1, Zenon
  <2> QED
    BY <2>1, <2>2, <2>3, Zenon
<1> QED
  BY <1>1, <1>3, <1>4, Zenon

\* A flush fails only over a closed file.
LEMMA FlushSticky ==
  ASSUME NEW b, Flush(b) \/ sticky' = sticky, Scalars, usable' = usable
  PROVE  sticky' \in BOOLEAN /\ (sticky' => ~usable')
<1>1. (sticky => ~usable) /\ usable \in BOOLEAN /\ sticky \in BOOLEAN
  BY Zenon DEF Scalars
<1>2. CASE sticky' = sticky
  BY <1>1, <1>2, Zenon
<1>3. CASE sticky' = (sticky \/ (~usable /\ b # <<>>))
  <2>1. sticky' \in BOOLEAN
    BY <1>3, Zenon
  <2>2. sticky' => ~usable
    BY <1>1, <1>3, Zenon
  <2> QED
    BY <2>1, <2>2, Zenon
<1> QED
  BY <1>2, <1>3, Zenon DEF Flush

\* WritePublish and WriteAck.
LEMMA WriteWInv ==
  ASSUME WInv, NEW op \in {"publish", "ack"}, NEW m \in Messages, WriteRecord(op, m)
  PROVE  Sizes' /\ StableOnDisk' /\ Recorded' /\ Scalars'
<1> DEFINE c == Cell(op, m)
           b == Append(buf, c)
<1>0. /\ Shape /\ disk \in [Segments -> Seq(AnyCell)] /\ synced \in [Segments -> Nat]
      /\ written \in Seq(Messages) /\ buf \in Seq(Cells)
  BY Zenon DEF WInv, IInv, Shape, Recorded
<1>1. c \in Cells /\ c \in AnyCell /\ c.op = op /\ c.msg = m
  <2>1. c.op = op /\ c.msg = m
    BY Zenon DEF Cell
  <2>2. c \in Cells
    BY DEF Cells
  <2> HIDE DEF c
  <2> QED
    BY <2>1, <2>2, CellFields, Zenon
<1>3. /\ writing' = c /\ currentSize' = currentSize + 1
      /\ written' = IF op = "publish" THEN Append(written, m) ELSE written
      /\ phase = "up" /\ ~sticky
      /\ UNCHANGED <<policy, synced, segmentID, usable, failures, accepted, ackedIDs,
                     stable, phase, restarts, recovered>>
  BY Zenon DEF WriteRecord
<1>4. \/ Flush(b)
      \/ buf' = b /\ disk' = disk /\ sticky' = sticky
  BY Zenon DEF WriteRecord
<1> HIDE DEF c
<1>2. b \in Seq(Cells) /\ Range(b) = Range(buf) \cup {c}
  BY <1>0, <1>1, ElementsOfAppend
<1>n. c # NoRecord
  <2>1. c = [op |-> op, msg |-> m, torn |-> FALSE]
    BY Zenon DEF c, Cell
  <2>2. c.op # "none" /\ NoRecord.op = "none"
    BY <1>1, Zenon DEF NoRecord
  <2> QED
    BY <2>2, Zenon
<1> HIDE DEF b
<1>5. /\ disk' \in [Segments -> Seq(AnyCell)] /\ Grows(disk, disk')
      /\ buf' = <<>> \/ buf' = b
      /\ \A s \in Segments : Range(disk'[s]) \subseteq Range(disk[s]) \cup Range(b)
  <2>1. CASE Flush(b)
    BY <1>2, <2>1, FlushEffect, Zenon
  <2>2. CASE buf' = b /\ disk' = disk
    <3>1. \A s \in Segments : Len(disk[s]) \in Nat
      BY <1>0
    <3> QED
      BY <1>0, <2>2, <3>1 DEF Grows
  <2> QED
    BY <1>4, <2>1, <2>2, Zenon
<1>6. Sizes' /\ StableOnDisk'
  <2>1. ASSUME NEW s \in Segments
        PROVE  /\ synced[s] <= synced'[s] /\ synced'[s] <= Len(disk'[s])
               /\ \A i \in 1..synced[s] : disk'[s][i] = disk[s][i]
    <3>1. PICK l, l2, y \in Nat : l = Len(disk[s]) /\ l2 = Len(disk'[s]) /\ y = synced[s]
      BY <1>0, <1>5
    <3>2. y <= l /\ l <= l2 /\ \A i \in 1..l : disk'[s][i] = disk[s][i]
      BY <1>5, <3>1, Zenon DEF WInv, Sizes, Grows
    <3>3. y <= l2 /\ \A i \in 1..y : i \in 1..l
      BY <3>2
    <3> QED
      BY <1>3, <3>1, <3>2, <3>3
  <2>2. Keeps(disk, synced, disk', synced')
    BY <2>1, Zenon DEF Keeps
  <2>3. synced' \in [Segments -> Nat] /\ stable' = stable
    BY <1>0, <1>3, Zenon
  <2> QED
    BY <1>0, <2>2, <2>3, KeptStable, Zenon DEF WInv
<1>7. /\ written' \in Seq(Messages) /\ Range(written) \subseteq Range(written')
      /\ op = "publish" => m \in Range(written')
  BY <1>0, <1>3, ElementsOfAppend
<1>8. Recorded'
  <2>1. recovered' \in Seq(Messages) /\ buf' \in Seq(Cells)
    <3>1. <<>> \in Seq(Cells)
      OBVIOUS
    <3> QED
      BY <1>2, <1>3, <1>5, <3>1, Zenon DEF WInv, Recorded
  <2>2. PublishedIn(b, written')
    BY <1>1, <1>2, <1>7, Zenon DEF WInv, Recorded, PublishedIn
  <2>3. PublishedIn(buf', written')
    <3>1. Range(<<>>) = {}
      BY DEF Range
    <3> QED
      BY <1>5, <2>2, <3>1, Zenon DEF PublishedIn
  <2>4. \A s \in Segments : PublishedIn(disk'[s], written')
    BY <1>5, <1>7, <2>2, Zenon DEF WInv, Recorded, PublishedIn
  <2>5. writing'.op = "publish" => writing'.msg \in Range(written')
    BY <1>1, <1>3, <1>7, Zenon
  <2>6. Range(accepted') \subseteq Range(written') /\ Range(recovered') \subseteq Range(written')
    BY <1>3, <1>7, Zenon DEF WInv, Recorded
  <2> QED
    BY <1>7, <2>1, <2>3, <2>4, <2>5, <2>6, Zenon DEF Recorded
<1>9. Scalars'
  <2>1. sticky' \in BOOLEAN /\ (sticky' => ~usable')
    BY <1>3, <1>4, FlushSticky, Zenon DEF WInv
  <2>2. currentSize' \in Nat /\ writing' # NoRecord
    BY <1>3, <1>n DEF WInv, Scalars
  <2> QED
    BY <1>3, <2>1, <2>2, Zenon DEF WInv, Scalars
<1> QED
  BY <1>6, <1>8, <1>9, Zenon

\* The end of writeRecord.
LEMMA FinishWInv ==
  ASSUME WInv, FinishRecord
  PROVE  Sizes' /\ StableOnDisk' /\ Recorded' /\ Scalars'
<1>0. /\ Shape /\ disk \in [Segments -> Seq(AnyCell)] /\ synced \in [Segments -> Nat]
      /\ written \in Seq(Messages) /\ buf \in Seq(Cells) /\ buf \in Seq(AnyCell)
      /\ accepted \in Seq(Messages) /\ segmentID \in Segments
      /\ \A s \in Segments : Len(disk[s]) \in Nat
  BY CellsAreCells DEF WInv, IInv, Shape, Recorded
<1>1. writing \in Cells /\ writing.msg \in Messages /\ writing.op \in {"publish", "ack"}
  BY CellFields, Zenon DEF FinishRecord, WInv, IInv, Shape
<1>2. /\ writing' = NoRecord /\ writing # NoRecord /\ phase = "up"
      /\ accepted' = IF writing.op = "publish" THEN Append(accepted, writing.msg) ELSE accepted
      /\ ackedIDs' = IF writing.op = "ack" THEN ackedIDs \cup {writing.msg} ELSE ackedIDs
      /\ UNCHANGED <<policy, written, phase, restarts, recovered>>
  BY Zenon DEF FinishRecord
<1>3. \/ SegmentFull /\ RotateSegment
      \/ /\ ~SegmentFull
         /\ UNCHANGED <<disk, buf, segmentID, currentSize, usable, sticky, failures>>
         /\ PolicyFsync
  BY Zenon DEF FinishRecord
<1>4. /\ disk' = disk \/ disk' = [disk EXCEPT ![segmentID] = disk[segmentID] \o buf]
      /\ buf' = <<>> \/ buf' = buf
  BY <1>3, Zenon DEF RotateSegment
<1>5. disk' \in [Segments -> Seq(AnyCell)] /\ Grows(disk, disk')
  BY <1>0, <1>4, FlushGrows, Zenon
<1>6. Sizes' /\ StableOnDisk'
  <2>1. CASE FileSync /\ usable
    BY <1>0, <1>5, <2>1, SyncedStable, Zenon DEF WInv
  <2>2. CASE UNCHANGED <<synced, stable>>
    BY <1>0, <1>5, <2>2, UnsyncedStable, Zenon DEF WInv
  <2> QED
    BY <1>3, <2>1, <2>2, Zenon DEF RotateSegment, PolicyFsync, FileSync
<1>7. \A s \in Segments : Range(disk'[s]) \subseteq Range(disk[s]) \cup Range(buf)
  <2> SUFFICES ASSUME NEW s \in Segments
               PROVE  Range(disk'[s]) \subseteq Range(disk[s]) \cup Range(buf)
    BY Zenon
  <2>1. PICK q \in Seq(AnyCell) : q = disk[s]
    BY <1>0, Zenon
  <2>2. Range(q \o buf) = Range(q) \cup Range(buf)
    BY <1>0, ElementsOfConcatenation
  <2>3. disk'[s] = q \/ disk'[s] = q \o buf
    BY <1>0, <1>4, <2>1, Zenon
  <2> QED
    BY <2>1, <2>2, <2>3, Zenon
<1>8. Recorded'
  <2>0. Range(<<>>) = {} /\ <<>> \in Seq(Cells)
    BY DEF Range
  <2>1. written' \in Seq(Messages) /\ recovered' \in Seq(Messages) /\ buf' \in Seq(Cells)
    BY <1>0, <1>2, <1>4, <2>0, Zenon DEF WInv, Recorded
  <2>2. PublishedIn(buf', written')
    BY <1>2, <1>4, <2>0, Zenon DEF WInv, Recorded, PublishedIn
  <2>3. \A s \in Segments : PublishedIn(disk'[s], written')
    BY <1>2, <1>7, Zenon DEF WInv, Recorded, PublishedIn
  <2>4. Range(accepted') \subseteq Range(written')
    <3>1. Range(Append(accepted, writing.msg)) = Range(accepted) \cup {writing.msg}
      BY <1>0, <1>1, ElementsOfAppend
    <3> QED
      BY <1>2, <3>1, Zenon DEF WInv, Recorded
  <2>5. Range(recovered') \subseteq Range(written')
    BY <1>2, Zenon DEF WInv, Recorded
  <2> QED
    BY <1>2, <2>1, <2>2, <2>3, <2>4, <2>5, Zenon DEF Recorded
<1>9. Scalars'
  <2>0. /\ policy \in Policies /\ failures \in 0..MaxFailures /\ currentSize \in Nat
        /\ phase \in {"up", "closed", "down"} /\ restarts \in 0..MaxRestarts /\ ackedIDs \subseteq Messages
        /\ (sticky => ~usable) /\ usable \in BOOLEAN /\ sticky \in BOOLEAN
    BY Zenon DEF WInv, Scalars
  <2>1. ackedIDs' \subseteq Messages
    BY <1>1, <1>2, <2>0, Zenon
  <2>2. /\ failures' \in 0..MaxFailures /\ currentSize' \in Nat
        /\ usable' => currentSize' < MaxSegSize
    <3>1. CASE SegmentFull /\ RotateSegment
      BY <2>0, <3>1 DEF RotateSegment
    <3>2. CASE ~SegmentFull /\ UNCHANGED <<currentSize, failures>>
      BY <2>0, <3>2 DEF SegmentFull
    <3> QED
      BY <1>3, <3>1, <3>2, Zenon
  <2>3. usable' \in BOOLEAN /\ sticky' \in BOOLEAN /\ (sticky' => ~usable')
    <3>1. CASE UNCHANGED <<usable, sticky>>
      BY <2>0, <3>1, Zenon
    <3>2. CASE usable' = TRUE /\ sticky' = FALSE
      BY <3>2, Zenon
    <3>3. CASE usable' = FALSE /\ sticky' = (sticky \/ (~usable /\ buf # <<>>))
      <4>1. sticky' \in BOOLEAN
        BY <3>3, Zenon
      <4> QED
        BY <3>3, <4>1, Zenon
    <3> QED
      BY <1>3, <3>1, <3>2, <3>3, Zenon DEF RotateSegment
  <2> QED
    BY <1>2, <2>0, <2>1, <2>2, <2>3, Zenon DEF Scalars
<1> QED
  BY <1>6, <1>8, <1>9, Zenon

\* Sync and Close.
LEMMA SyncCloseWInv ==
  ASSUME WInv, Sync \/ Close
  PROVE  Sizes' /\ StableOnDisk' /\ Recorded' /\ Scalars'
<1>1. /\ Flush(buf) /\ (FileSync \/ UNCHANGED <<synced, stable>>)
      /\ writing = NoRecord
      /\ UNCHANGED <<policy, segmentID, currentSize, usable, failures, accepted, ackedIDs,
                     written, writing, restarts, recovered>>
      /\ phase' \in {"up", "closed"} /\ phase = "up"
  BY Zenon DEF Sync, Close
<1>2. buf \in Seq(Cells) /\ Shape
  BY Zenon DEF WInv, Recorded, IInv
<1>3. /\ buf' = <<>> \/ buf' = buf
      /\ disk' \in [Segments -> Seq(AnyCell)] /\ Grows(disk, disk')
      /\ \A s \in Segments : Range(disk'[s]) \subseteq Range(disk[s]) \cup Range(buf)
  BY <1>1, <1>2, FlushEffect, Zenon
<1>4. Sizes' /\ StableOnDisk'
  <2>1. CASE FileSync /\ usable
    BY <1>2, <1>3, <2>1, SyncedStable, Zenon DEF WInv
  <2>2. CASE UNCHANGED <<synced, stable>>
    BY <1>2, <1>3, <2>2, UnsyncedStable, Zenon DEF WInv
  <2> QED
    BY <1>1, <2>1, <2>2, Zenon DEF FileSync
<1>5. Recorded'
  <2>0. Range(<<>>) = {} /\ <<>> \in Seq(Cells)
    BY DEF Range
  <2>1. written' \in Seq(Messages) /\ recovered' \in Seq(Messages) /\ buf' \in Seq(Cells)
    BY <1>1, <1>2, <1>3, <2>0, Zenon DEF WInv, Recorded
  <2>2. PublishedIn(buf', written')
    BY <1>1, <1>3, <2>0, Zenon DEF WInv, Recorded, PublishedIn
  <2>3. \A s \in Segments : PublishedIn(disk'[s], written')
    BY <1>1, <1>3, Zenon DEF WInv, Recorded, PublishedIn
  <2> QED
    BY <1>1, <2>1, <2>2, <2>3, Zenon DEF WInv, Recorded
<1>6. Scalars'
  <2>1. sticky' \in BOOLEAN /\ (sticky' => ~usable')
    BY <1>1, FlushSticky, Zenon DEF WInv
  <2> QED
    BY <1>1, <2>1, Zenon DEF WInv, Scalars
<1> QED
  BY <1>4, <1>5, <1>6, Zenon

\* A crash that leaves the durable part of every file alone.
LEMMA CrashWInv ==
  ASSUME WInv, NEW kept \in [Segments -> Nat], Crash(kept), SyncedOrLeft,
         \A s \in Segments : synced[s] <= kept[s] /\ kept[s] <= Len(disk[s])
  PROVE  Sizes' /\ StableOnDisk' /\ Recorded' /\ Scalars'
<1>0. /\ Shape /\ disk \in [Segments -> Seq(AnyCell)] /\ synced \in [Segments -> Nat]
  BY Zenon DEF WInv, IInv, Shape
<1>1. /\ buf' = <<>> /\ writing' = NoRecord /\ phase' = "down"
      /\ UNCHANGED <<policy, segmentID, currentSize, usable, sticky, failures, accepted,
                     ackedIDs, written, stable, restarts, recovered>>
  BY Zenon DEF Crash, historyVars
<1>2. \A s \in Segments : disk'[s] \in CutBeyond(disk[s], kept[s])
  <2> DEFINE remains == [s \in Segments |-> CutBeyond(disk[s], kept[s])]
  <2>1. PICK d \in [Segments -> UNION Range(remains)] :
          (\A s \in Segments : d[s] \in remains[s]) /\ disk' = d
    BY Zenon DEF Crash
  <2> QED
    BY <2>1, Zenon
<1>3. ASSUME NEW s \in Segments
      PROVE  /\ synced[s] <= Len(disk'[s]) /\ Len(disk'[s]) \in Nat
             /\ \A i \in 1..synced[s] : disk'[s][i] = disk[s][i]
             /\ PublishedIn(disk'[s], written)
  <2>1. PICK cells \in Seq(AnyCell), n \in Nat, y \in Nat : cells = disk[s] /\ n = kept[s] /\ y = synced[s]
    BY <1>0, Zenon
  <2>2. y <= n /\ n \in 0..Len(cells)
    BY <2>1
  <2>3. PICK left : left = disk'[s]
    BY Zenon
  <2>4. left \in CutBeyond(cells, n)
    BY <1>2, <2>1, <2>3, Zenon
  <2>5. /\ left \in Seq(AnyCell) /\ n <= Len(left) /\ Len(left) <= Len(cells)
        /\ \A i \in 1..n : left[i] = cells[i]
        /\ \A i \in 1..Len(left) : left[i].op = cells[i].op /\ left[i].msg = cells[i].msg
    BY <2>2, <2>4, CutKeeps, Zenon
  <2>6. y <= Len(left) /\ Len(left) \in Nat /\ \A i \in 1..y : left[i] = cells[i]
    <3>1. Len(left) \in Nat
      BY <2>5
    <3>2. y <= Len(left) /\ \A i \in 1..y : i \in 1..n
      BY <2>2, <2>5, <3>1
    <3> QED
      BY <2>5, <3>1, <3>2, Zenon
  <2>7. PublishedIn(left, written)
    <3> SUFFICES ASSUME NEW c \in Range(left), c.op = "publish"
                 PROVE  c.msg \in Range(written)
      BY Zenon DEF PublishedIn
    <3>1. PICK i \in 1..Len(left) : c = left[i]
      BY <2>5 DEF Range
    <3>2. i \in DOMAIN cells /\ cells[i] \in Range(cells)
      BY <2>5 DEF Range
    <3>3. PublishedIn(cells, written)
      BY <2>1, Zenon DEF WInv, Recorded
    <3> QED
      BY <2>5, <3>1, <3>2, <3>3 DEF PublishedIn
  <2> QED
    BY <2>1, <2>3, <2>6, <2>7, Zenon
<1>4. Sizes' /\ StableOnDisk'
  <2>1. synced' \in [Segments -> Nat]
    BY <1>0, <1>3, Zenon DEF SyncedOrLeft
  <2>2. ASSUME NEW s \in Segments
        PROVE  synced[s] <= synced'[s] /\ synced'[s] <= Len(disk'[s])
    <3>1. synced[s] <= synced[s] /\ Len(disk'[s]) <= Len(disk'[s])
      BY <1>0, <1>3
    <3> QED
      BY <1>3, <3>1, Zenon DEF SyncedOrLeft
  <2>3. Keeps(disk, synced, disk', synced')
    BY <1>3, <2>2, Zenon DEF Keeps
  <2> QED
    BY <1>0, <1>1, <2>1, <2>3, KeptStable, Zenon DEF WInv
<1>5. Recorded'
  <2>0. Range(<<>>) = {} /\ <<>> \in Seq(Cells)
    BY DEF Range
  <2>1. PublishedIn(buf', written') /\ \A s \in Segments : PublishedIn(disk'[s], written')
    BY <1>1, <1>3, <2>0, Zenon DEF PublishedIn
  <2> QED
    BY <1>1, <2>0, <2>1, Zenon DEF WInv, Recorded
<1>6. Scalars'
  BY <1>1, Zenon DEF WInv, Scalars
<1> QED
  BY <1>4, <1>5, <1>6, Zenon

\* A restart replays what the files hold.
LEMMA RestartWInv ==
  ASSUME WInv, Restart
  PROVE  Sizes' /\ StableOnDisk' /\ Recorded' /\ Scalars'
<1>0. /\ Shape /\ disk \in [Segments -> Seq(AnyCell)] /\ synced \in [Segments -> Nat]
      /\ 1 \in Segments /\ \A s \in Segments : Len(disk[s]) \in Nat
  BY DEF WInv, IInv, Shape, Segments
<1>1. /\ disk' = disk /\ synced' = synced /\ buf' = <<>>
      /\ currentSize' = Len(disk[1]) /\ usable' = TRUE /\ sticky' = FALSE
      /\ phase' = "up" /\ restarts < MaxRestarts /\ restarts' = restarts + 1
      /\ recovered' = Replay(disk)
      /\ UNCHANGED <<policy, failures, accepted, ackedIDs, written, stable, writing>>
  BY Zenon DEF Restart, OpenWAL, historyVars
<1>2. Sizes' /\ StableOnDisk'
  <2>1. Keeps(disk, synced, disk', synced') /\ synced' \in [Segments -> Nat]
    BY <1>0, <1>1 DEF Keeps, WInv, Sizes
  <2> QED
    BY <1>0, <1>1, <2>1, KeptStable, Zenon DEF WInv
<1>3. Recorded'
  <2>0. Range(<<>>) = {} /\ <<>> \in Seq(Cells)
    BY DEF Range
  <2>1. Replay(disk) \in Seq(Messages)
    BY <1>0, ReplayElements, Zenon
  <2>2. ASSUME NEW m \in Range(Replay(disk)) PROVE m \in Range(written)
    <3>1. PICK s \in Segments : m \in Range(ReplayFile(disk[s]))
      BY <1>0, <2>2, ReplayElements, Zenon
    <3>2. PICK cells \in Seq(AnyCell) : cells = disk[s]
      BY <1>0
    <3>3. PICK i \in DOMAIN cells : cells[i].op = "publish" /\ m = cells[i].msg
      BY <3>1, <3>2, FileElements
    <3>4. cells[i] \in Range(cells) /\ PublishedIn(cells, written)
      BY <3>2, Zenon DEF Range, WInv, Recorded
    <3> QED
      BY <3>3, <3>4, Zenon DEF PublishedIn
  <2>3. PublishedIn(buf', written') /\ \A s \in Segments : PublishedIn(disk'[s], written')
    BY <1>1, <2>0, Zenon DEF WInv, Recorded, PublishedIn
  <2> QED
    BY <1>1, <2>0, <2>1, <2>2, <2>3, Zenon DEF WInv, Recorded
<1>4. Scalars'
  <2>1. currentSize' \in Nat /\ restarts' \in 0..MaxRestarts /\ restarts' # 0
    BY <1>0, <1>1 DEF WInv, Scalars
  <2> QED
    BY <1>1, <2>1, Zenon DEF WInv, Scalars
<1> QED
  BY <1>2, <1>3, <1>4

\* What a crash of the process leaves of each file.
LEMMA ProcessKeepsPart ==
  ASSUME WInv
  PROVE  /\ ProcessKeeps \in [Segments -> Nat]
         /\ \A s \in Segments : synced[s] <= ProcessKeeps[s] /\ ProcessKeeps[s] <= Len(disk[s])
<1>1. \A s \in Segments : Len(disk[s]) \in Nat /\ synced[s] \in Nat /\ synced[s] <= Len(disk[s])
  BY DEF WInv, IInv, Shape, Sizes
<1>2. \A s \in Segments :
        /\ ProcessKeeps[s] \in Nat
        /\ synced[s] <= ProcessKeeps[s] /\ ProcessKeeps[s] <= Len(disk[s])
  <2> SUFFICES ASSUME NEW s \in Segments
               PROVE  /\ ProcessKeeps[s] \in Nat
                      /\ synced[s] <= ProcessKeeps[s] /\ ProcessKeeps[s] <= Len(disk[s])
    BY Zenon
  <2>1. PICK l, y \in Nat : l = Len(disk[s]) /\ y = synced[s] /\ y <= l
    BY <1>1, Zenon
  <2>2. ProcessKeeps[s] = l \/ (ProcessKeeps[s] = l - 1 /\ l > y)
    BY <2>1, Zenon DEF ProcessKeeps
  <2>3. ProcessKeeps[s] \in Nat /\ y <= ProcessKeeps[s] /\ ProcessKeeps[s] <= l
    BY <2>1, <2>2
  <2> QED
    BY <2>1, <2>3, Zenon
<1>3. ProcessKeeps = [s \in Segments |-> ProcessKeeps[s]]
  BY Zenon DEF ProcessKeeps
<1> QED
  BY <1>2, <1>3, Zenon

\* Every step keeps the invariant.
LEMMA StepWInv == WInv /\ [Next]_vars => WInv'
<1> SUFFICES ASSUME WInv, [Next]_vars PROVE WInv'
  BY Zenon
<1>0. IInv'
  BY StepIInv, Zenon DEF WInv
<1>1. ASSUME NEW m \in Messages, WritePublish(m) \/ WriteAck(m)
      PROVE  WInv'
  BY <1>0, <1>1, WriteWInv, Zenon DEF WritePublish, WriteAck, WInv
<1>2. CASE FinishRecord
  BY <1>0, <1>2, FinishWInv, Zenon DEF WInv
<1>3. CASE Sync \/ Close
  BY <1>0, <1>3, SyncCloseWInv, Zenon DEF WInv
<1>a. \A s \in Segments : Len(disk[s]) \in Nat /\ synced[s] \in Nat /\ synced[s] <= Len(disk[s])
  BY DEF WInv, IInv, Shape, Sizes
<1>4. CASE PowerLoss
  <2>1. PICK kept : kept = synced
    BY Zenon
  <2>2. Crash(kept) /\ SyncedOrLeft /\ kept \in [Segments -> Nat]
    BY <1>4, <2>1, Zenon DEF PowerLoss, SyncedOrLeft, WInv, IInv, Shape
  <2>3. \A s \in Segments : synced[s] <= kept[s] /\ kept[s] <= Len(disk[s])
    BY <1>a, <2>1
  <2> QED
    BY <1>0, <2>2, <2>3, CrashWInv, Zenon DEF WInv
<1>5. CASE ProcessCrash
  <2>1. PICK kept : kept = ProcessKeeps
    BY Zenon
  <2>2. Crash(kept) /\ SyncedOrLeft /\ kept \in [Segments -> Nat]
        /\ \A s \in Segments : synced[s] <= kept[s] /\ kept[s] <= Len(disk[s])
    BY <1>5, <2>1, ProcessKeepsPart, Zenon DEF ProcessCrash, SyncedOrLeft
  <2> QED
    BY <1>0, <2>2, CrashWInv, Zenon DEF WInv
<1>6. CASE Restart
  BY <1>0, <1>6, RestartWInv DEF WInv
<1>7. CASE UNCHANGED vars
  <2>1. /\ UNCHANGED <<policy, disk, synced, buf, segmentID, currentSize, usable, sticky>>
        /\ UNCHANGED <<failures, accepted, ackedIDs, written, stable, writing, phase, restarts, recovered>>
    BY <1>7, Zenon DEF vars, logVars, historyVars
  <2>2. Sizes' /\ StableOnDisk'
    BY <2>1, Zenon DEF WInv, Sizes, StableOnDisk, Cell
  <2>3. Recorded'
    BY <2>1, Zenon DEF WInv, Recorded, PublishedIn
  <2>4. Scalars'
    BY <2>1, Zenon DEF WInv, Scalars
  <2> QED
    BY <1>0, <2>2, <2>3, <2>4, Zenon DEF WInv
<1> QED
  BY <1>1, <1>2, <1>3, <1>4, <1>5, <1>6, <1>7, Zenon DEF Next

\* The invariant contains the type invariant.
LEMMA WInvTypes == WInv => TypeOK
<1> SUFFICES ASSUME WInv PROVE TypeOK
  OBVIOUS
<1>1. ASSUME NEW c \in AnyCell PROVE c \in Cells \cup {Torn(x) : x \in Cells}
  <2>1. PICK op \in {"publish", "ack"}, m \in Messages, t \in BOOLEAN : c = [op |-> op, msg |-> m, torn |-> t]
    BY DEF AnyCell
  <2>2. Cell(op, m) \in Cells
    BY DEF Cells
  <2>3. CASE t = FALSE
    BY <2>1, <2>2, <2>3, Zenon DEF Cell
  <2>4. CASE t = TRUE
    <3>1. PICK x \in AnyCell : x = Cell(op, m) /\ x.op = op /\ x.msg = m
      BY <2>2, CellFields, Zenon DEF Cell
    <3>2. Torn(x) \in AnyCell /\ Torn(x).op = x.op /\ Torn(x).msg = x.msg /\ Torn(x).torn = TRUE
      BY Zenon DEF AnyCell, Torn
    <3>3. PICK y \in AnyCell : y = Torn(x) /\ y.op = op /\ y.msg = m /\ y.torn = TRUE
      BY <3>1, <3>2, Zenon
    <3>4. c.op = op /\ c.msg = m /\ c.torn = TRUE
      BY <2>1, <2>4, Zenon
    <3>5. c = y
      BY <3>3, <3>4 DEF AnyCell
    <3> QED
      BY <2>2, <3>1, <3>3, <3>5, Zenon
  <2> QED
    BY <2>3, <2>4, Zenon
<1>2. \A s \in Segments : Range(disk[s]) \subseteq Cells \cup {Torn(x) : x \in Cells}
  <2>1. \A s \in Segments : Range(disk[s]) \subseteq AnyCell
    BY DEF WInv, IInv, Shape, Range
  <2> QED
    BY <1>1, <2>1, Zenon
<1>3. Range(buf) \subseteq Cells
  BY DEF WInv, Recorded, Range
<1>4. \A s \in Segments : synced[s] \in 0..Len(disk[s])
  <2>1. \A s \in Segments : Len(disk[s]) \in Nat /\ synced[s] \in Nat /\ synced[s] <= Len(disk[s])
    BY DEF WInv, IInv, Shape, Sizes
  <2> QED
    BY <2>1
<1> QED
  BY <1>2, <1>3, <1>4, Zenon DEF TypeOK, WInv, IInv, Shape, Scalars, Recorded

\* The durable record of a message is given back by Replay unless a torn record
\* comes before it.
LEMMA WInvRecovers == WInv => StableIsRecovered
<1> SUFFICES ASSUME WInv, NEW m \in stable
             PROVE  \E s \in Segments : \E i \in DOMAIN disk[s] :
                      /\ disk[s][i] = Cell("publish", m)
                      /\ m \in Range(Replay(disk)) \/ \E j \in 1..(i - 1) : disk[s][j].torn
  BY Zenon DEF StableIsRecovered
<1>0. disk \in [Segments -> Seq(AnyCell)] /\ synced \in [Segments -> Nat]
  BY Zenon DEF WInv, IInv, Shape
<1>1. PICK s \in Segments : \E i \in 1..synced[s] : disk[s][i] = Cell("publish", m)
  BY Zenon DEF WInv, StableOnDisk
<1>2. PICK i \in 1..synced[s] : disk[s][i] = Cell("publish", m)
  BY <1>1, Zenon
<1>3. PICK cells \in Seq(AnyCell) : cells = disk[s]
  BY <1>0, Zenon
<1>4. i \in DOMAIN cells /\ i \in Nat
  <2>1. synced[s] \in Nat /\ Len(cells) \in Nat /\ synced[s] <= Len(cells)
    BY <1>0, <1>3 DEF WInv, Sizes
  <2>2. i \in 1..Len(cells)
    BY <2>1
  <2> QED
    BY <2>2
<1>5. cells[i].op = "publish" /\ cells[i].msg = m /\ ~cells[i].torn
  BY <1>2, <1>3 DEF Cell
<1>6. CASE \E j \in 1..(i - 1) : cells[j].torn
  BY <1>2, <1>3, <1>4, <1>6, Zenon
<1>7. CASE ~ \E j \in 1..(i - 1) : cells[j].torn
  <2>1. \A j \in 1..i : j = i \/ j \in 1..(i - 1)
    BY <1>4
  <2>2. Readable(cells, i)
    BY <1>5, <1>7, <2>1, Zenon DEF Readable
  <2>3. m \in Range(ReplayFile(cells))
    BY <1>4, <1>5, <2>2, FileElements, Zenon
  <2>4. m \in Range(Replay(disk))
    BY <1>0, <1>3, <2>3, ReplayElements, Zenon
  <2> QED
    BY <1>2, <1>3, <1>4, <2>4, Zenon
<1> QED
  BY <1>6, <1>7, Zenon

\* Type correctness of the log: the cells that writeRecord leaves in files and
\* buffer, the durable part, the rotation threshold and the failing bufWriter.
THEOREM TypeCorrect == Spec => []TypeOK
BY InitWInv, StepWInv, WInvTypes, PTL DEF Spec

\* A message that a completed Sync covered stays in its file through every
\* crash, restart and rotation, and Replay hands it over unless a torn record
\* of an earlier crash comes before it in the same segment.
THEOREM DurableIsRecovered == Spec => []StableIsRecovered
BY InitWInv, StepWInv, WInvRecovers, PTL DEF Spec

-----------------------------------------------------------------------------
(***************************************************************************)
(* The order of the first recovery.                                        *)
(***************************************************************************)

\* The sequence a is a beginning of b.
Begins(a, b) == \E n \in 0..Len(b) : a = SubSeq(b, 1, n)

\* The cells of a file are all intact.
Intact(cells) == \A i \in DOMAIN cells : ~cells[i].torn

\* The files d, up to the active one, and the buffer b hold w in its order.
Held(d, id, b, w) ==
  /\ \A s \in Segments : Intact(d[s])
  /\ \A s \in Segments : s > id => d[s] = <<>>
  /\ w = Replay(d) \o ReplayFile(b)

\* The files of d before the active one are durable.
Durable(d, id, y) == \A s \in Segments : s < id => y[s] = Len(d[s])

(***************************************************************************)
(* The strengthening for the order of a recovery: as long as every segment *)
(* could be opened, the files and the buffer of the first process hold all *)
(* that was written, in its order, and only the active file has a part     *)
(* that a crash can take.                                                  *)
(***************************************************************************)
History ==
  failures = 0 =>
    /\ usable
    /\ restarts = 0 =>
         /\ recovered = <<>>
         /\ phase # "down" => /\ Held(disk, segmentID, buf, written)
                              /\ Durable(disk, segmentID, synced)
         /\ phase = "down" => Begins(Replay(disk), written)
    /\ restarts = 1 => Begins(recovered, written)

\* Sequences with the same elements in the same places are the same.
LEMMA SameSequence ==
  ASSUME NEW S, NEW a \in Seq(S), NEW b \in Seq(S), Len(a) = Len(b),
         \A i \in 1..Len(a) : a[i] = b[i]
  PROVE  a = b
OBVIOUS

\* Two laws of sequences, as facts about named sequences.
Associative(a, b, c) == (a \o b) \o c = a \o (b \o c)
AppendsLast(a, b, e) == Append(a \o b, e) = a \o Append(b, e)

\* Concatenation is associative.
LEMMA Regroup ==
  ASSUME NEW S, NEW a \in Seq(S), NEW b \in Seq(S), NEW c \in Seq(S)
  PROVE  Associative(a, b, c)
BY DEF Associative

\* The empty sequence adds nothing.
LEMMA AddNothing ==
  ASSUME NEW S, NEW a \in Seq(S)
  PROVE  a \o <<>> = a /\ <<>> \o a = a
OBVIOUS

\* Appending is concatenation with one element.
LEMMA AppendIsConcatenation ==
  ASSUME NEW S, NEW a \in Seq(S), NEW e \in S
  PROVE  Append(a, e) = a \o <<e>> /\ <<e>> \in Seq(S)
OBVIOUS

\* Appending to a concatenation appends to its second part.
LEMMA AppendLater ==
  ASSUME NEW S, NEW a \in Seq(S), NEW b \in Seq(S), NEW e \in S
  PROVE  AppendsLast(a, b, e)
BY DEF AppendsLast

\* A sequence begins what is added to it.
LEMMA BeginsLonger ==
  ASSUME NEW S, NEW a \in Seq(S), NEW b \in Seq(S)
  PROVE  Begins(a, a \o b)
<1>1. Len(a) \in 0..Len(a \o b) /\ a \o b \in Seq(S)
  OBVIOUS
<1>2. SubSeq(a \o b, 1, Len(a)) \in Seq(S) /\ Len(SubSeq(a \o b, 1, Len(a))) = Len(a)
  BY <1>1
<1>3. \A i \in 1..Len(a) : SubSeq(a \o b, 1, Len(a))[i] = a[i]
  BY <1>1
<1>4. a = SubSeq(a \o b, 1, Len(a))
  BY <1>2, <1>3, SameSequence, Zenon
<1> QED
  BY <1>1, <1>4, Zenon DEF Begins

\* What follows a beginning.
LEMMA BeginsRest ==
  ASSUME NEW S, NEW a \in Seq(S), NEW b \in Seq(S), Begins(a, b)
  PROVE  \E c \in Seq(S) : b = a \o c
<1>1. PICK n \in 0..Len(b) : a = SubSeq(b, 1, n)
  BY Zenon DEF Begins
<1>2. PICK l \in Nat : l = Len(b)
  OBVIOUS
<1>3. PICK c : c = SubSeq(b, n + 1, l)
  BY Zenon
<1>4. c \in Seq(S) /\ Len(c) = l - n /\ \A i \in 1..(l - n) : c[i] = b[n + i]
  BY <1>2, <1>3
<1>5. Len(a) = n /\ \A i \in 1..n : a[i] = b[i]
  BY <1>1
<1>6. a \o c \in Seq(S) /\ Len(a \o c) = l
  BY <1>2, <1>4, <1>5
<1>7. \A i \in 1..l : (a \o c)[i] = b[i]
  <2> SUFFICES ASSUME NEW i \in 1..l PROVE (a \o c)[i] = b[i]
    BY Zenon
  <2>1. CASE i \in 1..n
    BY <1>2, <1>4, <1>5, <2>1
  <2>2. CASE i \notin 1..n
    <3>1. PICK j \in 1..(l - n) : j = i - n /\ n + j = i
      BY <1>2, <2>2
    <3>2. (a \o c)[i] = c[j]
      BY <1>2, <1>4, <1>5, <2>2, <3>1
    <3> QED
      BY <1>4, <3>1, <3>2, Zenon
  <2> QED
    BY <2>1, <2>2, Zenon
<1>8. b = a \o c
  BY <1>2, <1>6, <1>7, SameSequence, Zenon
<1> QED
  BY <1>4, <1>8, Zenon

\* Adding on both sides.
LEMMA BeginsGrows ==
  ASSUME NEW S, NEW p \in Seq(S), NEW a \in Seq(S), NEW b \in Seq(S), NEW c \in Seq(S), Begins(a, b)
  PROVE  Begins(p \o a, (p \o b) \o c)
<1>1. PICK r \in Seq(S) : b = a \o r
  BY BeginsRest, ZenonT(30)
<1>2. r \o c \in Seq(S) /\ p \o a \in Seq(S)
  OBVIOUS
<1>3. PICK t \in Seq(S), pa \in Seq(S) : t = r \o c /\ pa = p \o a
  BY <1>2, Zenon
<1>4. p \o b = pa \o r
  <2>1. Associative(p, a, r)
    BY Regroup, Zenon
  <2> QED
    BY <1>1, <1>3, <2>1, Zenon DEF Associative
<1>5. (p \o b) \o c = pa \o t
  <2>1. Associative(pa, r, c)
    BY Regroup, Zenon
  <2> QED
    BY <1>3, <1>4, <2>1, Zenon DEF Associative
<1>6. Begins(pa, pa \o t)
  BY BeginsLonger, Zenon
<1> QED
  BY <1>3, <1>5, <1>6, Zenon

\* Two files have the same first N cells.
AgreeOn(x, y, N) == N <= Len(x) /\ N <= Len(y) /\ \A i \in 1..N : x[i] = y[i]

\* Two files that agree up to their N-th cell have handed over the same by then.
LEMMA SameCells ==
  ASSUME NEW x \in Seq(AnyCell), NEW y \in Seq(AnyCell), NEW N \in Nat, AgreeOn(x, y, N)
  PROVE  Handed(x)[N] = Handed(y)[N]
<1>0. N <= Len(x) /\ N <= Len(y) /\ \A i \in 1..N : x[i] = y[i]
  BY Zenon DEF AgreeOn
<1>1. PICK f, g : f = Handed(x) /\ g = Handed(y)
  BY Zenon
<1>2. /\ f[0] = <<>> /\ \A n \in 1..Len(x) : f[n] = Round(x, n, f[n - 1])
      /\ g[0] = <<>> /\ \A n \in 1..Len(y) : g[n] = Round(y, n, g[n - 1])
  BY <1>1, HandedLoop, Zenon
<1> DEFINE S == {n \in 0..N : f[n] = g[n]}
<1>3. 0 \in S
  <2>1. f[0] = g[0] /\ 0 \in 0..N
    BY <1>2
  <2> QED
    BY <2>1, Zenon
<1>4. ASSUME NEW n \in 0..N, n < N, n \in S
      PROVE  n + 1 \in S
  <2>1. PICK k \in 1..N : k = n + 1 /\ k - 1 = n
    BY <1>4
  <2>2. k \in 1..Len(x) /\ k \in 1..Len(y) /\ k \in 0..N
    BY <1>0, <2>1
  <2>3. f[k] = Round(x, k, f[n]) /\ g[k] = Round(y, k, g[n]) /\ f[n] = g[n]
    BY <1>2, <1>4, <2>1, <2>2, Zenon
  <2>4. x[k] = y[k] /\ \A i \in 1..k : x[i] = y[i]
    BY <1>0, <2>1
  <2>5. Readable(x, k) <=> Readable(y, k)
    BY <2>4, Zenon DEF Readable
  <2>6. f[k] = g[k]
    BY <2>3, <2>4, <2>5, Zenon DEF Round
  <2> QED
    BY <2>1, <2>2, <2>6, Zenon
<1> HIDE DEF S
<1>5. \A n \in 0..N : n \in S
  BY <1>3, <1>4, UpTo, Zenon
<1>6. N \in S
  BY <1>5
<1> QED
  BY <1>1, <1>6, Zenon DEF S

\* An empty file hands over nothing.
LEMMA EmptyFile == ReplayFile(<<>>) = <<>>
<1>1. <<>> \in Seq(AnyCell) /\ Len(<<>>) = 0
  OBVIOUS
<1> QED
  BY <1>1, HandedLoop, Zenon DEF ReplayFile

\* One more intact record.
LEMMA OneMoreRecord ==
  ASSUME NEW b \in Seq(AnyCell), NEW c \in AnyCell, Intact(b), ~c.torn
  PROVE  ReplayFile(Append(b, c)) = IF c.op = "publish" THEN Append(ReplayFile(b), c.msg) ELSE ReplayFile(b)
<1>1. PICK x \in Seq(AnyCell), N \in Nat, k \in Nat :
        /\ x = Append(b, c) /\ N = Len(b) /\ k = N + 1
        /\ Len(x) = k /\ x[k] = c /\ \A i \in 1..N : x[i] = b[i]
  <2>1. /\ Append(b, c) \in Seq(AnyCell) /\ Len(Append(b, c)) = Len(b) + 1
        /\ Len(b) \in Nat /\ Len(b) + 1 \in Nat
        /\ Append(b, c)[Len(b) + 1] = c /\ \A i \in 1..Len(b) : Append(b, c)[i] = b[i]
    OBVIOUS
  <2> QED
    BY <2>1, Zenon
<1>2. Handed(x)[N] = Handed(b)[N]
  <2>1. AgreeOn(x, b, N)
    BY <1>1 DEF AgreeOn
  <2> QED
    BY <2>1, SameCells, Zenon
<1>3. k \in 1..Len(x) /\ k - 1 = N
  BY <1>1
<1>4. Handed(x)[k] = Round(x, k, Handed(x)[N])
  BY <1>3, HandedLoop, Zenon
<1>5. Readable(x, k)
  <2>1. \A i \in 1..k : i = k \/ i \in 1..N
    BY <1>1
  <2>2. \A i \in 1..N : i \in DOMAIN b
    BY <1>1
  <2> QED
    BY <1>1, <2>1, <2>2, Zenon DEF Readable, Intact
<1> QED
  BY <1>1, <1>2, <1>4, <1>5, Zenon DEF Round, ReplayFile

\* An intact file that is continued with intact records.
LEMMA MoreRecords ==
  ASSUME NEW a \in Seq(AnyCell), NEW b \in Seq(AnyCell), Intact(a), Intact(b)
  PROVE  ReplayFile(a \o b) = ReplayFile(a) \o ReplayFile(b) /\ Intact(a \o b)
<1>1. PICK x \in Seq(AnyCell), L \in Nat, N \in Nat :
        /\ x = a \o b /\ L = Len(a) /\ N = Len(b) /\ Len(x) = L + N
        /\ \A i \in 1..L : x[i] = a[i]
        /\ \A i \in 1..N : x[L + i] = b[i]
  <2>1. /\ a \o b \in Seq(AnyCell) /\ Len(a \o b) = Len(a) + Len(b) /\ Len(a) \in Nat /\ Len(b) \in Nat
        /\ \A i \in 1..Len(a) : (a \o b)[i] = a[i]
        /\ \A i \in 1..Len(b) : (a \o b)[Len(a) + i] = b[i]
    OBVIOUS
  <2> QED
    BY <2>1, ZenonT(30)
<1>2. Intact(x)
  <2> SUFFICES ASSUME NEW i \in 1..(L + N) PROVE ~x[i].torn
    BY <1>1 DEF Intact
  <2>1. CASE i \in 1..L
    BY <1>1, <2>1 DEF Intact
  <2>2. CASE i \notin 1..L
    <3>1. PICK j \in 1..N : i = L + j
      <4>1. i - L \in 1..N /\ i = L + (i - L)
        BY <2>2
      <4> QED
        BY <4>1
    <3>2. x[i] = b[j] /\ j \in DOMAIN b
      BY <1>1, <3>1
    <3> QED
      BY <3>2 DEF Intact
  <2> QED
    BY <2>1, <2>2
<1>3. PICK f, g, p : f = Handed(x) /\ g = Handed(b) /\ p = ReplayFile(a)
  BY Zenon
<1>4. /\ \A n \in 1..(L + N) : f[n] = Round(x, n, f[n - 1])
      /\ g \in [0..N -> Seq(Messages)] /\ g[0] = <<>> /\ \A n \in 1..N : g[n] = Round(b, n, g[n - 1])
      /\ p \in Seq(Messages)
  BY <1>1, <1>3, HandedLoop, FileType, Zenon
<1>5. f[L] = p
  <2>1. AgreeOn(x, a, L)
    BY <1>1 DEF AgreeOn
  <2>2. Handed(x)[L] = Handed(a)[L]
    BY <2>1, SameCells, Zenon
  <2> QED
    BY <1>1, <1>3, <2>2, Zenon DEF ReplayFile
<1> DEFINE S == {n \in 0..N : f[L + n] = p \o g[n]}
<1>6. 0 \in S
  <2>1. L + 0 = L /\ 0 \in 0..N
    OBVIOUS
  <2>2. p \o <<>> = p
    BY <1>4, AddNothing, Zenon
  <2>3. f[L + 0] = p \o g[0]
    BY <1>4, <1>5, <2>1, <2>2, Zenon
  <2> QED
    BY <2>1, <2>3, Zenon
<1>7. ASSUME NEW n \in 0..N, n < N, n \in S
      PROVE  n + 1 \in S
  <2>1. PICK k \in 1..N, t \in 1..(L + N) : k = n + 1 /\ k - 1 = n /\ t = L + k /\ t - 1 = L + n
    BY <1>7
  <2>2. PICK q \in Seq(Messages) : q = g[n]
    BY <1>4, Zenon
  <2>3. f[t] = Round(x, t, p \o q) /\ g[k] = Round(b, k, q) /\ x[t] = b[k]
    <3>1. f[t] = Round(x, t, f[t - 1]) /\ g[k] = Round(b, k, g[k - 1])
      BY <1>4, Zenon
    <3>2. f[t - 1] = p \o q /\ g[k - 1] = q
      BY <1>7, <2>1, <2>2, Zenon
    <3> QED
      BY <1>1, <2>1, <3>1, <3>2, Zenon
  <2>4. Readable(x, t) /\ Readable(b, k)
    <3>1. \A i \in 1..t : i \in DOMAIN x
      BY <1>1
    <3>2. \A i \in 1..k : i \in DOMAIN b
      BY <1>1
    <3> QED
      BY <1>2, <3>1, <3>2, Zenon DEF Readable, Intact
  <2>5. f[t] = p \o g[k]
    <3>1. CASE b[k].op = "publish"
      <4>1. PICK m \in Messages : m = b[k].msg
        <5>1. b[k] \in AnyCell
          BY <1>1
        <5> QED
          BY <5>1, Zenon DEF AnyCell
      <4>2. f[t] = Append(p \o q, m) /\ g[k] = Append(q, m)
        BY <2>3, <2>4, <3>1, <4>1, Zenon DEF Round
      <4>3. AppendsLast(p, q, m)
        BY <1>4, AppendLater, Zenon
      <4> QED
        BY <4>2, <4>3, Zenon DEF AppendsLast
    <3>2. CASE b[k].op # "publish"
      BY <2>3, <2>4, <3>2, Zenon DEF Round
    <3> QED
      BY <3>1, <3>2, Zenon
  <2>6. k \in 0..N /\ f[L + k] = p \o g[k]
    BY <2>1, <2>5
  <2> QED
    BY <2>1, <2>6, Zenon
<1> HIDE DEF S
<1>8. \A n \in 0..N : n \in S
  BY <1>6, <1>7, UpTo, Zenon
<1>9. f[L + N] = p \o g[N]
  BY <1>8 DEF S
<1> QED
  BY <1>1, <1>2, <1>3, <1>9, Zenon DEF ReplayFile

\* What was handed over by some record begins what the whole file hands over.
LEMMA HandedBegins ==
  ASSUME NEW x \in Seq(AnyCell), NEW k \in 0..Len(x)
  PROVE  Begins(Handed(x)[k], ReplayFile(x))
<1>0. PICK f : f = Handed(x)
  BY Zenon
<1>1. PICK L \in Nat : L = Len(x) /\ f = Handed(x)
  BY <1>0
<1>2. f \in [0..L -> Seq(Messages)] /\ \A n \in 1..L : f[n] = Round(x, n, f[n - 1])
  BY <1>1, HandedLoop, Zenon
<1>3. PICK a \in Seq(Messages) : a = f[k]
  BY <1>1, <1>2, Zenon
<1> DEFINE S == {n \in 0..L : n >= k => \E c \in Seq(Messages) : f[n] = a \o c}
<1>4. ASSUME NEW n \in 0..L, n = k PROVE n \in S
  <2>1. f[n] = a \o <<>> /\ <<>> \in Seq(Messages)
    BY <1>3, <1>4, AddNothing
  <2> QED
    BY <2>1, Zenon
<1>5. 0 \in S
  <2>1. CASE k = 0
    BY <1>4, <2>1
  <2>2. CASE k # 0
    BY <1>1, <2>2
  <2> QED
    BY <2>1, <2>2, Zenon
<1>6. ASSUME NEW n \in 0..L, n < L, n \in S
      PROVE  n + 1 \in S
  <2>1. PICK j \in 1..L : j = n + 1 /\ j - 1 = n /\ j \in 0..L
    BY <1>6
  <2>2. CASE j <= k
    <3>1. j = k \/ ~(j >= k)
      BY <1>1, <2>2
    <3> QED
      BY <1>4, <2>1, <3>1, Zenon
  <2>3. CASE ~(j <= k)
    <3>1. n >= k
      BY <1>1, <2>1, <2>3
    <3>2. PICK c \in Seq(Messages) : f[n] = a \o c
      BY <1>6, <3>1, Zenon
    <3>3. f[j] = Round(x, j, a \o c)
      BY <1>2, <2>1, <3>2, Zenon
    <3>4. PICK m \in Messages : m = x[j].msg
      <4>1. x[j] \in AnyCell
        BY <1>1
      <4> QED
        BY <4>1, Zenon DEF AnyCell
    <3>5. f[j] = a \o c \/ f[j] = Append(a \o c, m)
      BY <3>3, <3>4, Zenon DEF Round
    <3>6. AppendsLast(a, c, m) /\ Append(c, m) \in Seq(Messages)
      BY AppendLater
    <3>7. \E e \in Seq(Messages) : f[j] = a \o e
      BY <3>5, <3>6, Zenon DEF AppendsLast
    <3> QED
      BY <2>1, <3>7, Zenon
  <2> QED
    BY <2>2, <2>3, Zenon
<1> HIDE DEF S
<1>7. \A n \in 0..L : n \in S
  BY <1>5, <1>6, UpTo, Zenon
<1>8. PICK c \in Seq(Messages) : f[L] = a \o c
  <2>1. L \in 0..L /\ L >= k
    BY <1>1
  <2>2. L \in S
    BY <1>7, <2>1
  <2> QED
    BY <2>1, <2>2, Zenon DEF S
<1> QED
  BY <1>1, <1>3, <1>8, BeginsLonger, Zenon DEF ReplayFile

\* What a crash leaves of an intact file hands over a beginning of it.
LEMMA CutBegins ==
  ASSUME NEW cells \in Seq(AnyCell), NEW n \in 0..Len(cells), NEW left \in CutBeyond(cells, n)
  PROVE  Begins(ReplayFile(left), ReplayFile(cells))
<1>0. n \in Nat /\ Len(cells) \in Nat
  OBVIOUS
<1>1. left \in Seq(AnyCell)
  BY <1>0, CutType
<1>2. CASE \E k \in n..Len(cells) : left = SubSeq(cells, 1, k)
  <2>1. PICK k \in n..Len(cells) : left = SubSeq(cells, 1, k)
    BY <1>2
  <2>2. k \in 0..Len(cells) /\ k \in Nat /\ Len(left) = k /\ \A i \in 1..k : left[i] = cells[i]
    BY <1>0, <2>1
  <2>3. AgreeOn(left, cells, k)
    BY <1>0, <2>2 DEF AgreeOn
  <2>4. Handed(left)[k] = Handed(cells)[k]
    BY <1>1, <2>2, <2>3, SameCells, Zenon
  <2>5. ReplayFile(left) = Handed(cells)[k]
    BY <2>2, <2>4, Zenon DEF ReplayFile
  <2> QED
    BY <2>2, <2>5, HandedBegins, Zenon
<1>3. CASE \E k \in (n + 1)..Len(cells) : left = Append(SubSeq(cells, 1, k - 1), Torn(cells[k]))
  <2>1. PICK k \in (n + 1)..Len(cells) : left = Append(SubSeq(cells, 1, k - 1), Torn(cells[k]))
    BY <1>3
  <2>2. PICK j \in Nat : j = k - 1 /\ k \in 1..Len(cells) /\ k = j + 1 /\ j \in 0..Len(cells)
    BY <1>0
  <2>3. PICK q \in Seq(AnyCell) : q = SubSeq(cells, 1, j) /\ Len(q) = j /\ \A i \in 1..j : q[i] = cells[i]
    <3>1. /\ SubSeq(cells, 1, j) \in Seq(AnyCell) /\ Len(SubSeq(cells, 1, j)) = j
          /\ \A i \in 1..j : SubSeq(cells, 1, j)[i] = cells[i]
      BY <1>0, <2>2
    <3> QED
      BY <3>1, Zenon
  <2>4. PICK t \in AnyCell : t = Torn(cells[k]) /\ t.torn = TRUE
    <3>1. PICK c \in AnyCell : c = cells[k]
      BY <2>2
    <3>2. Torn(c) \in AnyCell /\ Torn(c).torn = TRUE
      BY Zenon DEF AnyCell, Torn
    <3> QED
      BY <3>1, <3>2, Zenon
  <2>5. left = Append(q, t)
    BY <2>1, <2>2, <2>3, <2>4, Zenon
  <2>6. Len(left) = k /\ left[k] = t /\ \A i \in 1..j : left[i] = q[i]
    BY <2>2, <2>3, <2>5
  <2>7. \A i \in 1..j : left[i] = cells[i]
    BY <2>3, <2>6
  <2>8. Handed(left)[j] = Handed(cells)[j]
    <3>1. AgreeOn(left, cells, j)
      BY <1>0, <2>2, <2>6, <2>7 DEF AgreeOn
    <3> QED
      BY <1>1, <3>1, SameCells, Zenon
  <2>9. Handed(left)[k] = Round(left, k, Handed(left)[j])
    <3>1. k \in 1..Len(left) /\ k - 1 = j
      BY <2>2, <2>6
    <3> QED
      BY <1>1, <3>1, HandedLoop, Zenon
  <2>10. ~Readable(left, k)
    <3>1. k \in 1..k
      BY <2>2
    <3> QED
      BY <2>4, <2>6, <3>1, Zenon DEF Readable
  <2>11. ReplayFile(left) = Handed(cells)[j]
    BY <2>6, <2>8, <2>9, <2>10, Zenon DEF Round, ReplayFile
  <2> QED
    BY <2>2, <2>11, HandedBegins, Zenon
<1> QED
  BY <1>2, <1>3, Zenon DEF CutBeyond

\* What the first files hand over does not depend on the later ones.
LEMMA SameFiles ==
  ASSUME NEW d \in [Segments -> Seq(AnyCell)], NEW e \in [Segments -> Seq(AnyCell)],
         NEW N \in 0..MaxSegments, \A s \in 1..N : d[s] = e[s]
  PROVE  HandedBy(d)[N] = HandedBy(e)[N]
<1>1. PICK f, g : f = HandedBy(d) /\ g = HandedBy(e)
  BY Zenon
<1>2. /\ f[0] = <<>> /\ \A s \in Segments : f[s] = f[s - 1] \o ReplayFile(d[s])
      /\ g[0] = <<>> /\ \A s \in Segments : g[s] = g[s - 1] \o ReplayFile(e[s])
  BY <1>1, HandedByLoop, Zenon
<1>3. N \in Nat /\ \A s \in 1..N : s \in Segments
  BY DEF Segments
<1> DEFINE S == {n \in 0..N : f[n] = g[n]}
<1>4. 0 \in S
  <2>1. f[0] = g[0] /\ 0 \in 0..N
    BY <1>2, <1>3
  <2> QED
    BY <2>1, Zenon
<1>5. ASSUME NEW n \in 0..N, n < N, n \in S
      PROVE  n + 1 \in S
  <2>1. PICK k \in 1..N : k = n + 1 /\ k - 1 = n /\ k \in 0..N
    BY <1>3, <1>5
  <2>2. f[k] = f[n] \o ReplayFile(d[k]) /\ g[k] = g[n] \o ReplayFile(e[k])
    BY <1>2, <1>3, <2>1, Zenon
  <2>3. f[n] = g[n] /\ d[k] = e[k]
    BY <1>5, Zenon
  <2>4. f[k] = g[k]
    BY <2>2, <2>3, Zenon
  <2> QED
    BY <2>1, <2>4, Zenon
<1> HIDE DEF S
<1>6. \A n \in 0..N : n \in S
  BY <1>3, <1>4, <1>5, UpTo, Zenon
<1>7. N \in S
  BY <1>3, <1>6
<1> QED
  BY <1>1, <1>7, Zenon DEF S

\* Empty files hand over nothing.
LEMMA NoMoreFiles ==
  ASSUME NEW d \in [Segments -> Seq(AnyCell)], NEW N \in 0..MaxSegments,
         \A s \in Segments : s > N => d[s] = <<>>
  PROVE  Replay(d) = HandedBy(d)[N]
<1>0. PICK f : f = HandedBy(d)
  BY Zenon
<1>1. PICK M \in Nat : f = HandedBy(d) /\ M = MaxSegments /\ Segments = 1..M
  BY <1>0, Zenon DEF Segments
<1>2. f \in [0..M -> Seq(Messages)] /\ \A s \in Segments : f[s] = f[s - 1] \o ReplayFile(d[s])
  BY <1>1, HandedByLoop, Zenon
<1>3. N \in 0..M
  BY <1>1, Zenon
<1> DEFINE S == {n \in 0..M : n >= N => f[n] = f[N]}
<1>4. 0 \in S
  BY <1>3
<1>5. ASSUME NEW n \in 0..M, n < M, n \in S
      PROVE  n + 1 \in S
  <2>1. PICK k \in 1..M : k = n + 1 /\ k - 1 = n /\ k \in 0..M
    BY <1>5
  <2>2. CASE k <= N
    BY <1>3, <2>1, <2>2
  <2>3. CASE ~(k <= N)
    <3>1. n >= N /\ k > N /\ k \in Segments
      BY <1>1, <1>3, <2>1, <2>3
    <3>2. PICK q \in Seq(Messages) : q = f[n] /\ q = f[N]
      BY <1>2, <1>5, <3>1, Zenon
    <3>3. f[k] = q \o ReplayFile(<<>>)
      BY <1>2, <2>1, <3>1, <3>2, Zenon
    <3>4. f[k] = q
      <4>1. q \o <<>> = q
        BY AddNothing, Zenon
      <4> QED
        BY <3>3, <4>1, EmptyFile, Zenon
    <3>5. f[k] = f[N]
      BY <3>2, <3>4, Zenon
    <3> QED
      BY <2>1, <3>5, Zenon
  <2> QED
    BY <2>2, <2>3, Zenon
<1> HIDE DEF S
<1>6. \A n \in 0..M : n \in S
  BY <1>4, <1>5, UpTo, Zenon
<1>7. M \in S /\ M >= N
  BY <1>3, <1>6
<1> QED
  BY <1>1, <1>7, Zenon DEF S, Replay

\* The files differ in the active one only, the last that is not empty.
DifferIn(d, e, id) ==
  /\ \A s \in Segments : s > id => d[s] = <<>>
  /\ \A s \in Segments : s # id => e[s] = d[s]

\* What they hand over differs in what the active one does.
HandOver(d, e, id) ==
  \E p \in Seq(Messages) :
    Replay(d) = p \o ReplayFile(d[id]) /\ Replay(e) = p \o ReplayFile(e[id])

\* Replay of files that differ in the active one.
LEMMA ActiveFile ==
  ASSUME NEW d \in [Segments -> Seq(AnyCell)], NEW e \in [Segments -> Seq(AnyCell)],
         NEW id \in Segments, DifferIn(d, e, id)
  PROVE  HandOver(d, e, id)
<1>0. /\ \A s \in Segments : s > id => d[s] = <<>>
      /\ \A s \in Segments : s # id => e[s] = d[s]
  BY Zenon DEF DifferIn
<1>1. PICK k \in 0..MaxSegments : k = id - 1
  BY DEF Segments
<1>2. id \in 0..MaxSegments /\ \A s \in 1..k : s \in Segments /\ s # id
  BY <1>1 DEF Segments
<1>3. HandedBy(e)[k] = HandedBy(d)[k]
  BY <1>0, <1>2, SameFiles, ZenonT(30)
<1>4. PICK p \in Seq(Messages) : p = HandedBy(d)[k]
  BY HandedByLoop, Zenon
<1>5. HandedBy(d)[id] = p \o ReplayFile(d[id]) /\ HandedBy(e)[id] = p \o ReplayFile(e[id])
  BY <1>1, <1>3, <1>4, HandedByLoop, Zenon
<1>6. \A s \in Segments : s > id => e[s] = <<>>
  BY <1>0 DEF Segments
<1>7. Replay(d) = HandedBy(d)[id] /\ Replay(e) = HandedBy(e)[id]
  BY <1>0, <1>2, <1>6, NoMoreFiles, Zenon
<1> QED
  BY <1>4, <1>5, <1>7, Zenon DEF HandOver

\* What the files hand over.
LEMMA ReplayType ==
  ASSUME NEW d \in [Segments -> Seq(AnyCell)]
  PROVE  Replay(d) \in Seq(Messages)
<1>1. MaxSegments \in 0..MaxSegments
  OBVIOUS
<1> QED
  BY <1>1, HandedByLoop, Zenon DEF Replay

\* The records of the buffer are intact.
LEMMA BufferIntact ==
  ASSUME NEW b \in Seq(Cells)
  PROVE  Intact(b) /\ b \in Seq(AnyCell)
<1>1. \A i \in DOMAIN b : b[i] \in Cells
  OBVIOUS
<1> QED
  BY <1>1, CellFields, CellsAreCells, Zenon DEF Intact

\* Flush moves the buffer into the active file.
LEMMA FlushHeld ==
  ASSUME NEW d \in [Segments -> Seq(AnyCell)], NEW id \in Segments, NEW b \in Seq(Cells),
         NEW w, Held(d, id, b, w)
  PROVE  Held([d EXCEPT ![id] = d[id] \o b], id, <<>>, w)
<1>0. Intact(b) /\ b \in Seq(AnyCell)
  BY BufferIntact, Zenon
<1>1. PICK c \in Seq(AnyCell) : c = d[id] /\ Intact(c)
  BY Zenon DEF Held
<1>2. c \o b \in Seq(AnyCell)
  BY <1>0
<1>3. PICK g \in Seq(AnyCell) : g = c \o b
  BY <1>2, Zenon
<1>4. PICK e \in [Segments -> Seq(AnyCell)] :
        /\ e = [d EXCEPT ![id] = d[id] \o b]
        /\ e[id] = g /\ \A s \in Segments : s # id => e[s] = d[s]
  <2>1. [d EXCEPT ![id] = g] \in [Segments -> Seq(AnyCell)]
    BY Zenon
  <2> QED
    BY <1>1, <1>3, <2>1, Zenon
<1>5. ReplayFile(g) = ReplayFile(c) \o ReplayFile(b) /\ Intact(g)
  BY <1>0, <1>1, <1>3, MoreRecords, Zenon
<1>6. \A s \in Segments : s > id => d[s] = <<>>
  BY Zenon DEF Held
<1>7. PICK p \in Seq(Messages) : Replay(d) = p \o ReplayFile(c) /\ Replay(e) = p \o ReplayFile(g)
  <2>1. DifferIn(d, e, id)
    BY <1>4, <1>6, Zenon DEF DifferIn
  <2>2. HandOver(d, e, id)
    BY <2>1, ActiveFile, Zenon
  <2> QED
    BY <1>1, <1>4, <2>2, Zenon DEF HandOver
<1>8. PICK q \in Seq(Messages), r \in Seq(Messages) : q = ReplayFile(c) /\ r = ReplayFile(b)
  BY <1>0, FileType, Zenon
<1>9. w = Replay(e)
  <2>1. Associative(p, q, r)
    BY Regroup, Zenon
  <2>2. w = (p \o q) \o r
    BY <1>7, <1>8, Zenon DEF Held
  <2> QED
    BY <1>5, <1>7, <1>8, <2>1, <2>2, Zenon DEF Associative
<1>10. w = Replay(e) \o ReplayFile(<<>>)
  <2>1. PICK x \in Seq(Messages) : x = Replay(e)
    BY ReplayType, Zenon
  <2>2. x \o <<>> = x
    BY AddNothing, Zenon
  <2> QED
    BY <1>9, <2>1, <2>2, EmptyFile, Zenon
<1>11. \A s \in Segments : Intact(e[s])
  BY <1>4, <1>5, Zenon DEF Held
<1>12. \A s \in Segments : s > id => e[s] = <<>>
  BY <1>4, <1>6 DEF Segments
<1>13. Held(e, id, <<>>, w)
  BY <1>10, <1>11, <1>12, Zenon DEF Held
<1> QED
  BY <1>4, <1>13, Zenon

\* A record that is put into the buffer.
LEMMA RecordHeld ==
  ASSUME NEW d \in [Segments -> Seq(AnyCell)], NEW id, NEW b \in Seq(Cells), NEW w \in Seq(Messages),
         NEW op \in {"publish", "ack"}, NEW m \in Messages, Held(d, id, b, w)
  PROVE  Held(d, id, Append(b, Cell(op, m)), IF op = "publish" THEN Append(w, m) ELSE w)
<1>0. Intact(b) /\ b \in Seq(AnyCell)
  BY BufferIntact, Zenon
<1>1. PICK c \in AnyCell : c = Cell(op, m) /\ ~c.torn /\ c.op = op /\ c.msg = m
  <2>1. Cell(op, m) \in AnyCell /\ ~Cell(op, m).torn /\ Cell(op, m).op = op /\ Cell(op, m).msg = m
    BY Zenon DEF AnyCell, Cell
  <2> QED
    BY <2>1, Zenon
<1>2. PICK p \in Seq(Messages), q \in Seq(Messages) : p = Replay(d) /\ q = ReplayFile(b) /\ w = p \o q
  BY <1>0, ReplayType, FileType, Zenon DEF Held
<1>3. ReplayFile(Append(b, c)) = IF op = "publish" THEN Append(q, m) ELSE q
  BY <1>0, <1>1, <1>2, OneMoreRecord, Zenon
<1>4. AppendsLast(p, q, m)
  BY AppendLater, Zenon
<1>5. (IF op = "publish" THEN Append(w, m) ELSE w) = p \o ReplayFile(Append(b, c))
  <2>1. CASE op = "publish"
    BY <1>2, <1>3, <1>4, <2>1, Zenon DEF AppendsLast
  <2>2. CASE op # "publish"
    BY <1>2, <1>3, <2>2, Zenon
  <2> QED
    BY <2>1, <2>2, Zenon
<1> QED
  BY <1>1, <1>2, <1>5, Zenon DEF Held

\* A file that a crash cannot take anything of.
LEMMA CutNothing ==
  ASSUME NEW cells \in Seq(AnyCell), NEW left \in CutBeyond(cells, Len(cells))
  PROVE  left = cells
<1>1. PICK l \in Nat : l = Len(cells)
  OBVIOUS
<1>2. (l..l) = {l} /\ ((l + 1)..l) = {}
  BY <1>1
<1>3. left = SubSeq(cells, 1, l)
  BY <1>1, <1>2, Zenon DEF CutBeyond
<1>4. left \in Seq(AnyCell) /\ Len(left) = l /\ \A i \in 1..l : left[i] = cells[i]
  BY <1>1, <1>3
<1> QED
  BY <1>1, <1>4, SameSequence, Zenon

\* A crash leaves e of the files d and takes nothing but a part of the active one.
Leaves(d, e, id, kept) ==
  /\ \A s \in Segments : kept[s] <= Len(d[s]) /\ e[s] \in CutBeyond(d[s], kept[s])
  /\ \A s \in Segments : s # id => kept[s] = Len(d[s])

\* Such a crash leaves a beginning of what was held.
LEMMA CrashHeld ==
  ASSUME NEW d \in [Segments -> Seq(AnyCell)], NEW e \in [Segments -> Seq(AnyCell)],
         NEW id \in Segments, NEW b \in Seq(Cells), NEW w, Held(d, id, b, w),
         NEW kept \in [Segments -> Nat], Leaves(d, e, id, kept)
  PROVE  Begins(Replay(e), w)
<1>a. /\ \A s \in Segments : kept[s] <= Len(d[s]) /\ e[s] \in CutBeyond(d[s], kept[s])
      /\ \A s \in Segments : s # id => kept[s] = Len(d[s])
  BY Zenon DEF Leaves
<1>0. b \in Seq(AnyCell)
  BY BufferIntact, Zenon
<1>1. ASSUME NEW s \in Segments, s # id PROVE e[s] = d[s]
  <2>1. PICK x \in Seq(AnyCell) : x = d[s]
    BY Zenon
  <2>2. e[s] \in CutBeyond(x, Len(x))
    BY <1>a, <1>1, <2>1, Zenon
  <2> QED
    BY <2>1, <2>2, CutNothing, Zenon
<1>2. \A s \in Segments : s > id => d[s] = <<>>
  BY Zenon DEF Held
<1>3. PICK p \in Seq(Messages) :
        Replay(d) = p \o ReplayFile(d[id]) /\ Replay(e) = p \o ReplayFile(e[id])
  <2>1. DifferIn(d, e, id)
    BY <1>1, <1>2, Zenon DEF DifferIn
  <2>2. HandOver(d, e, id)
    BY <2>1, ActiveFile, Zenon
  <2> QED
    BY <2>2, Zenon DEF HandOver
<1>4. PICK x \in Seq(AnyCell), y \in Seq(AnyCell), n \in Nat : x = d[id] /\ y = e[id] /\ n = kept[id]
  BY Zenon
<1>5. n \in 0..Len(x) /\ y \in CutBeyond(x, n)
  BY <1>a, <1>4
<1>6. Begins(ReplayFile(y), ReplayFile(x))
  BY <1>5, CutBegins, Zenon
<1>7. PICK q \in Seq(Messages), r \in Seq(Messages), t \in Seq(Messages) :
        q = ReplayFile(y) /\ r = ReplayFile(x) /\ t = ReplayFile(b)
  BY <1>0, FileType, Zenon
<1>8. Begins(p \o q, (p \o r) \o t)
  BY <1>6, <1>7, BeginsGrows, Zenon
<1>9. w = (p \o r) \o t /\ Replay(e) = p \o q
  BY <1>3, <1>4, <1>7, Zenon DEF Held
<1> QED
  BY <1>8, <1>9, Zenon

\* What begins w begins what is written after it.
LEMMA BeginsWritten ==
  ASSUME NEW a, NEW w \in Seq(Messages), NEW m \in Messages, Begins(a, w)
  PROVE  Begins(a, Append(w, m))
<1>1. PICK n \in 0..Len(w) : a = SubSeq(w, 1, n)
  BY Zenon DEF Begins
<1>2. n \in 0..Len(Append(w, m)) /\ n \in Nat
  OBVIOUS
<1>3. SubSeq(Append(w, m), 1, n) = SubSeq(w, 1, n)
  <2>1. PICK x \in Seq(Messages), y \in Seq(Messages) :
          x = SubSeq(Append(w, m), 1, n) /\ y = SubSeq(w, 1, n)
    <3>1. SubSeq(Append(w, m), 1, n) \in Seq(Messages) /\ SubSeq(w, 1, n) \in Seq(Messages)
      OBVIOUS
    <3> QED
      BY <3>1, Zenon
  <2>2. Len(x) = n /\ Len(y) = n /\ \A i \in 1..n : x[i] = w[i] /\ y[i] = w[i]
    BY <1>2, <2>1
  <2> QED
    BY <2>1, <2>2, SameSequence, Zenon
<1> QED
  BY <1>1, <1>2, <1>3, Zenon DEF Begins

\* The first state.
LEMMA InitHistory == Init => History
<1> SUFFICES ASSUME Init PROVE History
  OBVIOUS
<1>1. /\ disk \in [Segments -> Seq(AnyCell)] /\ \A s \in Segments : disk[s] = <<>>
      /\ buf = <<>> /\ written = <<>> /\ segmentID = 1
  BY DEF Init
<1>2. Replay(disk) = <<>>
  <2>1. 0 \in 0..MaxSegments
    OBVIOUS
  <2>2. Replay(disk) = HandedBy(disk)[0]
    BY <1>1, <2>1, NoMoreFiles, Zenon
  <2> QED
    BY <1>1, <2>2, HandedByLoop, Zenon
<1>3. written = Replay(disk) \o ReplayFile(buf)
  <2>1. <<>> \o <<>> = <<>>
    OBVIOUS
  <2> QED
    BY <1>1, <1>2, <2>1, EmptyFile, Zenon
<1>4. \A s \in Segments : Intact(disk[s])
  BY <1>1 DEF Intact
<1>5. Held(disk, segmentID, buf, written)
  BY <1>1, <1>3, <1>4, Zenon DEF Held
<1>6. Durable(disk, segmentID, synced)
  BY <1>1 DEF Durable, Segments
<1> QED
  BY <1>5, <1>6 DEF History, Init

\* What the order of a recovery needs of the types.
LEMMA HistoryTypes ==
  ASSUME WInv
  PROVE  /\ disk \in [Segments -> Seq(AnyCell)] /\ synced \in [Segments -> Nat]
         /\ segmentID \in Segments /\ failures \in Nat /\ restarts \in Nat
         /\ buf \in Seq(Cells) /\ written \in Seq(Messages) /\ recovered \in Seq(Messages)
         /\ \A s \in Segments : Len(disk[s]) \in Nat /\ synced[s] <= Len(disk[s])
BY DEF WInv, IInv, Shape, Recorded, Scalars, Sizes

\* writeRecord up to the flush.
LEMMA WriteHistory ==
  ASSUME WInv, History, NEW op \in {"publish", "ack"}, NEW m \in Messages, WriteRecord(op, m)
  PROVE  History'
<1>1. /\ written' = IF op = "publish" THEN Append(written, m) ELSE written
      /\ phase = "up"
      /\ UNCHANGED <<synced, segmentID, usable, failures, phase, restarts, recovered>>
  BY Zenon DEF WriteRecord
<1> SUFFICES ASSUME failures = 0, usable
             PROVE  /\ restarts = 0 => /\ Held(disk', segmentID, buf', written')
                                       /\ Durable(disk', segmentID, synced)
                    /\ restarts = 1 => Begins(recovered, written')
  BY <1>1, Zenon DEF History
<1>2. ASSUME restarts = 1 PROVE Begins(recovered, written')
  <2>1. Begins(recovered, written)
    BY <1>2, Zenon DEF History
  <2> QED
    BY <1>1, <2>1, HistoryTypes, BeginsWritten, Zenon
<1>3. ASSUME restarts = 0
      PROVE  Held(disk', segmentID, buf', written') /\ Durable(disk', segmentID, synced)
  <2>0. Held(disk, segmentID, buf, written) /\ Durable(disk, segmentID, synced)
    BY <1>1, <1>3, Zenon DEF History
  <2>1. PICK b : b = Append(buf, Cell(op, m))
    BY Zenon
  <2>2. b \in Seq(Cells)
    <3>1. Cell(op, m) \in Cells
      BY DEF Cells
    <3> QED
      BY <2>1, <3>1, HistoryTypes
  <2>3. Held(disk, segmentID, b, written')
    BY <1>1, <2>0, <2>1, HistoryTypes, RecordHeld, Zenon
  <2>4. Flush(b) \/ (buf' = b /\ disk' = disk)
    BY <2>1, Zenon DEF WriteRecord
  <2>5. CASE Flush(b)
    <3>1. disk' = [disk EXCEPT ![segmentID] = disk[segmentID] \o b] /\ buf' = <<>>
      BY <2>5, Zenon DEF Flush
    <3>2. Held(disk', segmentID, buf', written')
      BY <2>2, <2>3, <3>1, HistoryTypes, FlushHeld, Zenon
    <3>3. \A s \in Segments : s < segmentID => disk'[s] = disk[s]
      BY <3>1, HistoryTypes DEF Segments
    <3> QED
      BY <2>0, <3>2, <3>3, Zenon DEF Durable
  <2>6. CASE buf' = b /\ disk' = disk
    BY <2>0, <2>3, <2>6, Zenon
  <2> QED
    BY <2>4, <2>5, <2>6, Zenon
<1> QED
  BY <1>2, <1>3, Zenon

\* The rest of writeRecord.
LEMMA FinishHistory ==
  ASSUME WInv, History, FinishRecord
  PROVE  History'
<1>1. phase = "up" /\ UNCHANGED <<written, phase, restarts, recovered>>
  BY Zenon DEF FinishRecord
<1>2. CASE RotateSegment
  <2> SUFFICES ASSUME failures' = 0 PROVE History'
    BY Zenon DEF History
  <2>1. /\ failures = 0 /\ usable' = TRUE /\ buf' = <<>>
        /\ segmentID' = segmentID + 1 /\ segmentID < MaxSegments
    BY <1>2, HistoryTypes DEF RotateSegment
  <2>2. /\ disk' = [disk EXCEPT ![segmentID] = disk[segmentID] \o buf]
        /\ synced' = [synced EXCEPT ![segmentID] = Len(disk'[segmentID])]
    BY <1>2, <2>1, Zenon DEF RotateSegment, FileSync, History
  <2>3. ASSUME restarts = 0
        PROVE  Held(disk', segmentID', buf', written') /\ Durable(disk', segmentID', synced')
    <3>0. Held(disk, segmentID, buf, written) /\ Durable(disk, segmentID, synced)
      BY <1>1, <2>1, <2>3, Zenon DEF History
    <3>1. Held(disk', segmentID, buf', written)
      BY <2>1, <2>2, <3>0, HistoryTypes, FlushHeld, Zenon
    <3>2. segmentID \in Nat /\ \A s \in Segments : s \in Nat
      BY HistoryTypes DEF Segments
    <3>3. \A s \in Segments : s > segmentID' => s > segmentID
      BY <2>1, <3>2
    <3>4. Held(disk', segmentID', buf', written')
      BY <1>1, <3>1, <3>3, Zenon DEF Held
    <3>5. \A s \in Segments : s < segmentID' => s = segmentID \/ (s # segmentID /\ s < segmentID)
      BY <2>1, <3>2
    <3>6. \A s \in Segments : s # segmentID => disk'[s] = disk[s] /\ synced'[s] = synced[s]
      BY <2>2, HistoryTypes, Zenon
    <3>7. synced'[segmentID] = Len(disk'[segmentID])
      BY <2>2, HistoryTypes, Zenon
    <3> QED
      BY <3>0, <3>4, <3>5, <3>6, <3>7, Zenon DEF Durable
  <2> QED
    BY <1>1, <2>1, <2>3, Zenon DEF History
<1>3. CASE /\ UNCHANGED <<disk, buf, segmentID, currentSize, usable, sticky, failures>>
           /\ PolicyFsync
  <2>1. \A s \in Segments : s < segmentID => synced'[s] = synced[s]
    BY <1>3, HistoryTypes DEF PolicyFsync, FileSync, Segments
  <2>2. Durable(disk, segmentID, synced) => Durable(disk', segmentID', synced')
    BY <1>3, <2>1 DEF Durable
  <2> QED
    BY <1>1, <1>3, <2>2, Zenon DEF History
<1> QED
  BY <1>2, <1>3, Zenon DEF FinishRecord

\* Sync and Close.
LEMMA SyncCloseHistory ==
  ASSUME WInv, History, Sync \/ Close
  PROVE  History'
<1>1. /\ phase = "up" /\ phase' # "down" /\ Flush(buf) /\ (FileSync \/ UNCHANGED synced)
      /\ UNCHANGED <<segmentID, usable, failures, written, restarts, recovered>>
  BY Zenon DEF Sync, Close
<1> SUFFICES ASSUME failures = 0, usable, restarts = 0
             PROVE  Held(disk', segmentID, buf', written) /\ Durable(disk', segmentID, synced')
  BY <1>1, Zenon DEF History
<1>2. Held(disk, segmentID, buf, written) /\ Durable(disk, segmentID, synced)
  BY <1>1, Zenon DEF History
<1>3. disk' = [disk EXCEPT ![segmentID] = disk[segmentID] \o buf] /\ buf' = <<>>
  BY <1>1, Zenon DEF Flush
<1>4. Held(disk', segmentID, buf', written)
  BY <1>2, <1>3, HistoryTypes, FlushHeld, Zenon
<1>5. \A s \in Segments : s < segmentID => disk'[s] = disk[s] /\ synced'[s] = synced[s]
  <2>1. \A s \in Segments : s < segmentID => s # segmentID
    BY HistoryTypes DEF Segments
  <2> QED
    BY <1>1, <1>3, <2>1, HistoryTypes, Zenon DEF FileSync
<1> QED
  BY <1>2, <1>4, <1>5, Zenon DEF Durable

\* A crash that leaves all but a part of the active file.
LEMMA CrashHistory ==
  ASSUME WInv, WInv', History, NEW kept \in [Segments -> Nat], Crash(kept),
         \A s \in Segments : synced[s] <= kept[s] /\ kept[s] <= Len(disk[s])
  PROVE  History'
<1>1. /\ phase = "up" /\ phase' = "down"
      /\ UNCHANGED <<usable, failures, written, restarts, recovered>>
  BY ZenonT(30) DEF Crash, historyVars
<1>2. \A s \in Segments : disk'[s] \in CutBeyond(disk[s], kept[s])
  <2> DEFINE remains == [s \in Segments |-> CutBeyond(disk[s], kept[s])]
  <2>1. PICK d \in [Segments -> UNION Range(remains)] :
          (\A s \in Segments : d[s] \in remains[s]) /\ disk' = d
    BY ZenonT(30) DEF Crash
  <2> QED
    BY <2>1, Zenon
<1> SUFFICES ASSUME failures = 0, restarts = 0
             PROVE  Begins(Replay(disk'), written)
  BY <1>1, Zenon DEF History
<1>3. Held(disk, segmentID, buf, written) /\ Durable(disk, segmentID, synced)
  BY <1>1, Zenon DEF History
<1>4. ASSUME NEW s \in Segments, s # segmentID PROVE kept[s] = Len(disk[s])
  <2>1. PICK l \in Nat, y \in Nat, k \in Nat :
          l = Len(disk[s]) /\ y = synced[s] /\ k = kept[s] /\ y <= k /\ k <= l
    BY HistoryTypes, Zenon
  <2>2. CASE s < segmentID
    BY <1>3, <2>1, <2>2 DEF Durable
  <2>3. CASE s > segmentID
    <3>1. l = 0
      BY <1>3, <2>1, <2>3 DEF Held
    <3> QED
      BY <2>1, <3>1
  <2>4. s < segmentID \/ s > segmentID
    BY <1>4, HistoryTypes DEF Segments
  <2> QED
    BY <2>2, <2>3, <2>4, Zenon
<1>5. disk' \in [Segments -> Seq(AnyCell)]
  BY Zenon DEF WInv, IInv, Shape
<1>6. PICK e \in [Segments -> Seq(AnyCell)] : e = disk'
  BY <1>5, Zenon
<1>7. PICK d \in [Segments -> Seq(AnyCell)], id \in Segments, b \in Seq(Cells), w \in Seq(Messages) :
        d = disk /\ id = segmentID /\ b = buf /\ w = written
  BY HistoryTypes, Zenon
<1>8. Held(d, id, b, w) /\ Leaves(d, e, id, kept)
  BY <1>2, <1>3, <1>4, <1>6, <1>7, Zenon DEF Leaves
<1>9. Begins(Replay(e), w)
  BY <1>8, CrashHeld, Zenon
<1> QED
  BY <1>6, <1>7, <1>9, Zenon

\* The next process.
LEMMA RestartHistory ==
  ASSUME WInv, History, Restart
  PROVE  History'
<1>1. /\ phase # "up" /\ restarts' = restarts + 1 /\ usable' = TRUE
      /\ recovered' = Replay(disk) /\ UNCHANGED <<failures, written>>
  BY Zenon DEF Restart, OpenWAL, historyVars
<1>2. restarts \in Nat
  BY HistoryTypes, Zenon
<1> SUFFICES ASSUME failures = 0, restarts = 0
             PROVE  Begins(Replay(disk), written)
  BY <1>1, <1>2 DEF History
<1>3. CASE phase = "down"
  BY <1>3, Zenon DEF History
<1>4. CASE phase # "down"
  <2>1. Held(disk, segmentID, buf, written)
    BY <1>4, Zenon DEF History
  <2>2. buf \in Seq(AnyCell)
    BY HistoryTypes, BufferIntact, Zenon
  <2>3. PICK p \in Seq(Messages), q \in Seq(Messages) : p = Replay(disk) /\ q = ReplayFile(buf)
    BY <2>2, HistoryTypes, ReplayType, FileType, Zenon
  <2>4. Begins(p, p \o q)
    BY BeginsLonger, Zenon
  <2> QED
    BY <2>1, <2>3, <2>4, Zenon DEF Held
<1> QED
  BY <1>3, <1>4, Zenon

\* Every step keeps the order.
LEMMA StepHistory == WInv /\ WInv' /\ History /\ [Next]_vars => History'
<1> SUFFICES ASSUME WInv, WInv', History, [Next]_vars PROVE History'
  BY Zenon
<1>1. ASSUME NEW m \in Messages, WritePublish(m) \/ WriteAck(m)
      PROVE  History'
  BY <1>1, WriteHistory, Zenon DEF WritePublish, WriteAck
<1>2. CASE FinishRecord
  BY <1>2, FinishHistory, Zenon
<1>3. CASE Sync \/ Close
  BY <1>3, SyncCloseHistory, Zenon
<1>4. CASE PowerLoss
  <2>1. /\ synced \in [Segments -> Nat]
        /\ \A s \in Segments : synced[s] <= synced[s] /\ synced[s] <= Len(disk[s])
    BY HistoryTypes
  <2>2. PICK kept : kept = synced
    BY Zenon
  <2>3. Crash(kept) /\ kept \in [Segments -> Nat]
        /\ \A s \in Segments : synced[s] <= kept[s] /\ kept[s] <= Len(disk[s])
    BY <1>4, <2>1, <2>2, Zenon DEF PowerLoss
  <2> QED
    BY <2>3, CrashHistory, Zenon
<1>5. CASE ProcessCrash
  <2>1. PICK kept : kept = ProcessKeeps
    BY Zenon
  <2>2. Crash(kept) /\ kept \in [Segments -> Nat]
        /\ \A s \in Segments : synced[s] <= kept[s] /\ kept[s] <= Len(disk[s])
    BY <1>5, <2>1, ProcessKeepsPart, Zenon DEF ProcessCrash
  <2> QED
    BY <2>2, CrashHistory
<1>6. CASE Restart
  BY <1>6, RestartHistory
<1>7. CASE UNCHANGED vars
  <2>1. UNCHANGED <<disk, synced, buf, segmentID, usable, failures, written, phase, restarts, recovered>>
    BY <1>7, Zenon DEF vars, logVars, historyVars
  <2> QED
    BY <2>1, Zenon DEF History, Held, Durable
<1> QED
  BY <1>1, <1>2, <1>3, <1>4, <1>5, <1>6, <1>7, Zenon DEF Next

\* The order gives the property.
LEMMA HistoryGivesPrefix == WInv /\ History => FirstRecoveryIsPrefix
<1> SUFFICES ASSUME WInv, History, restarts <= 1, failures = 0
             PROVE  Begins(recovered, written)
  BY Zenon DEF FirstRecoveryIsPrefix, Begins
<1>1. CASE restarts = 1
  BY <1>1, Zenon DEF History
<1>2. CASE restarts = 0
  <2>0. written \in Seq(Messages) /\ <<>> \in Seq(Messages)
    BY HistoryTypes
  <2>1. PICK e \in Seq(Messages), w \in Seq(Messages) : e = <<>> /\ w = written
    BY <2>0, Zenon
  <2>2. Begins(e, e \o w)
    BY BeginsLonger, Zenon
  <2>3. e \o w = w
    BY <2>1, AddNothing, Zenon
  <2> QED
    BY <1>2, <2>1, <2>2, <2>3, Zenon DEF History
<1> QED
  BY <1>1, <1>2, HistoryTypes

\* After the first crash or shutdown Replay hands the broker a beginning of what
\* was written, in the order of the writeRecord calls and over all segments,
\* under every policy, as long as rotateSegment could open every segment: its
\* sync of the segment it leaves is what rules out a hole.
THEOREM FirstRecoveryKeepsOrder == Spec => []FirstRecoveryIsPrefix
<1>1. Init => WInv /\ History
  BY InitWInv, InitHistory, Zenon
<1>2. WInv /\ History /\ [Next]_vars => (WInv /\ History)'
  BY StepWInv, StepHistory, Zenon
<1>3. WInv /\ History => FirstRecoveryIsPrefix
  BY HistoryGivesPrefix, Zenon
<1> QED
  BY <1>1, <1>2, <1>3, PTL DEF Spec

=============================================================================
