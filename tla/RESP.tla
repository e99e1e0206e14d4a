-------------------------------- MODULE RESP --------------------------------
(***************************************************************************)
(* The wire protocol (internal/protocol/resp.go) as functions of the bytes *)
(* up to the end of the stream.  A byte is a string of one character.  A   *)
(* reader returns a record with ok (no error), what it has read, and the   *)
(* rest of the stream.                                                     *)
(***************************************************************************)
EXTENDS Integers, FiniteSets, SequencesExt

CONSTANTS
  IntHalf,      \* 2^63 for Go's int on 64 bits: ints are -IntHalf .. IntHalf-1
  MaxBulk,      \* maxBulkLength
  MaxArgs,      \* maxCommandArgs
  Payloads      \* the byte strings that the properties are about

ASSUME LimitsAssumption ==
  /\ IntHalf \in Nat /\ MaxBulk \in Nat /\ MaxArgs \in Nat
  /\ MaxBulk < IntHalf /\ MaxArgs < IntHalf

CR == "\r"
LF == "\n"
CRLF == <<CR, LF>>
Space == {" ", "\t", CR, LF}

Digits == <<"0", "1", "2", "3", "4", "5", "6", "7", "8", "9">>
Lower == <<"a", "b", "l", "p", "u", "x">>
Upper == <<"A", "B", "L", "P", "U", "X">>

\* nil, which Go tells from the empty slice.
Nil == <<"nil">>

Rest(s, n) == SubSeq(s, n + 1, Len(s))
Index(seq, b) == CHOOSE i \in DOMAIN seq : seq[i] = b

\* An int of the machine: arithmetic wraps.
Wrap(n) == ((n + IntHalf) % (2 * IntHalf)) - IntHalf

\* bytes.ToUpper; a nil name is the empty string.
ToUpper(b) ==
  IF b = Nil THEN <<>>
  ELSE [i \in DOMAIN b |-> IF b[i] \in ToSet(Lower) THEN Upper[Index(Lower, b[i])] ELSE b[i]]

-----------------------------------------------------------------------------
(* Integers.                                                               *)

Invalid == [ok |-> FALSE, n |-> 0]

parseUintBytes(b) ==
  IF b # <<>> /\ ToSet(b) \subseteq ToSet(Digits)
  THEN [ok |-> TRUE, n |-> FoldLeft(LAMBDA n, c : Wrap(n * 10 + Index(Digits, c) - 1), 0, b)]
  ELSE Invalid

parseIntBytes(b) ==
  IF b # <<>> /\ b[1] = "-"
  THEN LET u == parseUintBytes(Tail(b)) IN [u EXCEPT !.n = Wrap(-u.n)]
  ELSE parseUintBytes(b)

\* strconv.Itoa and FormatInt.
RECURSIVE Decimal(_)
Decimal(n) ==
  IF n < 0 THEN <<"-">> \o Decimal(-n)
  ELSE IF n < 10 THEN <<Digits[n + 1]>>
  ELSE Append(Decimal(n \div 10), Digits[(n % 10) + 1])

-----------------------------------------------------------------------------
(* Reader.                                                                 *)

(***************************************************************************)
(* bufio's ReadLine, however many chunks readLine needs for a long line.   *)
(* What is left at the end of the stream is a line as well, and only a     *)
(* line feed takes a carriage return with it.                              *)
(***************************************************************************)
readLine(s) ==
  LET ends == {i \in DOMAIN s : s[i] = LF}
      e == CHOOSE i \in ends : \A j \in ends : i <= j
  IN  IF s = <<>> THEN [ok |-> FALSE, line |-> <<>>, rest |-> <<>>]
      ELSE IF ends = {} THEN [ok |-> TRUE, line |-> s, rest |-> <<>>]
      ELSE [ok   |-> TRUE,
            line |-> SubSeq(s, 1, IF e > 1 /\ s[e - 1] = CR THEN e - 2 ELSE e - 1),
            rest |-> Rest(s, e)]

\* bytes.Fields.
RECURSIVE Fields(_)
Fields(s) ==
  LET stops == {i \in DOMAIN s : s[i] \in Space}
      e == CHOOSE i \in stops : \A j \in stops : i <= j
  IN  IF s = <<>> THEN <<>>
      ELSE IF stops = {} THEN <<s>>
      ELSE IF e = 1 THEN Fields(Tail(s))
      ELSE <<SubSeq(s, 1, e - 1)>> \o Fields(Rest(s, e))

NoBulk == [ok |-> FALSE, arg |-> Nil, rest |-> <<>>]

\* The argument whose length the line l gives as len: the two bytes behind it are
\* skipped, whatever they are.
Bulk(l, len) ==
  IF ~l.ok \/ l.line = <<>> THEN NoBulk
  ELSE IF l.line[1] # "$" \/ ~len.ok \/ len.n > MaxBulk THEN NoBulk
  ELSE IF len.n < 0 THEN [ok |-> TRUE, arg |-> Nil, rest |-> l.rest]
  ELSE IF Len(l.rest) < len.n + 2 THEN NoBulk
  ELSE [ok |-> TRUE, arg |-> SubSeq(l.rest, 1, len.n), rest |-> Rest(l.rest, len.n + 2)]

\* Slip: the end of the stream is taken for the end of the argument.
ReadBulkShort(s) ==
  LET l == readLine(s)
  IN  Bulk([l EXCEPT !.rest = @ \o CRLF], parseIntBytes(Tail(l.line)))

ReadBulk(s) ==
  LET l == readLine(s)
  IN  Bulk(l, parseIntBytes(Tail(l.line)))

RECURSIVE ReadArgs(_, _)
ReadArgs(s, count) ==
  LET a == ReadBulk(s)
  IN  IF count = 0 THEN [ok |-> TRUE, args |-> <<>>, rest |-> s]
      ELSE IF ~a.ok THEN [ok |-> FALSE, args |-> <<>>, rest |-> <<>>]
      ELSE [ReadArgs(a.rest, count - 1) EXCEPT !.args = <<a.arg>> \o @]

Command(args) == [name |-> ToUpper(args[1]), args |-> Tail(args)]
NoCommand == [ok |-> FALSE, cmd |-> [name |-> <<>>, args |-> <<>>], rest |-> <<>>]

\* A line of words; its arguments are not copied, which is not modelled.
Inline(parts, rest) ==
  IF parts = <<>> THEN NoCommand
  ELSE [ok |-> TRUE, cmd |-> Command(parts), rest |-> rest]

Array(count, array) ==
  IF ~count.ok \/ count.n <= 0 \/ count.n > MaxArgs THEN NoCommand
  ELSE IF ~array.ok THEN NoCommand
  ELSE [ok |-> TRUE, cmd |-> Command(array.args), rest |-> array.rest]

ReadCommand(s) ==
  LET l == readLine(s)
      count == parseUintBytes(Tail(l.line))
  IN  IF ~l.ok \/ l.line = <<>> THEN NoCommand
      ELSE IF l.line[1] # "*" THEN Inline(Fields(l.line), l.rest)
      ELSE Array(count, ReadArgs(l.rest, count.n))

\* handleConnection reads commands until an error ends it.
RECURSIVE ReadCommands(_)
ReadCommands(s) ==
  LET r == ReadCommand(s)
  IN  IF r.ok THEN <<r.cmd>> \o ReadCommands(r.rest) ELSE <<>>

-----------------------------------------------------------------------------
(* Writer: what commands, and replies with payloads, are written with.     *)

NullBulk == <<"$", "-", "1">> \o CRLF

WriteBulkString(b) ==
  IF b = Nil THEN NullBulk
  ELSE <<"$">> \o Decimal(Len(b)) \o CRLF \o b \o CRLF

\* A nil slice is written as the empty one is.
WriteArray(elements) ==
  <<"*">> \o Decimal(Len(elements)) \o CRLF
    \o FlattenSeq([i \in DOMAIN elements |-> WriteBulkString(elements[i])])

-----------------------------------------------------------------------------
(* Streams of commands that end at any byte.                               *)

Args == Payloads \cup {Nil}
Single == [1..1 -> Args]
Short == Single \cup [1..2 -> Args]

\* Sequences of one, two and three commands.
Streams == << {<<a>> : a \in Short},
              {<<a, b>> : a \in Short, b \in Single},
              {<<a, b, c>> : a, b, c \in Single} >>

\* The bytes of the commands in s.
Bytes(s) == FlattenSeq([i \in DOMAIN s |-> WriteArray(s[i])])

(***************************************************************************)
(* Reading the first n bytes of s runs all commands that are whole, and    *)
(* nothing but the first of those sent: a value cut short, or a length     *)
(* that has lost some of its digits, makes no command.  A last nil may     *)
(* miss its line end.                                                      *)
(***************************************************************************)
ReadsPrefix(s, n) ==
  LET got == ReadCommands(SubSeq(Bytes(s), 1, n))
  IN  /\ IsPrefix(got, [i \in DOMAIN s |-> Command(s[i])])
      /\ \A k \in DOMAIN s : Len(Bytes(SubSeq(s, 1, k))) <= n => Len(got) >= k

\* The streams of k commands that are misread when they end somewhere.
Misread == [k \in DOMAIN Streams |->
              {s \in Streams[k] : \E n \in 0..Len(Bytes(s)) : ~ReadsPrefix(s, n)}]
=============================================================================
