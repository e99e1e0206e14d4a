---------------------------- MODULE ServerProofs ----------------------------
(***************************************************************************)
(* For any number of connections, settings and commands: once Stop has     *)
(* returned, only a late connection is served, and a popped message is in  *)
(* the buffer of one live handler until it is written.                     *)
(***************************************************************************)
EXTENDS Server, FiniteSetTheorems, TLAPS

\* The time of a leaf that names no prover.
USE SMTT(30)

(***************************************************************************)
(* The inductive invariant.  Besides the property it says that a handler   *)
(* has been registered before it starts, and that it starts with an empty  *)
(* read buffer: so one that starts after Stop is either closed with        *)
(* nothing to execute or late.                                             *)
(***************************************************************************)
Waiting == Untimed \cup Timed

HandlerStates == {"none", "accepted", "registered", "reading", "leaving", "done"} \cup Waiting

Shape ==
  /\ handler \in [Conns -> HandlerStates]
  /\ rbuf \in [Conns -> Nat]
  /\ sock \in [Conns -> Nat]
  /\ conns \subseteq Conns

StartsEmpty ==
  \A c \in Conns :
    /\ handler[c] \in {"none", "accepted", "registered"} => rbuf[c] = 0
    /\ c \in live \/ handler[c] = "registered" => c \in conns

IInv == Shape /\ StartsEmpty /\ StoppedServesNobody

USE DEF Waiting, HandlerStates, Untimed, Timed

\* Nobody is connected at first.
LEMMA InitIInv == Init => IInv
BY DEF Init, IInv, Shape, StartsEmpty, StoppedServesNobody, live

\* Steps of clients, of the accept loop and of main.
LEMMA OthersIInv ==
  ASSUME IInv,
         \/ \E c \in Conns : Dial(c) \/ Send(c) \/ Disconnect(c) \/ Accept(c)
                             \/ Register(c) \/ StartHandler(c)
         \/ Stop \/ StopReturns \/ CloseBroker \/ Exit
  PROVE  IInv'
<1> USE DEF IInv, Shape, StartsEmpty, StoppedServesNobody, Late, live, closed, running, streams
<1>1. ASSUME NEW c \in Conns, Dial(c) PROVE IInv'
  BY <1>1, Zenon DEF Dial
<1>2. ASSUME NEW c \in Conns, Send(c) PROVE IInv'
  BY <1>2 DEF Send
<1>3. ASSUME NEW c \in Conns, Disconnect(c) PROVE IInv'
  BY <1>3, Zenon DEF Disconnect
<1>4. ASSUME NEW c \in Conns, Accept(c) PROVE IInv'
  BY <1>4, Zenon DEF Accept
<1>5. ASSUME NEW c \in Conns, Register(c) PROVE IInv'
  BY <1>5 DEF Register
<1>6. ASSUME NEW c \in Conns, StartHandler(c) PROVE IInv'
  BY <1>6, Zenon DEF StartHandler
<1>7. CASE Stop
  BY <1>7, Zenon DEF Stop
<1>8. CASE StopReturns
  BY <1>8, Zenon DEF StopReturns
<1>9. CASE CloseBroker
  BY <1>9, Zenon DEF CloseBroker
<1>10. CASE Exit
  BY <1>10, Zenon DEF Exit
<1> QED
  BY <1>1, <1>2, <1>3, <1>4, <1>5, <1>6, <1>7, <1>8, <1>9, <1>10, Zenon

\* Steps of a handler: after Stop has returned only that of a late connection
\* fills its buffer, takes a command from it, or waits in one.
LEMMA HandlerIInv ==
  ASSUME IInv, NEW c \in Conns, Handle(c)
  PROVE  IInv'
<1> USE DEF IInv, Shape, StartsEmpty, StoppedServesNobody, Late, live, closed, streams
<1>1. CASE Fill(c)
  BY <1>1 DEF Fill
<1>2. CASE ReadError(c)
  BY <1>2, Zenon DEF ReadError, Takes
<1>3. CASE NoAuth(c)
  BY <1>3 DEF NoAuth, Answer, Takes, Respond
<1>4. CASE Query(c)
  BY <1>4 DEF Query, Answer, Takes, Respond
<1>5. CASE UsageError(c)
  BY <1>5 DEF UsageError, Answer, Takes, Respond
<1>6. CASE Auth(c)
  BY <1>6 DEF Auth, Answer, Takes, Respond
<1>7. CASE Push(c)
  BY <1>7 DEF Push, Takes, Respond
<1>8. ASSUME NEW cmd \in Untimed \cup Timed, Pop(c, cmd)
      PROVE  IInv'
  <2>1. /\ handler[c] = "reading" /\ rbuf[c] > 0
        /\ rbuf' = [rbuf EXCEPT ![c] = rbuf[c] - 1]
        /\ handler' = handler \/ handler' = [handler EXCEPT ![c] = cmd]
        /\ UNCHANGED <<sock, conns, shut, main>>
    BY <1>8, Zenon DEF Pop, Serve, Takes, Respond
  <2> QED
    BY <2>1, <1>8
<1>9. CASE PopReturns(c)
  <2>1. /\ handler[c] \in Waiting
        /\ rbuf' = [rbuf EXCEPT ![c] = rbuf[c]]
        /\ handler' = [handler EXCEPT ![c] = "reading"]
        /\ UNCHANGED <<sock, conns, shut, main>>
    BY <1>9, Zenon DEF PopReturns, Serve, Respond
  <2> QED
    BY <2>1, Zenon
<1>10. CASE Settle(c)
  <2>1. /\ handler[c] = "reading" /\ rbuf[c] > 0
        /\ rbuf' = [rbuf EXCEPT ![c] = rbuf[c] - 1]
        /\ UNCHANGED <<handler, sock, conns, shut, main>>
    BY <1>10, Zenon DEF Settle, Takes, Respond
  <2> QED
    BY <2>1
<1>11. CASE Quit(c)
  BY <1>11 DEF Quit, Takes
<1>12. CASE Leave(c)
  BY <1>12, Zenon DEF Leave
<1> QED
  BY <1>1, <1>2, <1>3, <1>4, <1>5, <1>6, <1>7, <1>8, <1>9, <1>10, <1>11, <1>12, Zenon DEF Handle

\* Steps that change nothing.
LEMMA StutterIInv == IInv /\ UNCHANGED vars => IInv'
BY DEF IInv, Shape, StartsEmpty, StoppedServesNobody, Late, live, closed, vars, streams

(***************************************************************************)
(* Once Stop has returned no command runs any more, except on a connection *)
(* that was accepted before Stop and registered after it.                  *)
(***************************************************************************)
THEOREM NobodyIsServedAfterStop == Spec => []StoppedServesNobody
<1>1. IInv /\ [Next]_vars => IInv'
  BY OthersIInv, HandlerIInv, StutterIInv, Zenon DEF Next
<1>2. IInv => StoppedServesNobody
  BY Zenon DEF IInv
<1> QED
  BY InitIInv, <1>1, <1>2, PTL DEF Spec

-----------------------------------------------------------------------------
(***************************************************************************)
(* The second inductive invariant, SInv: IInv, the types, and where the    *)
(* popped messages are.                                                    *)
(***************************************************************************)

\* A handler that waits in a command has taken it and not replied yet.
Weight(h) == IF h \in Waiting THEN 1 ELSE 0

\* A connection's commands on their way, in its buffers or under way are
\* among those that were sent: it bounds every buffer.
Accounted ==
  \A c \in Conns : sock[c] + rbuf[c] + Weight(handler[c]) + Len(wbuf[c]) <= commands

\* Only a handler that is there to flush them has replies in its buffer.
Owned == \A c \in Conns : wbuf[c] # <<>> => c \in live

\* The messages that the buffers w hold are those whose place is "reply", and
\* no message is held twice.
InHand(w, pl) ==
  /\ \A c \in Conns : \A i \in DOMAIN w[c] : w[c][i] \in Messages => pl[w[c][i]] = "reply"
  /\ \A m \in Messages : pl[m] = "reply" => \E c \in Conns : \E i \in DOMAIN w[c] : w[c][i] = m
  /\ \A c, d \in Conns : \A i \in DOMAIN w[c] : \A j \in DOMAIN w[d] :
        w[c][i] \in Messages /\ w[c][i] = w[d][j] => c = d /\ i = j

\* The replies that carry no message; what the buffers and the places range over.
ReplyOrNil == {"ok", "usage", "noauth"}

Buffers == [Conns -> Seq(Replies)]

Placings == [Messages -> Places]

\* Nothing has come into a handler's hands, and nothing has left them.
SameReplies(q, pl) == \A m \in Messages : q[m] = "reply" <=> pl[m] = "reply"

\* A reply without a message, written after a command that popped none.
LEMMA AppendPlain ==
  ASSUME NEW w \in Buffers, NEW pl \in Placings, NEW q \in Placings, InHand(w, pl),
         NEW c \in Conns, NEW r \in ReplyOrNil,
         SameReplies(q, pl),
         NEW w2, w2 = [w EXCEPT ![c] = Append(w[c], r)]
  PROVE  w2 \in Buffers /\ InHand(w2, q)
<1>1. r \notin Messages /\ r \in Replies
  BY MessagesAssumption, Zenon DEF ReplyOrNil, Replies
<1>2. w[c] \in Seq(Replies)
  BY Zenon DEF Buffers
<1>3. w2 \in Buffers
  BY <1>1, <1>2 DEF Buffers
<1>4. /\ \A d \in Conns \ {c} : w2[d] = w[d]
      /\ \A d \in Conns : \A i \in DOMAIN w[d] : i \in DOMAIN w2[d] /\ w2[d][i] = w[d][i]
      /\ \A d \in Conns : \A i \in DOMAIN w2[d] : w2[d][i] \in Messages => i \in DOMAIN w[d]
  BY <1>1, <1>2 DEF Buffers
<1>5. \A d \in Conns : \A i \in DOMAIN w2[d] : w2[d][i] \in Messages => i \in DOMAIN w[d] /\ w[d][i] = w2[d][i]
  BY <1>4, Zenon
<1>6. \A d \in Conns : \A i \in DOMAIN w2[d] : w2[d][i] \in Messages => q[w2[d][i]] = "reply"
  BY <1>5 DEF InHand, SameReplies
<1>7. \A m \in Messages : q[m] = "reply" => \E d \in Conns : \E i \in DOMAIN w2[d] : w2[d][i] = m
  BY <1>4 DEF InHand, SameReplies
<1>8. \A d, e \in Conns : \A i \in DOMAIN w2[d] : \A j \in DOMAIN w2[e] :
        w2[d][i] \in Messages /\ w2[d][i] = w2[e][j] => d = e /\ i = j
  BY <1>5 DEF InHand
<1> QED
  BY <1>3, <1>6, <1>7, <1>8, Zenon DEF InHand

\* A reply with the message that a pop has just taken off the queue.
LEMMA AppendPopped ==
  ASSUME NEW w \in Buffers, NEW pl \in Placings, InHand(w, pl),
         NEW c \in Conns, NEW m \in Messages, pl[m] = "queue",
         NEW q, q = [pl EXCEPT ![m] = "reply"],
         NEW w2, w2 = [w EXCEPT ![c] = Append(w[c], m)]
  PROVE  q \in Placings /\ w2 \in Buffers /\ InHand(w2, q)
<1>1. m \in Replies
  BY Zenon DEF Replies
<1>2. w[c] \in Seq(Replies)
  BY Zenon DEF Buffers
<1>3. w2 \in Buffers /\ q \in Placings
  BY <1>1, <1>2 DEF Buffers, Placings, Places
<1>a. q[m] = "reply" /\ \A x \in Messages \ {m} : q[x] = pl[x]
  BY Zenon DEF Placings
<1>b. PICK k \in Nat : k = Len(w[c]) + 1
  BY <1>2
<1>4. /\ w2[c] \in Seq(Replies) /\ w2[c] = Append(w[c], m)
      /\ \A d \in Conns \ {c} : w2[d] = w[d]
      /\ k \in DOMAIN w2[c] /\ w2[c][k] = m
      /\ \A d \in Conns : \A i \in DOMAIN w[d] : i \in DOMAIN w2[d] /\ w2[d][i] = w[d][i]
      /\ \A d \in Conns : \A i \in DOMAIN w2[d] : (d = c /\ i = k) \/ i \in DOMAIN w[d]
  BY <1>1, <1>2, <1>b DEF Buffers
<1>5. \A d \in Conns : \A i \in DOMAIN w[d] : w[d][i] # m
  BY DEF InHand
<1>6. \A d \in Conns : \A i \in DOMAIN w2[d] : w2[d][i] \in Messages => q[w2[d][i]] = "reply"
  BY <1>a, <1>4 DEF InHand
<1>7. \A x \in Messages : q[x] = "reply" => \E d \in Conns : \E i \in DOMAIN w2[d] : w2[d][i] = x
  BY <1>a, <1>4 DEF InHand
<1>8. \A d, e \in Conns : \A i \in DOMAIN w2[d] : \A j \in DOMAIN w2[e] :
        w2[d][i] \in Messages /\ w2[d][i] = w2[e][j] => d = e /\ i = j
  BY <1>4, <1>5 DEF InHand
<1> QED
  BY <1>3, <1>6, <1>7, <1>8, Zenon DEF InHand

\* Writing a connection's buffer out delivers, or loses, exactly what it holds.
LEMMA FlushInHand ==
  ASSUME NEW w \in Buffers, NEW pl \in Placings, InHand(w, pl), NEW c \in Conns,
         NEW w2, w2 = [w EXCEPT ![c] = <<>>]
  PROVE  /\ w2 \in Buffers /\ Sent(c, w[c], pl) \in Placings
         /\ InHand(w2, Sent(c, w[c], pl))
<1>1. PICK q : q = Sent(c, w[c], pl)
  BY Zenon
<1>2. \A m \in Messages : m \in Range(w[c]) <=> \E i \in DOMAIN w[c] : w[c][i] = m
  BY Zenon DEF Range
<1>3. /\ q \in Placings
      /\ \A m \in Messages : q[m] = "reply" <=> pl[m] = "reply" /\ ~ \E i \in DOMAIN w[c] : w[c][i] = m
  BY <1>1, <1>2, Zenon DEF Sent, Placings, Places
<1>4. /\ w2 \in Buffers /\ \A d \in Conns \ {c} : w2[d] = w[d]
      /\ DOMAIN w2[c] = {}
  BY DEF Buffers
<1>5. \A d \in Conns : \A i \in DOMAIN w2[d] : w2[d][i] \in Messages => q[w2[d][i]] = "reply"
  BY <1>3, <1>4 DEF InHand
<1>6. \A m \in Messages : q[m] = "reply" => \E d \in Conns : \E i \in DOMAIN w2[d] : w2[d][i] = m
  BY <1>3, <1>4 DEF InHand
<1>7. \A d, e \in Conns : \A i \in DOMAIN w2[d] : \A j \in DOMAIN w2[e] :
        w2[d][i] \in Messages /\ w2[d][i] = w2[e][j] => d = e /\ i = j
  BY <1>4 DEF InHand
<1> QED
  BY <1>1, <1>3, <1>4, <1>5, <1>6, <1>7 DEF InHand

\* What the reply carries agrees with what the command has done.
Consistent(reply, pl) ==
  \/ /\ reply \in ReplyOrNil
     /\ pl \in Placings
     /\ SameReplies(pl, place)
  \/ /\ reply \in Messages
     /\ place[reply] = "queue"
     /\ pl = [place EXCEPT ![reply] = "reply"]

\* Replying, with or without a flush, keeps every popped message in one hand.
LEMMA RespondInHand ==
  ASSUME wbuf \in Buffers, place \in Placings, InHand(wbuf, place),
         NEW c \in Conns, NEW reply, NEW rest, NEW pl,
         Consistent(reply, pl), Respond(c, reply, rest, pl)
  PROVE  /\ rbuf' = [rbuf EXCEPT ![c] = rest]
         /\ wbuf' \in Buffers /\ place' \in Placings /\ InHand(wbuf', place')
         /\ \A d \in Conns \ {c} : wbuf'[d] = wbuf[d]
         /\ Len(wbuf'[c]) <= Len(wbuf[c]) + 1
<1>1. PICK w2 : w2 = [wbuf EXCEPT ![c] = Append(wbuf[c], reply)]
  BY Zenon
<1>2. pl \in Placings /\ w2 \in Buffers /\ InHand(w2, pl)
  <2>1. CASE reply \in ReplyOrNil /\ pl \in Placings /\ SameReplies(pl, place)
    BY <1>1, <2>1, AppendPlain, Zenon
  <2>2. CASE reply \in Messages /\ place[reply] = "queue" /\ pl = [place EXCEPT ![reply] = "reply"]
    BY <1>1, <2>2, AppendPopped, Zenon
  <2> QED
    BY <2>1, <2>2, Zenon DEF Consistent
<1>3. PICK w3 : w3 = [w2 EXCEPT ![c] = <<>>]
  BY Zenon
<1>4. w3 \in Buffers /\ Sent(c, w2[c], pl) \in Placings /\ InHand(w3, Sent(c, w2[c], pl))
  BY <1>2, <1>3, FlushInHand, Zenon
<1>5. w2[c] = Append(wbuf[c], reply) /\ w3 = [wbuf EXCEPT ![c] = <<>>]
  BY <1>1, <1>3, Zenon DEF Buffers
<1>6. /\ rbuf' = [rbuf EXCEPT ![c] = rest]
      /\ \/ wbuf' = w2 /\ place' = pl
         \/ wbuf' = w3 /\ place' = Sent(c, w2[c], pl)
  BY <1>1, <1>5, Zenon DEF Respond
<1>7. \A d \in Conns \ {c} : wbuf'[d] = wbuf[d]
  BY <1>1, <1>5, <1>6 DEF Buffers
<1>8. Len(wbuf'[c]) <= Len(wbuf[c]) + 1
  <2>1. wbuf[c] \in Seq(Replies) /\ Append(wbuf[c], reply) \in Seq(Replies)
    BY <1>2, <1>5, Zenon DEF Buffers
  <2>2. Len(Append(wbuf[c], reply)) = Len(wbuf[c]) + 1 /\ Len(<<>>) = 0
    <3>1. reply \in Replies
      BY Zenon DEF Consistent, Replies, ReplyOrNil
    <3> QED
      BY <2>1, <3>1
  <2>3. wbuf'[c] \in {Append(wbuf[c], reply), <<>>}
    BY <1>5, <1>6, Zenon DEF Buffers
  <2>4. Len(wbuf[c]) \in Nat
    BY <2>1
  <2> QED
    BY <2>2, <2>3, <2>4
<1> QED
  BY <1>2, <1>4, <1>6, <1>7, <1>8, Zenon

\* The type invariant but for what IInv says already.
Types ==
  /\ password \in BOOLEAN /\ maxClients \in Nat /\ settings \in Settings
  /\ client \in [Conns -> {"new", "open", "closed"}]
  /\ shut \subseteq Conns /\ authed \subseteq Conns
  /\ part \in [Conns -> BOOLEAN]
  /\ topic \in {"absent", "open", "closed"}
  /\ main \in {"serving", "waiting", "stopped", "closed", "exited"}
  /\ commands \in 0..MaxCommands
  /\ IsFiniteSet(conns)
  /\ maxClients > 0 => Cardinality(conns) <= maxClients

\* Every popped message is in the hands of one handler.
Hands ==
  /\ wbuf \in Buffers /\ place \in Placings
  /\ InHand(wbuf, place) /\ Owned /\ Accounted

SInv == IInv /\ Types /\ Hands

\* The handler of c goes from one command to another, or waits in one; it has
\* replied to no more commands than it has taken.
Progress(c) ==
  /\ handler[c] \in {"reading"} \cup Waiting
  /\ handler' = handler \/ \E h \in {"reading", "leaving"} \cup Waiting : handler' = [handler EXCEPT ![c] = h]
  /\ wbuf' \in Buffers /\ place' \in Placings /\ InHand(wbuf', place')
  /\ \A d \in Conns \ {c} : wbuf'[d] = wbuf[d]
  /\ rbuf' \in [Conns -> Nat] /\ \A d \in Conns \ {c} : rbuf'[d] = rbuf[d]
  /\ rbuf'[c] + Weight(handler'[c]) + Len(wbuf'[c]) <= rbuf[c] + Weight(handler[c]) + Len(wbuf[c])
  /\ UNCHANGED <<sock, commands>>

\* Such a step keeps the account of commands and the owner of every buffer.
LEMMA ProgressHands ==
  ASSUME IInv, Hands, commands \in Nat, NEW c \in Conns, Progress(c)
  PROVE  Hands'
<1>1. /\ handler \in [Conns -> HandlerStates] /\ rbuf \in [Conns -> Nat] /\ sock \in [Conns -> Nat]
  BY Zenon DEF IInv, Shape
<1>2. \A d \in Conns : Len(wbuf[d]) \in Nat /\ Len(wbuf'[d]) \in Nat
  <2>1. \A d \in Conns : wbuf[d] \in Seq(Replies) /\ wbuf'[d] \in Seq(Replies)
    BY Zenon DEF Hands, Buffers, Progress
  <2> QED
    BY <2>1
<1>3. \A d \in Conns \ {c} : handler'[d] = handler[d]
  BY <1>1, Zenon DEF Progress
<1>4. c \in live /\ c \in live'
  <2>1. handler[c] \in {"reading"} \cup Waiting
    BY Zenon DEF Progress
  <2>2. handler'[c] \in {"reading", "leaving"} \cup Waiting
    BY <1>1, <2>1, Zenon DEF Progress
  <2>3. c \in live
    BY <2>1, Zenon DEF live, Waiting
  <2>4. c \in live'
    BY <2>2, Zenon DEF live, Waiting
  <2> QED
    BY <2>3, <2>4, Zenon
<1>5. Owned'
  <2> SUFFICES ASSUME NEW d \in Conns, wbuf'[d] # <<>>
               PROVE  d \in live'
    BY Zenon DEF Owned
  <2>1. CASE d # c
    <3>1. d \in live
      BY <2>1, Zenon DEF Hands, Owned, Progress
    <3> QED
      BY <1>3, <2>1, <3>1, Zenon DEF live
  <2> QED
    BY <1>4, <2>1, Zenon
<1>6. Accounted'
  <2> SUFFICES ASSUME NEW d \in Conns
               PROVE  sock'[d] + rbuf'[d] + Weight(handler'[d]) + Len(wbuf'[d]) <= commands'
    BY Zenon DEF Accounted, Weight
  <2>a. PICK wt, wt2 : wt = Weight(handler[d]) /\ wt2 = Weight(handler'[d])
    BY Zenon
  <2>0. Weight(handler[d]) \in {0, 1} /\ Weight(handler'[d]) \in {0, 1}
    BY Zenon DEF Weight
  <2>1. sock[d] + rbuf[d] + Weight(handler[d]) + Len(wbuf[d]) <= commands
    BY Zenon DEF Hands, Accounted
  <2>2. /\ sock'[d] = sock[d] /\ commands' = commands /\ sock[d] \in Nat
        /\ rbuf[d] \in Nat /\ rbuf'[d] \in Nat
    BY <1>1, Zenon DEF Progress
  <2>3. CASE d = c
    <3>1. rbuf'[d] + Weight(handler'[d]) + Len(wbuf'[d]) <= rbuf[d] + Weight(handler[d]) + Len(wbuf[d])
      BY <2>3 DEF Progress
    <3> QED
      <4>1. PICK r, r2, k, l, l2, n \in Nat :
              /\ r = rbuf[d] /\ r2 = rbuf'[d] /\ k = sock[d] /\ n = commands
              /\ l = Len(wbuf[d]) /\ l2 = Len(wbuf'[d])
        BY <1>2, <2>2, Zenon
      <4>2. wt \in {0, 1} /\ wt2 \in {0, 1} /\ k + r + wt + l <= n /\ r2 + wt2 + l2 <= r + wt + l
        BY <2>0, <2>a, <2>1, <3>1, <4>1
      <4>3. k + r2 + wt2 + l2 <= n
        BY <4>2
      <4> QED
        BY <2>a, <2>2, <4>1, <4>3, Zenon
  <2>4. CASE d # c
    BY <1>3, <2>1, <2>2, <2>4, Zenon DEF Progress
  <2> QED
    BY <2>3, <2>4, Zenon
<1> QED
  BY <1>5, <1>6, Zenon DEF Hands, Progress

\* Nobody is connected at first.
LEMMA InitSInv == Init => SInv
<1> SUFFICES ASSUME Init PROVE SInv
  BY Zenon
<1>1. IInv
  BY InitIInv, Zenon
<1>2. password \in BOOLEAN /\ maxClients \in Nat /\ settings \in Settings
  <2>1. PICK s \in Settings : password = s[1] /\ maxClients = s[2]
    BY Zenon DEF Init
  <2>2. s \in BOOLEAN \X Nat
    BY <2>1, SettingsAssumption, Zenon
  <2> QED
    BY <2>1, <2>2 DEF settings
<1>3. IsFiniteSet(conns) /\ Cardinality(conns) = 0
  BY FS_EmptySet, Zenon DEF Init
<1>4. Types
  BY <1>2, <1>3, MaxCommandsAssumption DEF Init, Types
<1>5. wbuf \in Buffers /\ place \in Placings /\ \A c \in Conns : wbuf[c] = <<>>
  BY DEF Init, Buffers, Placings, Places
<1>6. InHand(wbuf, place) /\ Owned
  BY <1>5 DEF Init, InHand, Owned
<1>7. Accounted
  BY <1>5 DEF Init, Accounted, Weight
<1> QED
  BY <1>1, <1>4, <1>5, <1>6, <1>7, Zenon DEF SInv, Hands

\* Steps of clients, of the accept loop and of main leave the buffers alone.
LEMMA OthersSInv ==
  ASSUME SInv,
         \/ \E c \in Conns : Dial(c) \/ Send(c) \/ Disconnect(c) \/ Accept(c)
                             \/ Register(c) \/ StartHandler(c)
         \/ Stop \/ StopReturns \/ CloseBroker \/ Exit
  PROVE  Types' /\ Hands'
<1>1. /\ handler \in [Conns -> HandlerStates] /\ rbuf \in [Conns -> Nat] /\ sock \in [Conns -> Nat]
      /\ conns \subseteq Conns
  BY Zenon DEF SInv, IInv, Shape
<1>2. ASSUME UNCHANGED <<sock, rbuf, wbuf, place, commands>>,
             handler' \in [Conns -> HandlerStates],
             \A d \in Conns : handler'[d] = handler[d]
                              \/ (d \notin live /\ handler'[d] \notin Waiting)
      PROVE  Hands'
  <2>1. wbuf' \in Buffers /\ place' \in Placings /\ InHand(wbuf', place')
    BY <1>2, Zenon DEF SInv, Hands
  <2>2. \A d \in Conns : d \in live => d \in live'
    BY <1>2, Zenon DEF live
  <2>3. Owned'
    BY <1>2, <2>2, Zenon DEF SInv, Hands, Owned
  <2>4. Accounted'
    <3> SUFFICES ASSUME NEW d \in Conns
                 PROVE  sock'[d] + rbuf'[d] + Weight(handler'[d]) + Len(wbuf'[d]) <= commands'
      BY Zenon DEF Accounted, Weight
    <3>1. sock[d] + rbuf[d] + Weight(handler[d]) + Len(wbuf[d]) <= commands
      BY Zenon DEF SInv, Hands, Accounted
    <3>2. CASE handler'[d] = handler[d]
      BY <1>2, <3>1, <3>2, Zenon
    <3>3. CASE d \notin live /\ handler'[d] \notin Waiting
      <4>1. Weight(handler[d]) = 0 /\ Weight(handler'[d]) = 0
        BY <3>3, Zenon DEF Weight, live
      <4> QED
        BY <1>2, <3>1, <4>1, Zenon
    <3> QED
      BY <1>2, <3>2, <3>3, Zenon
  <2> QED
    BY <2>1, <2>3, <2>4, Zenon DEF Hands
<1>3. ASSUME NEW c \in Conns, Dial(c) \/ Disconnect(c)
      PROVE  Types' /\ Hands'
  <2>1. Types'
    BY <1>3, Zenon DEF Dial, Disconnect, settings, streams, SInv, Types
  <2>2. UNCHANGED <<sock, rbuf, wbuf, place, commands, handler>>
    BY <1>3, Zenon DEF Dial, Disconnect, streams
  <2> QED
    BY <1>1, <1>2, <2>1, <2>2, Zenon
<1>4. ASSUME NEW c \in Conns, Send(c)
      PROVE  Types' /\ Hands'
  <2>1. Types'
    BY <1>4, MaxCommandsAssumption DEF Send, settings, SInv, Types
  <2>2. wbuf' = wbuf /\ place' = place /\ handler' = handler
    BY <1>4, Zenon DEF Send
  <2>3. Owned' /\ InHand(wbuf', place')
    BY <2>2, Zenon DEF Owned, SInv, Hands, live
  <2>4. Accounted'
    <3> SUFFICES ASSUME NEW d \in Conns
                 PROVE  sock'[d] + rbuf'[d] + Weight(handler'[d]) + Len(wbuf'[d]) <= commands'
      BY Zenon DEF Accounted, Weight
    <3>1. sock[d] + rbuf[d] + Weight(handler[d]) + Len(wbuf[d]) <= commands
      BY Zenon DEF SInv, Hands, Accounted
    <3>2. /\ sock'[d] \in {sock[d], sock[d] + 1} /\ commands' = commands + 1 /\ rbuf' = rbuf
          /\ sock[d] \in Nat /\ rbuf[d] \in Nat /\ commands \in Nat
      BY <1>1, <1>4, MaxCommandsAssumption DEF Send, SInv, Types
    <3>3. Weight(handler[d]) \in {0, 1} /\ Len(wbuf[d]) \in Nat
      <4>1. wbuf[d] \in Seq(Replies)
        BY Zenon DEF SInv, Hands, Buffers
      <4> QED
        BY <4>1 DEF Weight
    <3>4. PICK w, l, k, r, n \in Nat :
            /\ w = Weight(handler[d]) /\ l = Len(wbuf[d]) /\ k = sock[d] /\ r = rbuf[d]
            /\ n = commands
      BY <3>2, <3>3, Zenon
    <3>5. PICK k2 \in {k, k + 1} : k2 = sock'[d]
      BY <3>2, <3>4, Zenon
    <3>6. k + r + w + l <= n
      BY <3>1, <3>4, Zenon
    <3>7. k2 + r + w + l <= n + 1
      BY <3>6
    <3> QED
      BY <2>2, <3>2, <3>4, <3>5, <3>7, Zenon
  <2> QED
    BY <2>1, <2>2, <2>3, <2>4, Zenon DEF Hands, SInv
<1>5. ASSUME NEW c \in Conns, Accept(c)
      PROVE  Types' /\ Hands'
  <2>1. Types'
    BY <1>5, Zenon DEF Accept, settings, streams, SInv, Types
  <2>2. /\ UNCHANGED <<sock, rbuf, wbuf, place, commands>> /\ handler[c] = "none"
        /\ handler' = [handler EXCEPT ![c] = "accepted"]
    BY <1>5, Zenon DEF Accept, streams
  <2> QED
    BY <1>1, <1>2, <2>1, <2>2, Zenon DEF live
<1>6. ASSUME NEW c \in Conns, Register(c)
      PROVE  Types' /\ Hands'
  <2>1. /\ IsFiniteSet(conns') /\ Cardinality(conns) \in Nat
        /\ conns' \in {conns, conns \cup {c}}
        /\ Cardinality(conns') \in Nat
        /\ Cardinality(conns') <= Cardinality(conns) + 1
    <3>1. IsFiniteSet(conns) /\ conns' \in {conns, conns \cup {c}}
      BY <1>6, Zenon DEF Register, SInv, Types
    <3>2. IsFiniteSet(conns \cup {c}) /\ Cardinality(conns) \in Nat
      BY <3>1, FS_AddElement, FS_CardinalityType, Zenon
    <3>3. /\ Cardinality(conns \cup {c}) \in Nat
          /\ Cardinality(conns \cup {c}) <= Cardinality(conns) + 1
      <4>1. CASE c \in conns
        <5>1. conns \cup {c} = conns
          BY <4>1, Zenon
        <5> QED
          BY <3>2, <5>1
      <4>2. CASE c \notin conns
        <5>1. Cardinality(conns \cup {c}) = Cardinality(conns) + 1
          BY <3>1, <4>2, FS_AddElement, Zenon
        <5> QED
          BY <3>2, <5>1
      <4> QED
        BY <4>1, <4>2, Zenon
    <3>4. CASE conns' = conns
      BY <3>1, <3>2, <3>4
    <3>5. CASE conns' = conns \cup {c}
      BY <3>1, <3>2, <3>3, <3>5, Zenon
    <3> QED
      BY <3>1, <3>4, <3>5, Zenon
  <2>2. maxClients' > 0 => Cardinality(conns') <= maxClients'
    <3>1. conns' = conns \/ maxClients = 0 \/ Cardinality(conns) < maxClients
      BY <1>6, Zenon DEF Register
    <3> QED
      BY <1>6, <2>1, <3>1 DEF Register, settings, SInv, Types
  <2>3. Types'
    BY <1>6, <2>1, <2>2, Zenon DEF Register, settings, streams, SInv, Types
  <2>4. /\ UNCHANGED <<sock, rbuf, wbuf, place, commands>> /\ handler[c] = "accepted"
        /\ \E h \in {"done", "registered"} : handler' = [handler EXCEPT ![c] = h]
    BY <1>6, Zenon DEF Register, streams
  <2> QED
    BY <1>1, <1>2, <2>3, <2>4, Zenon DEF live
<1>7. ASSUME NEW c \in Conns, StartHandler(c)
      PROVE  Types' /\ Hands'
  <2>1. Types'
    BY <1>7, Zenon DEF StartHandler, settings, streams, SInv, Types
  <2>2. /\ UNCHANGED <<sock, rbuf, wbuf, place, commands>> /\ handler[c] = "registered"
        /\ handler' = [handler EXCEPT ![c] = "reading"]
    BY <1>7, Zenon DEF StartHandler, streams
  <2> QED
    BY <1>1, <1>2, <2>1, <2>2, Zenon DEF live
<1>8. CASE Stop \/ StopReturns \/ CloseBroker \/ Exit
  <2>1. Types'
    BY <1>1, <1>8, Zenon DEF Stop, StopReturns, CloseBroker, Exit, settings, streams, SInv, Types
  <2>2. UNCHANGED <<sock, rbuf, wbuf, place, commands, handler>>
    BY <1>8, Zenon DEF Stop, StopReturns, CloseBroker, Exit, streams
  <2> QED
    BY <1>1, <1>2, <2>1, <2>2, Zenon
<1> QED
  BY <1>3, <1>4, <1>5, <1>6, <1>7, <1>8, Zenon

\* A handler that replies once to the command it has taken, or waits in.
LEMMA ReplyProgress ==
  ASSUME SInv, NEW c \in Conns, NEW reply, NEW rest \in Nat, NEW pl,
         Consistent(reply, pl), Respond(c, reply, rest, pl),
         handler[c] \in {"reading"} \cup Waiting,
         handler' = [handler EXCEPT ![c] = "reading"],
         rest + 1 <= rbuf[c] + Weight(handler[c]),
         UNCHANGED <<sock, commands>>
  PROVE  Progress(c)
<1>1. /\ handler \in [Conns -> HandlerStates] /\ rbuf \in [Conns -> Nat]
      /\ wbuf \in Buffers /\ place \in Placings /\ InHand(wbuf, place)
  BY Zenon DEF SInv, IInv, Shape, Hands
<1>2. /\ rbuf' = [rbuf EXCEPT ![c] = rest]
      /\ wbuf' \in Buffers /\ place' \in Placings /\ InHand(wbuf', place')
      /\ \A d \in Conns \ {c} : wbuf'[d] = wbuf[d]
      /\ Len(wbuf'[c]) <= Len(wbuf[c]) + 1
  BY <1>1, RespondInHand, Zenon
<1>3. wbuf[c] \in Seq(Replies) /\ wbuf'[c] \in Seq(Replies)
  BY <1>1, <1>2, Zenon DEF Buffers
<1>4. /\ rbuf' \in [Conns -> Nat] /\ rbuf'[c] = rest /\ \A d \in Conns \ {c} : rbuf'[d] = rbuf[d]
      /\ handler'[c] = "reading"
  BY <1>1, <1>2, Zenon
<1>5. Weight(handler'[c]) = 0 /\ Weight(handler[c]) \in {0, 1}
  BY <1>4, Zenon DEF Weight
<1>6. PICK l, l2, r, w \in Nat : l = Len(wbuf[c]) /\ l2 = Len(wbuf'[c]) /\ r = rbuf[c] /\ w = Weight(handler[c])
  BY <1>1, <1>3, <1>5
<1>a. l2 <= l + 1 /\ rest + 1 <= r + w
  BY <1>2, <1>6, Zenon
<1>7. rest + 0 + l2 <= r + w + l
  BY <1>a
<1> QED
  BY <1>2, <1>4, <1>5, <1>6, <1>7, Zenon DEF Progress

\* What a command does to the places of messages that nobody holds.
LEMMA PlainReply ==
  ASSUME SInv, NEW reply \in ReplyOrNil, NEW pl \in Placings,
         \A m \in Messages : pl[m] = place[m] \/ (pl[m] # "reply" /\ place[m] # "reply")
  PROVE  Consistent(reply, pl)
BY Zenon DEF Consistent, SameReplies

\* What the proofs below use of the invariant.
LEMMA HandlerFacts ==
  ASSUME SInv
  PROVE  /\ handler \in [Conns -> HandlerStates] /\ rbuf \in [Conns -> Nat] /\ sock \in [Conns -> Nat]
         /\ conns \subseteq Conns /\ place \in Placings /\ wbuf \in Buffers /\ commands \in Nat
         /\ IInv /\ Hands
         /\ topic \in {"absent", "open", "closed"}
         /\ "ok" \in ReplyOrNil /\ "usage" \in ReplyOrNil /\ "noauth" \in ReplyOrNil
         /\ \A r \in ReplyOrNil : Consistent(r, place)
<1>1. /\ handler \in [Conns -> HandlerStates] /\ rbuf \in [Conns -> Nat] /\ sock \in [Conns -> Nat]
      /\ conns \subseteq Conns /\ place \in Placings /\ wbuf \in Buffers /\ commands \in Nat
      /\ IInv /\ Hands
  BY MaxCommandsAssumption DEF SInv, IInv, Shape, Hands, Types
<1>2. \A r \in ReplyOrNil : Consistent(r, place)
  BY <1>1, PlainReply, Zenon
<1> QED
  BY <1>1, <1>2, Zenon DEF SInv, Types, ReplyOrNil

\* A handler's progress keeps the types and the accounts.
LEMMA ProgressSInv ==
  ASSUME SInv, NEW c \in Conns, Progress(c),
         UNCHANGED <<settings, client, conns, shut, part, main, commands>>,
         authed' \in {authed, authed \cup {c}}, topic' \in {"absent", "open", "closed"}
  PROVE  Types' /\ Hands'
<1>1. Types'
  BY Zenon DEF SInv, Types, settings
<1>2. Hands'
  BY HandlerFacts, ProgressHands, Zenon
<1> QED
  BY <1>1, <1>2, Zenon

\* A command that is taken from the buffer and answered at once.
LEMMA CommandProgress ==
  ASSUME SInv, NEW c \in Conns, NEW pl, NEW reply, Consistent(reply, pl), rbuf[c] > 0,
         handler[c] = "reading", Respond(c, reply, rbuf[c] - 1, pl), UNCHANGED <<handler, sock, commands>>
  PROVE  Progress(c)
<1>1. PICK rest \in Nat : rest = rbuf[c] - 1
  BY HandlerFacts
<1>2. /\ Respond(c, reply, rest, pl) /\ handler' = [handler EXCEPT ![c] = "reading"]
      /\ rest + 1 <= rbuf[c] + Weight(handler[c])
  BY <1>1, HandlerFacts DEF Weight
<1> QED
  BY <1>2, HandlerFacts, ReplyProgress, Zenon

\* Commands that touch no message.
LEMMA AnswerSInv ==
  ASSUME SInv, NEW c \in Conns, NEW cmd, NEW reply \in ReplyOrNil, Answer(c, cmd, reply),
         authed' \in {authed, authed \cup {c}}
  PROVE  Types' /\ Hands'
<1>1. /\ handler[c] = "reading" /\ rbuf[c] > 0 /\ Respond(c, reply, rbuf[c] - 1, place)
      /\ UNCHANGED <<settings, client, handler, conns, shut, sock, part, topic, main, commands>>
  BY Zenon DEF Answer, Takes
<1>2. PICK rest \in Nat : rest = rbuf[c] - 1
  BY <1>1, HandlerFacts
<1>3. /\ Respond(c, reply, rest, place) /\ handler' = [handler EXCEPT ![c] = "reading"]
      /\ rest + 1 <= rbuf[c] + Weight(handler[c])
  BY <1>1, <1>2, HandlerFacts DEF Weight
<1>4. Progress(c)
  BY <1>1, <1>3, HandlerFacts, ReplyProgress, Zenon
<1> QED
  BY <1>1, <1>4, ProgressSInv, HandlerFacts, Zenon

\* PUSH and MPUSH queue messages that nobody has.
LEMMA PushSInv ==
  ASSUME SInv, NEW c \in Conns, Push(c)
  PROVE  Types' /\ Hands'
<1>1. PICK S \in SUBSET {m \in Messages : place[m] = "new"} :
        Respond(c, "ok", rbuf[c] - 1, [m \in Messages |-> IF m \in S THEN "queue" ELSE place[m]])
  BY Zenon DEF Push
<1>2. PICK pl : pl = [m \in Messages |-> IF m \in S THEN "queue" ELSE place[m]]
  BY Zenon
<1>3. Consistent("ok", pl)
  <2>1. pl \in Placings /\ \A m \in Messages : pl[m] = place[m] \/ (pl[m] # "reply" /\ place[m] # "reply")
    BY <1>1, <1>2, HandlerFacts, Zenon DEF Placings, Places
  <2> QED
    BY <2>1, HandlerFacts, PlainReply, Zenon
<1>4. Progress(c)
  BY <1>1, <1>2, <1>3, CommandProgress, Zenon DEF Push, Takes
<1> QED
  BY <1>4, ProgressSInv, HandlerFacts, Zenon DEF Push

\* What a pop or a read does with the message that it gets.
LEMMA ServeReplies ==
  ASSUME SInv, NEW c \in Conns, NEW cmd, NEW rest, Serve(c, cmd, rest)
  PROVE  \E reply, pl : Consistent(reply, pl) /\ Respond(c, reply, rest, pl)
<1>1. PICK m \in queued :
        IF cmd \in Plain
        THEN Respond(c, m, rest, [place EXCEPT ![m] = "reply"])
        ELSE Respond(c, "ok", rest, [place EXCEPT ![m] = "pel"])
  BY Zenon DEF Serve
<1>2. m \in Messages /\ place[m] = "queue"
  BY Zenon DEF queued
<1>3. CASE cmd \in Plain
  <2>1. Consistent(m, [place EXCEPT ![m] = "reply"])
    BY <1>2, Zenon DEF Consistent
  <2> QED
    BY <1>1, <1>3, <2>1, Zenon
<1>4. CASE cmd \notin Plain
  <2>1. PICK pl : pl = [place EXCEPT ![m] = "pel"]
    BY Zenon
  <2>2. pl \in Placings /\ \A x \in Messages : pl[x] = place[x] \/ (pl[x] # "reply" /\ place[x] # "reply")
    BY <1>2, <2>1, HandlerFacts, Zenon DEF Placings, Places
  <2>3. Consistent("ok", pl)
    BY <2>2, HandlerFacts, PlainReply, Zenon
  <2> QED
    BY <1>1, <1>4, <2>1, <2>3, Zenon
<1> QED
  BY <1>3, <1>4, Zenon

\* A pop or a read is answered, or the handler waits in it.
LEMMA PopSInv ==
  ASSUME SInv, NEW c \in Conns, NEW cmd \in Untimed \cup Timed, Pop(c, cmd)
  PROVE  Types' /\ Hands'
<1>1. /\ handler[c] = "reading" /\ rbuf[c] > 0 /\ topic' \in {"absent", "open", "closed"}
      /\ UNCHANGED <<settings, client, conns, shut, authed, sock, part, main, commands>>
  BY HandlerFacts, Zenon DEF Pop, Takes
<1>2. CASE UNCHANGED handler /\ (Serve(c, cmd, rbuf[c] - 1) \/ Respond(c, "ok", rbuf[c] - 1, place))
  <2>1. PICK reply, pl : Consistent(reply, pl) /\ Respond(c, reply, rbuf[c] - 1, pl)
    BY <1>2, HandlerFacts, ServeReplies, Zenon
  <2>2. Progress(c)
    BY <1>1, <1>2, <2>1, CommandProgress, Zenon
  <2> QED
    BY <1>1, <2>2, ProgressSInv, Zenon
<1>3. CASE /\ handler' = [handler EXCEPT ![c] = cmd]
           /\ rbuf' = [rbuf EXCEPT ![c] = rbuf[c] - 1]
           /\ UNCHANGED <<wbuf, place>>
  <2>1. handler'[c] = cmd /\ Weight(handler'[c]) = 1 /\ Weight(handler[c]) = 0
    BY <1>1, <1>3, HandlerFacts, Zenon DEF Weight
  <2>2. rbuf' \in [Conns -> Nat] /\ rbuf'[c] = rbuf[c] - 1 /\ \A d \in Conns \ {c} : rbuf'[d] = rbuf[d]
    BY <1>1, <1>3, HandlerFacts
  <2>3. InHand(wbuf', place') /\ wbuf' \in Buffers /\ place' \in Placings /\ wbuf' = wbuf
    BY <1>3, HandlerFacts, Zenon DEF Hands
  <2>4. PICK l, r \in Nat : l = Len(wbuf[c]) /\ r = rbuf[c]
    BY HandlerFacts DEF Buffers
  <2>5. rbuf'[c] + Weight(handler'[c]) + Len(wbuf'[c]) <= rbuf[c] + Weight(handler[c]) + Len(wbuf[c])
    BY <2>1, <2>2, <2>3, <2>4
  <2>6. Progress(c)
    BY <1>1, <1>3, <2>2, <2>3, <2>5, Zenon DEF Progress
  <2> QED
    BY <1>1, <2>6, ProgressSInv, Zenon
<1> QED
  BY <1>2, <1>3, Zenon DEF Pop

\* A pop or a read that has waited is answered.
LEMMA PopReturnsSInv ==
  ASSUME SInv, NEW c \in Conns, PopReturns(c)
  PROVE  Types' /\ Hands'
<1>1. /\ handler[c] \in Waiting /\ handler' = [handler EXCEPT ![c] = "reading"]
      /\ UNCHANGED <<settings, client, conns, shut, authed, sock, part, topic, main, commands>>
      /\ Serve(c, handler[c], rbuf[c]) \/ Respond(c, "ok", rbuf[c], place)
  BY Zenon DEF PopReturns
<1>2. PICK reply, pl : Consistent(reply, pl) /\ Respond(c, reply, rbuf[c], pl)
  BY <1>1, HandlerFacts, ServeReplies, Zenon
<1>3. PICK rest \in Nat : rest = rbuf[c]
  BY HandlerFacts, Zenon
<1>4. Respond(c, reply, rest, pl) /\ rest + 1 <= rbuf[c] + Weight(handler[c])
  BY <1>1, <1>2, <1>3 DEF Weight
<1>5. Progress(c)
  BY <1>1, <1>2, <1>4, ReplyProgress, Zenon
<1> QED
  BY <1>1, <1>5, ProgressSInv, HandlerFacts, Zenon

\* Acknowledgements, rejections and replays move no message into a reply.
LEMMA SettleSInv ==
  ASSUME SInv, NEW c \in Conns, Settle(c)
  PROVE  Types' /\ Hands'
<1>1. /\ handler[c] = "reading" /\ rbuf[c] > 0
      /\ UNCHANGED <<settings, client, handler, conns, shut, authed, sock, part, topic, main, commands>>
  BY Zenon DEF Settle, Takes
<1>2. ASSUME NEW pl, Respond(c, "ok", rbuf[c] - 1, pl), pl \in Placings,
             \A m \in Messages : pl[m] = place[m] \/ (pl[m] # "reply" /\ place[m] # "reply")
      PROVE  Progress(c)
  <2>1. Consistent("ok", pl)
    BY <1>2, HandlerFacts, PlainReply, Zenon
  <2> QED
    BY <1>1, <1>2, <2>1, CommandProgress, Zenon
<1>3. PICK again \in {"lost", "queue"} :
        \/ \E S \in SUBSET {m \in Messages : place[m] = "pel"} :
             Respond(c, "ok", rbuf[c] - 1,
                     [m \in Messages |-> IF m \in S THEN "settled" ELSE place[m]])
        \/ \E m \in {x \in Messages : place[x] = "pel"}, to \in {again, "dead"} :
             Respond(c, "ok", rbuf[c] - 1, [place EXCEPT ![m] = to])
        \/ \E m \in Messages :
             /\ place[m] = "dead"
             /\ Respond(c, "ok", rbuf[c] - 1, [place EXCEPT ![m] = again])
  BY Zenon DEF Settle
<1>4. ASSUME NEW S \in SUBSET {m \in Messages : place[m] = "pel"}, NEW pl,
             pl = [m \in Messages |-> IF m \in S THEN "settled" ELSE place[m]],
             Respond(c, "ok", rbuf[c] - 1, pl)
      PROVE  Progress(c)
  <2>1. pl \in Placings /\ \A m \in Messages : pl[m] = place[m] \/ (pl[m] # "reply" /\ place[m] # "reply")
    BY <1>4, HandlerFacts, Zenon DEF Placings, Places
  <2> QED
    BY <1>2, <1>4, <2>1, Zenon
<1>5. ASSUME NEW m \in Messages, place[m] \in {"pel", "dead"}, NEW to \in {"lost", "queue", "dead"},
             NEW pl, pl = [place EXCEPT ![m] = to], Respond(c, "ok", rbuf[c] - 1, pl)
      PROVE  Progress(c)
  <2>1. pl \in Placings /\ \A x \in Messages : pl[x] = place[x] \/ (pl[x] # "reply" /\ place[x] # "reply")
    BY <1>5, HandlerFacts, Zenon DEF Placings, Places
  <2> QED
    BY <1>2, <1>5, <2>1, Zenon
<1>6. Progress(c)
  BY <1>3, <1>4, <1>5, Zenon
<1> QED
  BY <1>1, <1>6, ProgressSInv, HandlerFacts, Zenon

\* QUIT leaves its reply to the flush of the deferred calls.
LEMMA QuitSInv ==
  ASSUME SInv, NEW c \in Conns, Quit(c)
  PROVE  Types' /\ Hands'
<1>1. /\ handler[c] = "reading" /\ rbuf[c] > 0 /\ handler' = [handler EXCEPT ![c] = "leaving"]
      /\ rbuf' = [rbuf EXCEPT ![c] = rbuf[c] - 1]
      /\ wbuf' = [wbuf EXCEPT ![c] = Append(wbuf[c], "ok")] /\ place' = place
      /\ UNCHANGED <<settings, client, conns, shut, authed, sock, part, topic, main, commands>>
  BY Zenon DEF Quit, Takes
<1>2. SameReplies(place, place)
  BY Zenon DEF SameReplies
<1>3. PICK w2, ok : w2 = wbuf' /\ ok = "ok"
  BY Zenon
<1>4. w2 \in Buffers /\ InHand(w2, place)
  <2>1. ok \in ReplyOrNil /\ w2 = [wbuf EXCEPT ![c] = Append(wbuf[c], ok)] /\ InHand(wbuf, place)
    BY <1>1, <1>3, HandlerFacts, Zenon DEF Hands
  <2> QED
    BY <1>2, <2>1, HandlerFacts, AppendPlain, Zenon
<1>5. handler'[c] = "leaving" /\ Weight(handler'[c]) = 0 /\ Weight(handler[c]) = 0
  BY <1>1, HandlerFacts, Zenon DEF Weight
<1>6. rbuf' \in [Conns -> Nat] /\ rbuf'[c] = rbuf[c] - 1 /\ \A d \in Conns \ {c} : rbuf'[d] = rbuf[d]
  BY <1>1, HandlerFacts
<1>7. PICK l, r \in Nat : l = Len(wbuf[c]) /\ r = rbuf[c] /\ Len(wbuf'[c]) = l + 1
  <2>1. wbuf[c] \in Seq(Replies) /\ wbuf'[c] = Append(wbuf[c], "ok") /\ "ok" \in Replies
    BY <1>1, HandlerFacts, Zenon DEF Buffers, Replies
  <2>2. Len(wbuf'[c]) = Len(wbuf[c]) + 1 /\ Len(wbuf[c]) \in Nat
    BY <2>1
  <2> QED
    BY <2>2, HandlerFacts, Zenon
<1>8. rbuf'[c] + Weight(handler'[c]) + Len(wbuf'[c]) <= rbuf[c] + Weight(handler[c]) + Len(wbuf[c])
  BY <1>5, <1>6, <1>7
<1>9. \A d \in Conns \ {c} : wbuf'[d] = wbuf[d]
  BY <1>1, HandlerFacts, Zenon DEF Buffers
<1>10. Progress(c)
  BY <1>1, <1>3, <1>4, <1>6, <1>8, <1>9, HandlerFacts, Zenon DEF Progress
<1> QED
  BY <1>1, <1>10, ProgressSInv, HandlerFacts, Zenon

\* A read error leaves the replies to the flush of the deferred calls.
LEMMA ReadErrorSInv ==
  ASSUME SInv, NEW c \in Conns, ReadError(c)
  PROVE  Types' /\ Hands'
<1>1. /\ handler[c] = "reading" /\ handler' = [handler EXCEPT ![c] = "leaving"]
      /\ UNCHANGED <<settings, client, conns, shut, authed, sock, rbuf, part, wbuf, topic, place, main, commands>>
  BY Zenon DEF ReadError, Takes, streams
<1>2. Weight(handler'[c]) = 0 /\ Weight(handler[c]) = 0
  BY <1>1, HandlerFacts, Zenon DEF Weight
<1>3. PICK l, r \in Nat : l = Len(wbuf[c]) /\ r = rbuf[c]
  BY HandlerFacts DEF Buffers
<1>4. rbuf'[c] + Weight(handler'[c]) + Len(wbuf'[c]) <= rbuf[c] + Weight(handler[c]) + Len(wbuf[c])
  BY <1>1, <1>2, <1>3
<1>5. Progress(c)
  BY <1>1, <1>4, HandlerFacts, Zenon DEF Progress, Hands
<1> QED
  BY <1>1, <1>5, ProgressSInv, HandlerFacts, Zenon

\* A read moves commands from the socket to the buffer.
LEMMA FillSInv ==
  ASSUME SInv, NEW c \in Conns, Fill(c)
  PROVE  Types' /\ Hands'
<1>1. PICK n \in 1..sock[c], cut \in BOOLEAN :
        /\ rbuf[c] = 0
        /\ rbuf' = [rbuf EXCEPT ![c] = n]
        /\ sock' = [sock EXCEPT ![c] = sock[c] - n]
        /\ part' = [part EXCEPT ![c] = cut]
        /\ UNCHANGED <<settings, client, handler, conns, shut, authed, wbuf, topic, place, main, commands>>
  BY Zenon DEF Fill
<1>2. Types'
  BY <1>1, Zenon DEF SInv, Types, settings
<1>3. Accounted'
  <2> SUFFICES ASSUME NEW d \in Conns
               PROVE  sock'[d] + rbuf'[d] + Weight(handler'[d]) + Len(wbuf'[d]) <= commands'
    BY Zenon DEF Accounted, Weight
  <2>1. sock[d] + rbuf[d] + Weight(handler[d]) + Len(wbuf[d]) <= commands
    BY HandlerFacts, Zenon DEF Hands, Accounted
  <2>2. sock[d] \in Nat /\ rbuf[d] \in Nat
    BY HandlerFacts, Zenon
  <2>3. sock'[d] + rbuf'[d] = sock[d] + rbuf[d]
    BY <1>1, <2>2, HandlerFacts
  <2> QED
    BY <1>1, <2>1, <2>3, Zenon
<1>4. wbuf' \in Buffers /\ place' \in Placings /\ InHand(wbuf', place') /\ Owned'
  BY <1>1, HandlerFacts, Zenon DEF Hands, Owned, live
<1> QED
  BY <1>2, <1>3, <1>4, Zenon DEF Hands

\* The deferred calls write the replies out and close the connection.
LEMMA LeaveSInv ==
  ASSUME SInv, NEW c \in Conns, Leave(c)
  PROVE  Types' /\ Hands'
<1>1. /\ handler[c] = "leaving" /\ handler' = [handler EXCEPT ![c] = "done"]
      /\ place' = Sent(c, wbuf[c], place) /\ wbuf' = [wbuf EXCEPT ![c] = <<>>]
      /\ shut' = shut \cup {c} /\ conns' = conns \ {c}
      /\ UNCHANGED <<settings, client, authed, sock, rbuf, part, topic, main, commands>>
  BY Zenon DEF Leave
<1>2. PICK w2 : w2 = wbuf'
  BY Zenon
<1>3. w2 \in Buffers /\ place' \in Placings /\ InHand(w2, place')
  BY <1>1, <1>2, HandlerFacts, FlushInHand, Zenon DEF Hands
<1>4. IsFiniteSet(conns') /\ (maxClients > 0 => Cardinality(conns') <= maxClients)
  <2>1. IsFiniteSet(conns) /\ maxClients \in Nat /\ (maxClients > 0 => Cardinality(conns) <= maxClients)
    BY Zenon DEF SInv, Types
  <2>2. /\ IsFiniteSet(conns') /\ Cardinality(conns') <= Cardinality(conns)
        /\ Cardinality(conns') \in Nat /\ Cardinality(conns) \in Nat
    <3>1. conns' \subseteq conns
      BY <1>1, Zenon
    <3> QED
      BY <2>1, <3>1, FS_Subset, FS_CardinalityType, Zenon
  <2> QED
    BY <2>1, <2>2
<1>5. Types'
  BY <1>1, <1>4, Zenon DEF SInv, Types, settings
<1>6. wbuf'[c] = <<>> /\ \A d \in Conns \ {c} : wbuf'[d] = wbuf[d] /\ handler'[d] = handler[d]
  BY <1>1, HandlerFacts, Zenon DEF Buffers
<1>7. Owned'
  <2> SUFFICES ASSUME NEW d \in Conns, wbuf'[d] # <<>>
               PROVE  d \in live'
    BY Zenon DEF Owned
  <2>1. d # c /\ wbuf[d] # <<>>
    BY <1>6, Zenon
  <2>2. d \in live
    BY <2>1, HandlerFacts, Zenon DEF Hands, Owned
  <2> QED
    BY <1>6, <2>1, <2>2, Zenon DEF live
<1>8. Accounted'
  <2> SUFFICES ASSUME NEW d \in Conns
               PROVE  sock'[d] + rbuf'[d] + Weight(handler'[d]) + Len(wbuf'[d]) <= commands'
    BY Zenon DEF Accounted, Weight
  <2>1. sock[d] + rbuf[d] + Weight(handler[d]) + Len(wbuf[d]) <= commands
    BY HandlerFacts, Zenon DEF Hands, Accounted
  <2>2. CASE d # c
    BY <1>1, <1>6, <2>1, <2>2, Zenon
  <2>3. CASE d = c
    <3>1. Weight(handler[d]) = 0 /\ Weight(handler'[d]) = 0 /\ Len(wbuf'[d]) = 0
      BY <1>1, <1>6, <2>3, HandlerFacts DEF Weight
    <3>2. PICK k, r, l \in Nat : k = sock[d] /\ r = rbuf[d] /\ l = Len(wbuf[d])
      BY HandlerFacts DEF Buffers
    <3>3. k + r + 0 + l <= commands /\ commands' = commands /\ commands \in Nat
      BY <1>1, <2>1, <3>1, <3>2, HandlerFacts, Zenon
    <3>4. k + r + 0 + 0 <= commands'
      BY <3>3
    <3> QED
      BY <1>1, <3>1, <3>2, <3>4, Zenon
  <2> QED
    BY <2>2, <2>3, Zenon
<1> QED
  BY <1>2, <1>3, <1>5, <1>7, <1>8, Zenon DEF Hands

\* Every step of a handler keeps the types and the accounts.
LEMMA HandlerSInv ==
  ASSUME SInv, NEW c \in Conns, Handle(c)
  PROVE  Types' /\ Hands'
<1>1. CASE NoAuth(c) \/ Query(c) \/ UsageError(c) \/ Auth(c)
  BY <1>1, HandlerFacts, AnswerSInv, Zenon DEF NoAuth, Query, UsageError, Auth
<1> QED
  BY <1>1, PushSInv, PopSInv, PopReturnsSInv, SettleSInv, QuitSInv, ReadErrorSInv, FillSInv, LeaveSInv, Zenon
  DEF Handle

\* The invariant contains the type invariant.
LEMMA SInvTypes == SInv => TypeOK
<1> SUFFICES ASSUME SInv PROVE TypeOK
  BY Zenon
<1>1. /\ handler \in [Conns -> HandlerStates] /\ rbuf \in [Conns -> Nat] /\ sock \in [Conns -> Nat]
      /\ conns \subseteq Conns
  BY Zenon DEF SInv, IInv, Shape
<1>2. live \subseteq conns
  BY Zenon DEF SInv, IInv, StartsEmpty, live
<1>3. wbuf \in [Conns -> Seq(Replies)] /\ place \in [Messages -> Places]
  BY Zenon DEF SInv, Hands, Buffers, Placings
<1>4. sock \in [Conns -> 0..MaxCommands] /\ rbuf \in [Conns -> 0..MaxCommands]
  <2>1. ASSUME NEW c \in Conns
        PROVE  sock[c] \in 0..MaxCommands /\ rbuf[c] \in 0..MaxCommands
    <3>1. PICK k, r, l, w, n \in Nat :
            k = sock[c] /\ r = rbuf[c] /\ l = Len(wbuf[c]) /\ w = Weight(handler[c]) /\ n = commands
      BY <1>1, <1>3, MaxCommandsAssumption DEF Weight, SInv, Types
    <3>2. k + r + w + l <= n /\ n <= MaxCommands
      BY <3>1, MaxCommandsAssumption DEF SInv, Hands, Accounted, Types
    <3>3. k \in 0..MaxCommands /\ r \in 0..MaxCommands
      BY <3>2, MaxCommandsAssumption
    <3> QED
      BY <3>1, <3>3, Zenon
  <2> QED
    BY <1>1, <2>1, Zenon
<1> QED
  BY <1>1, <1>2, <1>3, <1>4, Zenon DEF TypeOK, SInv, Types

\* A buffer has a place for each of its replies among the first MaxCommands.
LEMMA BufferLength ==
  ASSUME SInv, NEW c \in Conns
  PROVE  DOMAIN wbuf[c] \subseteq 1..MaxCommands
<1>1. wbuf[c] \in Seq(Replies) /\ sock[c] \in Nat /\ rbuf[c] \in Nat /\ commands \in 0..MaxCommands
  BY Zenon DEF SInv, IInv, Shape, Hands, Buffers, Types
<1>2. PICK k, r, l, w, n \in Nat :
        k = sock[c] /\ r = rbuf[c] /\ l = Len(wbuf[c]) /\ w = Weight(handler[c]) /\ n = commands
  BY <1>1, MaxCommandsAssumption DEF Weight
<1>3. k + r + w + l <= n /\ n <= MaxCommands
  BY <1>1, <1>2, MaxCommandsAssumption DEF SInv, Hands, Accounted
<1>4. DOMAIN wbuf[c] = 1..l
  BY <1>1, <1>2
<1> QED
  BY <1>3, <1>4, MaxCommandsAssumption

\* Each popped message is in one place of one live handler's buffer.
LEMMA SInvInHand == SInv => PoppedIsInHand
<1> SUFFICES ASSUME SInv, NEW m \in Messages
             PROVE  Cardinality({p \in live \X (1..MaxCommands) :
                                   p[2] \in DOMAIN wbuf[p[1]] /\ wbuf[p[1]][p[2]] = m})
                      = IF place[m] = "reply" THEN 1 ELSE 0
  BY Zenon DEF PoppedIsInHand
<1> DEFINE P == {p \in live \X (1..MaxCommands) :
                   p[2] \in DOMAIN wbuf[p[1]] /\ wbuf[p[1]][p[2]] = m}
<1>1. /\ InHand(wbuf, place) /\ live \subseteq Conns
      /\ \A c \in Conns : \A i \in DOMAIN wbuf[c] : c \in live
  <2>1. \A c \in Conns : \A i \in DOMAIN wbuf[c] : wbuf[c] # <<>>
    BY DEF SInv, Hands, Buffers
  <2> QED
    BY <2>1, Zenon DEF SInv, Hands, Owned, live
<1>2. CASE place[m] = "reply"
  <2>1. PICK c \in Conns : \E i \in DOMAIN wbuf[c] : wbuf[c][i] = m
    BY <1>1, <1>2, Zenon DEF InHand
  <2>2. PICK i \in DOMAIN wbuf[c] : wbuf[c][i] = m
    BY <2>1, Zenon
  <2>3. c \in live /\ i \in 1..MaxCommands
    BY <1>1, BufferLength, Zenon
  <2>4. <<c, i>> \in P
    BY <2>2, <2>3, Zenon
  <2>5. ASSUME NEW p \in P PROVE p = <<c, i>>
    <3>1. p = <<p[1], p[2]>> /\ p[1] \in Conns /\ p[2] \in DOMAIN wbuf[p[1]] /\ wbuf[p[1]][p[2]] = m
      BY <1>1
    <3>2. p[1] = c /\ p[2] = i
      BY <1>1, <2>2, <3>1 DEF InHand
    <3> QED
      BY <3>1, <3>2, Zenon
  <2>6. P = {<<c, i>>}
    BY <2>4, <2>5, Zenon
  <2> QED
    BY <1>2, <2>6, FS_Singleton, Zenon
<1>3. CASE place[m] # "reply"
  <2>1. ASSUME NEW p \in P PROVE FALSE
    <3>1. p[1] \in Conns /\ p[2] \in DOMAIN wbuf[p[1]] /\ wbuf[p[1]][p[2]] = m
      BY <1>1, Zenon
    <3> QED
      BY <1>1, <1>3, <3>1 DEF InHand
  <2>2. P = {}
    BY <2>1, Zenon
  <2> QED
    BY <1>3, <2>2, FS_EmptySet, ZenonT(30)
<1> QED
  BY <1>2, <1>3, Zenon

\* Every step keeps the invariant.
LEMMA StepSInv == SInv /\ [Next]_vars => SInv'
<1> SUFFICES ASSUME SInv, [Next]_vars PROVE SInv'
  BY Zenon
<1>1. IInv'
  BY OthersIInv, HandlerIInv, StutterIInv, Zenon DEF Next, SInv
<1>2. CASE Next
  BY <1>1, <1>2, OthersSInv, HandlerSInv, Zenon DEF Next, SInv
<1>3. CASE UNCHANGED vars
  <2>1. Types'
    BY <1>3, Zenon DEF vars, settings, streams, SInv, Types
  <2>2. Hands'
    BY <1>3, Zenon DEF vars, settings, streams, SInv, Hands, Owned, Accounted, live, Weight
  <2> QED
    BY <1>1, <2>1, <2>2, Zenon DEF SInv
<1> QED
  BY <1>2, <1>3, Zenon

(***************************************************************************)
(* Types, the bounds on the buffers, and the limit on clients: the accept  *)
(* loop and the handlers never have more connections registered than       *)
(* MaxClients, and every live handler's is among them (server.go).         *)
(***************************************************************************)
THEOREM TypeCorrect == Spec => []TypeOK
BY InitSInv, StepSInv, SInvTypes, PTL DEF Spec

(***************************************************************************)
(* A message that a pop has taken off the queue is in the hands of exactly *)
(* one live handler until it is written, for any number of connections,    *)
(* pipelines of any length and a Stop at any time (server.go).             *)
(***************************************************************************)
THEOREM PoppedStaysInHand == Spec => []PoppedIsInHand
BY InitSInv, StepSInv, SInvInHand, PTL DEF Spec
=============================================================================
