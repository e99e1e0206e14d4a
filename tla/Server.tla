------------------------------- MODULE Server -------------------------------
(***************************************************************************)
(* The TCP server (internal/network/server.go) from the listener to the    *)
(* replies, and the shutdown in main (cmd/vortexmq/main.go).               *)
(*                                                                         *)
(* The accept loop, one goroutine per connection, the clients and main     *)
(* interleave.  Commands are known by what their case of the switch does   *)
(* to the connection and to the messages of one topic; RESP has their      *)
(* bytes, Broker and Topic have what lies behind.                          *)
(*                                                                         *)
(* A command travels from the client through the network (sock) into the   *)
(* reader's buffer (rbuf), where the end of a read may cut one (part); its *)
(* reply waits in the writer's buffer (wbuf) to be flushed.  Of unread     *)
(* commands only the number is kept: which one a client has sent is chosen *)
(* when the handler takes it, as nothing looks at it before.               *)
(***************************************************************************)
EXTENDS Integers, FiniteSets, Sequences, Functions

CONSTANTS
  Conns,        \* client connections
  Messages,
  Commands,     \* the commands clients send, out of AllCommands
  Settings,     \* pairs: whether a password is set, MaxClients (0 for no limit)
  MaxCommands   \* bound on the commands sent over all connections

(***************************************************************************)
(* query: one reply and nothing else (PING, ECHO, COMMAND, INFO, LLEN,     *)
(* VMQ.BROADCAST, VMQ.STATS, unknown commands, and the errors that leave   *)
(* the switch by break);                                                   *)
(* usage: an error that leaves it by continue, past the flush;             *)
(* push: LPUSH, RPUSH, XADD, VMQ.PUBLISH, VMQ.PUBLISH_BATCH, and XGROUP,   *)
(* which creates the topic and pushes nothing;                             *)
(* pop, popWait: LPOP, RPOP, BRPOP, BLPOP, VMQ.CONSUME, with no timeout    *)
(* (0 waits for ever) or with one; read, readWait: XREADGROUP likewise;    *)
(* settle: XACK, VMQ.ACK, VMQ.NACK, VMQ.REPLAY;                            *)
(* malformed: bytes for which ReadCommand returns an error.                *)
(***************************************************************************)
Untimed == {"pop", "read"}
Timed == {"popWait", "readWait"}
Plain == {"pop", "popWait"}
AllCommands ==
  {"query", "usage", "auth", "push", "settle", "quit", "malformed"} \cup Untimed \cup Timed

ASSUME CommandsAssumption == Commands \subseteq AllCommands
ASSUME SettingsAssumption == Settings \subseteq BOOLEAN \X Nat
ASSUME MaxCommandsAssumption == MaxCommands \in Nat

\* A reply that carries a message can be told from the others.
ASSUME MessagesAssumption == Messages \cap {"ok", "usage", "noauth"} = {}

VARIABLES
  password, maxClients, \* a member of Settings; never changes
  client,       \* per connection, the client's end: "new", "open" or "closed"
  handler,      \* the server's end: "none", "accepted", "registered", "reading",
                \* a command it waits in, "leaving" or "done"
  conns,        \* s.conns
  shut,         \* connections that the server has closed
  authed,       \* connections that are authenticated
  sock, rbuf, part,  \* numbers of commands, and whether one more is cut
  wbuf,         \* sequence of replies
  topic,        \* "absent", "open" or "closed"
  place,        \* where each message is
  main,         \* "serving", "waiting" (for handlers), "stopped", "closed" or "exited"
  commands      \* number of commands sent

settings == <<password, maxClients>>
streams == <<sock, rbuf, part, wbuf>>
vars == <<settings, client, handler, conns, shut, authed,
          streams, topic, place, main, commands>>

Init ==
  /\ \E s \in Settings : password = s[1] /\ maxClients = s[2]
  /\ client = [c \in Conns |-> "new"]
  /\ handler = [c \in Conns |-> "none"]
  /\ conns = {}
  /\ shut = {}
  /\ authed = {}
  /\ sock = [c \in Conns |-> 0]
  /\ rbuf = [c \in Conns |-> 0]
  /\ part = [c \in Conns |-> FALSE]
  /\ wbuf = [c \in Conns |-> <<>>]
  /\ topic = "absent"
  /\ place = [m \in Messages |-> "new"]
  /\ main = "serving"
  /\ commands = 0

\* Stop sets s.closed and closes the listener under one lock.
closed == main # "serving"
running == main # "exited"

\* The handlers that wg counts.
live == {c \in Conns : handler[c] \in {"reading", "leaving"} \cup Untimed \cup Timed}

-----------------------------------------------------------------------------
(* Clients and the network.                                                *)

Dial(c) ==
  /\ client[c] = "new"
  /\ ~closed
  /\ client' = [client EXCEPT ![c] = "open"]
  /\ UNCHANGED <<settings, handler, conns, shut, authed,
                 streams, topic, place, main, commands>>

Send(c) ==
  /\ client[c] = "open"
  /\ commands < MaxCommands
  /\ commands' = commands + 1
  /\ sock' = [sock EXCEPT ![c] = @ + 1]
  /\ UNCHANGED <<settings, client, handler, conns, shut,
                 authed, rbuf, part, wbuf, topic, place, main>>

Disconnect(c) ==
  /\ client[c] = "open"
  /\ client' = [client EXCEPT ![c] = "closed"]
  /\ UNCHANGED <<settings, handler, conns, shut, authed,
                 streams, topic, place, main, commands>>

-----------------------------------------------------------------------------
(* acceptLoop: one connection at a time.                                   *)

Accept(c) ==
  /\ running
  /\ ~closed
  /\ client[c] # "new"
  /\ handler[c] = "none"
  /\ \A d \in Conns : handler[d] \notin {"accepted", "registered"}
  /\ handler' = [handler EXCEPT ![c] = "accepted"]
  /\ UNCHANGED <<settings, client, conns, shut, authed,
                 streams, topic, place, main, commands>>

\* Slip: one client too many gets in.
RegisterOneMore(c) ==
  /\ running
  /\ handler[c] = "accepted"
  /\ \/ /\ maxClients > 0 /\ Cardinality(conns) > maxClients
        /\ handler' = [handler EXCEPT ![c] = "done"]
        /\ shut' = shut \cup {c}
        /\ UNCHANGED conns
     \/ /\ maxClients = 0 \/ Cardinality(conns) <= maxClients
        /\ handler' = [handler EXCEPT ![c] = "registered"]
        /\ conns' = conns \cup {c}
        /\ UNCHANGED shut
  /\ UNCHANGED <<settings, client, authed, streams, topic,
                 place, main, commands>>

\* With s.mu held; closed is not looked at.
Register(c) ==
  /\ running
  /\ handler[c] = "accepted"
  /\ \/ /\ maxClients > 0 /\ Cardinality(conns) >= maxClients
        /\ handler' = [handler EXCEPT ![c] = "done"]
        /\ shut' = shut \cup {c}
        /\ UNCHANGED conns
     \/ /\ maxClients = 0 \/ Cardinality(conns) < maxClients
        /\ handler' = [handler EXCEPT ![c] = "registered"]
        /\ conns' = conns \cup {c}
        /\ UNCHANGED shut
  /\ UNCHANGED <<settings, client, authed, streams, topic,
                 place, main, commands>>

\* wg.Add and the new goroutine.
StartHandler(c) ==
  /\ running
  /\ handler[c] = "registered"
  /\ handler' = [handler EXCEPT ![c] = "reading"]
  /\ authed' = IF password THEN authed ELSE authed \cup {c}
  /\ UNCHANGED <<settings, client, conns, shut, streams,
                 topic, place, main, commands>>

-----------------------------------------------------------------------------
(* handleConnection.                                                       *)

\* The reader needs more bytes: it gets some commands and perhaps the beginning
\* of the next one.
Fill(c) ==
  /\ running
  /\ handler[c] = "reading"
  /\ rbuf[c] = 0
  /\ c \notin shut
  /\ \E n \in 1..sock[c], cut \in BOOLEAN :
       /\ cut => n < sock[c]
       /\ rbuf' = [rbuf EXCEPT ![c] = n]
       /\ sock' = [sock EXCEPT ![c] = @ - n]
       /\ part' = [part EXCEPT ![c] = cut]
  /\ UNCHANGED <<settings, client, handler, conns, shut,
                 authed, wbuf, topic, place, main, commands>>

\* Where the messages are when the replies out are written to c.
Sent(c, out, pl) ==
  [m \in Messages |->
     IF m \in Range(out) /\ pl[m] = "reply"
     THEN IF client[c] = "open" /\ c \notin shut THEN "delivered" ELSE "lost"
     ELSE pl[m]]

\* Slip: every error leaves the loop past the flush.
RespondLazily(c, reply, rest, pl) ==
  LET out == Append(wbuf[c], reply)
      flush == rest = 0 /\ ~part[c] /\ reply \notin {"usage", "noauth"}
  IN  /\ rbuf' = [rbuf EXCEPT ![c] = rest]
      /\ wbuf' = [wbuf EXCEPT ![c] = IF flush THEN <<>> ELSE out]
      /\ place' = IF flush THEN Sent(c, out, pl) ELSE pl

\* A reply, and the flush at the end of the loop if Buffered() = 0; the command
\* has left the messages at pl, and rest commands follow it in the buffer.
Respond(c, reply, rest, pl) ==
  LET out == Append(wbuf[c], reply)
      flush == rest = 0 /\ ~part[c] /\ reply # "usage"
  IN  /\ rbuf' = [rbuf EXCEPT ![c] = rest]
      /\ wbuf' = [wbuf EXCEPT ![c] = IF flush THEN <<>> ELSE out]
      /\ place' = IF flush THEN Sent(c, out, pl) ELSE pl

\* The handler of c takes a command from its buffer, and it is cmd.
Takes(c, cmd) ==
  /\ running
  /\ handler[c] = "reading"
  /\ rbuf[c] > 0
  /\ cmd \in Commands

\* Slip: only a connection closed by the client ends the loop.
ReadErrorRetried(c) ==
  /\ \/ running /\ handler[c] = "reading" /\ rbuf[c] = 0 /\ client[c] = "closed"
     \/ Takes(c, "malformed")
  /\ handler' = [handler EXCEPT ![c] = "leaving"]
  /\ UNCHANGED <<settings, client, conns, shut, authed,
                 streams, topic, place, main, commands>>

\* ReadCommand fails: the connection is closed and no whole command is left in
\* the buffer, or what comes next is no command.  Nothing more is read: a reset
\* drops what the client had sent.
ReadError(c) ==
  /\ \/ /\ running
        /\ handler[c] = "reading"
        /\ rbuf[c] = 0
        /\ c \in shut \/ client[c] = "closed"
     \/ Takes(c, "malformed")
  /\ handler' = [handler EXCEPT ![c] = "leaving"]
  /\ UNCHANGED <<settings, client, conns, shut, authed,
                 streams, topic, place, main, commands>>

\* A command that only replies.
Answer(c, cmd, reply) ==
  /\ Takes(c, cmd)
  /\ Respond(c, reply, rbuf[c] - 1, place)
  /\ UNCHANGED <<settings, client, handler, conns, shut,
                 sock, part, topic, main, commands>>

NoAuth(c) ==
  /\ c \notin authed
  /\ \E cmd \in Commands \ {"auth", "quit", "malformed"} : Answer(c, cmd, "noauth")
  /\ UNCHANGED authed

Query(c) ==
  /\ c \in authed
  /\ Answer(c, "query", "ok")
  /\ UNCHANGED authed

UsageError(c) ==
  /\ c \in authed
  /\ Answer(c, "usage", "usage")
  /\ UNCHANGED authed

\* AUTH: a wrong password changes nothing, if one is set.
Auth(c) ==
  /\ Answer(c, "auth", "ok")
  /\ \/ authed' = authed \cup {c}
     \/ password /\ UNCHANGED authed

\* Errors of the publishes are not looked at: any part of the values may arrive.
Push(c) ==
  /\ c \in authed
  /\ Takes(c, "push")
  /\ \E S \in SUBSET {m \in Messages : place[m] = "new"} :
       /\ topic = "closed" => S = {}
       /\ Respond(c, "ok", rbuf[c] - 1,
                  [m \in Messages |-> IF m \in S THEN "queue" ELSE place[m]])
  /\ topic' = IF topic = "absent" THEN "open" ELSE topic
  /\ UNCHANGED <<settings, client, handler, conns, shut,
                 authed, sock, part, main, commands>>

queued == {m \in Messages : place[m] = "queue"}

\* The pop cmd of c gets a message: a group keeps it in its PEL.
Serve(c, cmd, rest) ==
  \E m \in queued :
    IF cmd \in Plain
    THEN Respond(c, m, rest, [place EXCEPT ![m] = "reply"])
    ELSE Respond(c, "ok", rest, [place EXCEPT ![m] = "pel"])

\* A pop: a topic that is absent or closed answers nil at once, except that
\* ConsumeGroup creates it; an empty one makes the handler wait.
Pop(c, cmd) ==
  LET rest == rbuf[c] - 1
      found == IF topic = "absent" /\ cmd \notin Plain THEN "open" ELSE topic
  IN  /\ c \in authed
      /\ Takes(c, cmd)
      /\ topic' = found
      /\ \/ /\ Serve(c, cmd, rest)
            /\ UNCHANGED handler
         \/ /\ queued = {}
            /\ found # "open"
            /\ Respond(c, "ok", rest, place)
            /\ UNCHANGED handler
         \/ /\ queued = {}
            /\ found = "open"
            /\ handler' = [handler EXCEPT ![c] = cmd]
            /\ rbuf' = [rbuf EXCEPT ![c] = rest]
            /\ UNCHANGED <<wbuf, place>>
      /\ UNCHANGED <<settings, client, conns, shut, authed,
                     sock, part, main, commands>>

\* PopWait returns: with a message, because the ring is closed, or in time.
PopReturns(c) ==
  /\ running
  /\ handler[c] \in Untimed \cup Timed
  /\ \/ Serve(c, handler[c], rbuf[c])
     \/ /\ queued = {}
        /\ topic = "closed" \/ handler[c] \in Timed
        /\ Respond(c, "ok", rbuf[c], place)
  /\ handler' = [handler EXCEPT ![c] = "reading"]
  /\ UNCHANGED <<settings, client, conns, shut, authed, sock,
                 part, topic, main, commands>>

\* XACK settles any number of pending messages, an unknown ID none; VMQ.NACK
\* queues a message again (Topic has the delay) or makes it a dead letter, and
\* VMQ.REPLAY queues that.
Settle(c) ==
  LET again == IF topic = "closed" THEN "lost" ELSE "queue"
      pending == {m \in Messages : place[m] = "pel"}
  IN  /\ c \in authed
      /\ Takes(c, "settle")
      /\ \/ \E S \in SUBSET pending :
              Respond(c, "ok", rbuf[c] - 1,
                      [m \in Messages |-> IF m \in S THEN "settled" ELSE place[m]])
         \/ \E m \in pending, to \in {again, "dead"} :
              Respond(c, "ok", rbuf[c] - 1, [place EXCEPT ![m] = to])
         \/ \E m \in Messages :
              /\ place[m] = "dead"
              /\ Respond(c, "ok", rbuf[c] - 1, [place EXCEPT ![m] = again])
      /\ UNCHANGED <<settings, client, handler, conns, shut, authed, sock, part,
                     topic, main, commands>>

\* QUIT replies and returns.
Quit(c) ==
  /\ Takes(c, "quit")
  /\ handler' = [handler EXCEPT ![c] = "leaving"]
  /\ rbuf' = [rbuf EXCEPT ![c] = @ - 1]
  /\ wbuf' = [wbuf EXCEPT ![c] = Append(@, "ok")]
  /\ UNCHANGED <<settings, client, conns, shut, authed, sock,
                 part, topic, place, main, commands>>

\* Slip: the connection is closed without a flush.
LeaveUnflushed(c) ==
  /\ running
  /\ handler[c] = "leaving"
  /\ handler' = [handler EXCEPT ![c] = "done"]
  /\ shut' = shut \cup {c}
  /\ conns' = conns \ {c}
  /\ UNCHANGED <<settings, client, authed, streams, topic,
                 place, main, commands>>

\* The deferred function: flush, close, then unregister and wg.Done.
Leave(c) ==
  /\ running
  /\ handler[c] = "leaving"
  /\ handler' = [handler EXCEPT ![c] = "done"]
  /\ place' = Sent(c, wbuf[c], place)
  /\ wbuf' = [wbuf EXCEPT ![c] = <<>>]
  /\ shut' = shut \cup {c}
  /\ conns' = conns \ {c}
  /\ UNCHANGED <<settings, client, authed, sock, rbuf, part,
                 topic, main, commands>>

-----------------------------------------------------------------------------
(* The shutdown in main: Server.Stop, the HTTP server's, Broker.Close.     *)

\* Server.Stop up to wg.Wait, with s.mu held.
Stop ==
  /\ main = "serving"
  /\ main' = "waiting"
  /\ shut' = shut \cup conns
  /\ UNCHANGED <<settings, client, handler, conns, authed, streams, topic,
                 place, commands>>

\* Slip: Stop does not wait for handlers that are inside a command.
StopReturnsEarly ==
  /\ main = "waiting"
  /\ \A c \in live : handler[c] \in Untimed \cup Timed
  /\ main' = "stopped"
  /\ UNCHANGED <<settings, client, handler, conns, shut,
                 authed, streams, topic, place, commands>>

\* wg.Wait returns.
StopReturns ==
  /\ main = "waiting"
  /\ live = {}
  /\ main' = "stopped"
  /\ UNCHANGED <<settings, client, handler, conns, shut,
                 authed, streams, topic, place, commands>>

\* Broker.Close, after the HTTP server has stopped or its five seconds are over.
CloseBroker ==
  /\ main = "stopped"
  /\ main' = "closed"
  /\ topic' = IF topic = "open" THEN "closed" ELSE topic
  /\ UNCHANGED <<settings, client, handler, conns, shut,
                 authed, streams, place, commands>>

\* main returns, and with it every goroutine ends.
Exit ==
  /\ main = "closed"
  /\ main' = "exited"
  /\ UNCHANGED <<settings, client, handler, conns, shut,
                 authed, streams, topic, place, commands>>

-----------------------------------------------------------------------------
Handle(c) ==
  \/ Fill(c)
  \/ ReadError(c)
  \/ NoAuth(c)
  \/ Query(c)
  \/ UsageError(c)
  \/ Auth(c)
  \/ Push(c)
  \/ \E cmd \in Untimed \cup Timed : Pop(c, cmd)
  \/ PopReturns(c)
  \/ Settle(c)
  \/ Quit(c)
  \/ Leave(c)

Next ==
  \/ \E c \in Conns :
       \/ Dial(c)
       \/ Send(c)
       \/ Disconnect(c)
       \/ Accept(c)
       \/ Register(c)
       \/ StartHandler(c)
       \/ Handle(c)
  \/ Stop
  \/ StopReturns
  \/ CloseBroker
  \/ Exit

Spec == Init /\ [][Next]_vars

(***************************************************************************)
(* Every handler, the accept loop and main run on, reads return what has   *)
(* arrived and timeouts pass.  Nobody has to connect, be accepted, send,   *)
(* disconnect or stop the server.                                          *)
(***************************************************************************)
Fairness ==
  /\ \A c \in Conns : WF_vars(Handle(c))
  /\ WF_vars(\E c \in Conns : Register(c) \/ StartHandler(c))
  /\ WF_vars(StopReturns \/ CloseBroker \/ Exit)

FairSpec == Spec /\ Fairness

-----------------------------------------------------------------------------
(* Properties.                                                             *)

Places == {"new", "queue", "reply", "delivered", "lost", "pel", "settled", "dead"}
Replies == {"ok", "usage", "noauth"} \cup Messages

\* Type invariant, with the limit on clients.
TypeOK ==
  /\ settings \in Settings
  /\ client \in [Conns -> {"new", "open", "closed"}]
  /\ handler \in [Conns -> {"none", "accepted", "registered", "reading", "leaving", "done"}
                          \cup Untimed \cup Timed]
  /\ conns \subseteq Conns /\ shut \subseteq Conns /\ authed \subseteq Conns
  /\ sock \in [Conns -> 0..MaxCommands] /\ rbuf \in [Conns -> 0..MaxCommands]
  /\ part \in [Conns -> BOOLEAN]
  /\ wbuf \in [Conns -> Seq(Replies)]
  /\ topic \in {"absent", "open", "closed"}
  /\ place \in [Messages -> Places]
  /\ main \in {"serving", "waiting", "stopped", "closed", "exited"}
  /\ commands \in 0..MaxCommands
  /\ live \subseteq conns
  /\ maxClients > 0 => Cardinality(conns) <= maxClients

\* A connection that acceptLoop has registered after Stop closed the others.
Late(c) == closed /\ c \in conns \ shut

(***************************************************************************)
(* A message that a pop has taken off the queue is in the buffer of one    *)
(* handler that is still there to flush it, until it is written: pipelined *)
(* commands, QUIT, errors, closed connections and Stop leave none behind.  *)
(***************************************************************************)
PoppedIsInHand ==
  \A m \in Messages :
    Cardinality({p \in live \X (1..MaxCommands) :
                   p[2] \in DOMAIN wbuf[p[1]] /\ wbuf[p[1]][p[2]] = m})
      = IF place[m] = "reply" THEN 1 ELSE 0

(***************************************************************************)
(* Once Stop has returned no command runs any more, although the accept    *)
(* loop may still start a handler: its connection is closed and it has     *)
(* nothing to execute.  The exception is a connection that was accepted    *)
(* before Stop and registered after it.                                    *)
(***************************************************************************)
StoppedServesNobody ==
  main \in {"stopped", "closed"} =>
    \A c \in live : Late(c) \/ (c \in shut /\ handler[c] \in {"reading", "leaving"} /\ rbuf[c] = 0)

\* The handler of c cannot go on before some other client sends a message.
Blocked(c) == handler[c] \in Untimed

(***************************************************************************)
(* Every reply is written in the end, even when the client pipelines and a *)
(* read ends in the middle of a command ("flushed only when the incoming   *)
(* command pipeline is drained", docs/wiki/Architecture-Deep-Dive.md:131), *)
(* unless its handler is blocked in a pop without timeout, or the last     *)
(* reply is a usage error, whose path goes past the flush: then that reply *)
(* and those before it wait for the client's next command.                 *)
(***************************************************************************)
RepliesAreWritten ==
  \A c \in Conns :
    (wbuf[c] # <<>>) ~> \/ wbuf[c] = <<>>
                       \/ Blocked(c)
                       \/ (wbuf[c][Len(wbuf[c])] = "usage" /\ rbuf[c] = 0 /\ sock[c] = 0)
                       \/ ~running

(***************************************************************************)
(* Stop returns, unless a handler is blocked in a pop without timeout or a *)
(* late connection is served: commands under way, pipelines and timed pops *)
(* end by themselves once the connections are closed.                      *)
(***************************************************************************)
StopReturnsUnlessHeld ==
  (main = "waiting") ~> (main # "waiting" \/ \E c \in Conns : Blocked(c) \/ Late(c))

(***************************************************************************)
(* "Stop closes the listener and gracefully disconnects active client      *)
(* sessions" (server.go:471): it disconnects them and returns, a late      *)
(* connection apart.  A pop without timeout does not notice that its       *)
(* connection is closed.                                                   *)
(***************************************************************************)
StopEnds == (main = "waiting") ~> (main # "waiting" \/ \E c \in Conns : Late(c))
=============================================================================
