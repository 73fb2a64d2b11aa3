--------------------------- MODULE PipeTransport ----------------------------
(***************************************************************************)
(* The PipeComm transport between LEGOSim workers.  A simulator calls      *)
(* remotePipeWrite or remotePipeRead (real/remote_pipe_comm.h); each call  *)
(* is one TCP connection to the router of its worker slot                  *)
(* (real/simbricks_pipe_router.py).  The router keeps the pipes whose two  *)
(* ends share its slot and forwards every other request to the gateway for *)
(* the peer slot (real/simbricks_pipe_gateway.cc).  A gateway carries      *)
(* writes to the opposite gateway through a bounded BaseIf ring, a pair of *)
(* net_sockets proxies and the opposite gateway's ring.                    *)
(*                                                                         *)
(* A payload is abstracted to the call that wrote it and its size.  TCP    *)
(* connections of one host are reliable; a connection is represented by    *)
(* the phase of the request it carries.                                    *)
(***************************************************************************)
EXTENDS Integers, Sequences, FiniteSets

CONSTANTS
  Coords,           \* chiplet coordinates "x,y"
  Slots,            \* worker slots
  coordinates,      \* coordinate_to_worker_slot of the routing file
  Pipes,            \* pipes: <<source coordinate, destination coordinate>>
  Clients,          \* simulator processes
  home,             \* home[c]: the chiplet that client c simulates
  Sizes,            \* byte counts a client may ask for
  MaxRequestBytes,  \* MAX_REQUEST_BYTES of the router
  RingEntries,      \* kEntryCount of the BaseIf rings
  MaxOps,           \* bound: requests per client
  MayDie,           \* clients that may disappear
  MayTerminate,     \* gateways whose proxy may send TERMINATE
  MayBeKilled,      \* gateways the supervisor may kill
  NoMsg             \* no payload

Gateways == {g \in Slots \X Slots : g[1] # g[2]}

ASSUME TransportAssumption ==
  /\ Pipes \subseteq Coords \X Coords
  /\ DOMAIN coordinates \subseteq Coords
  /\ coordinates \in [DOMAIN coordinates -> Slots]
  /\ home \in [Clients -> DOMAIN coordinates]
  /\ Pipes # {} /\ Sizes # {} /\ Sizes \subseteq Int
  /\ MaxRequestBytes \in Nat
  /\ RingEntries \in Nat \ {0}
  /\ MaxOps \in Nat
  /\ MayTerminate \subseteq Gateways

\* PendingWrite: the pipe and the payload; owner and k name the write call.
Msgs == [pipe : Pipes, owner : Clients, k : 1..MaxOps,
         size : Sizes]

ASSUME NoMsgAssumption == NoMsg \notin Msgs

VARIABLES
  ops,        \* ops[c]: requests client c has issued
  alive,      \* clients that have not disappeared
  req,        \* req[c]: the current (or last) request of client c
  phase,      \* phase[c]: how far that request has got
  answer,     \* answer[c]: the reply to it, once there is one
  asleep,     \* requests whose handler sleeps on a condition variable
  localPipes, \* localPipes[s][p]: Router.local_pipes of slot s
  outgoing,   \* outgoing[g]: Gateway.outgoing_
  done,       \* the PendingWrites whose done and success are set
  loop,       \* loop[g]: where the Run loop of g is inside ForwardOneWrite
  outRing,    \* outRing[g]: the BaseIf ring g sends on
  inRing,     \* inRing[g]: the BaseIf ring g receives on
  incoming,   \* incoming[g][p]: Gateway.incoming_
  gate,       \* gate[g]: running, stopping or exited
  terminate,  \* gateways with a TERMINATE behind the data of their inRing
  submitted,  \* history: the writes enqueued at g, in order
  arrived,    \* history: the payloads g has taken off its ring, in order
  taken,      \* history: the payloads popped for requests of client c
  got         \* history: the payloads remotePipeRead returned to client c

clientVars == <<ops, alive, req>>
gatewayVars == <<outgoing, done, loop, outRing, inRing, incoming, gate,
                 terminate, submitted, arrived>>
vars == <<ops, alive, req, phase, answer, asleep, localPipes, outgoing, done,
          loop, outRing, inRing, incoming, gate, terminate, submitted,
          arrived, taken, got>>

Phases == {"idle", "sent", "localwait", "atgateway", "wwait", "rwait",
           "reply", "relay", "replied"}
Requests == [op : {"W", "R"}, pipe : Pipes, size : Sizes]
Statuses == {"none", "OK", "ERR", "ERR transport", "ERR closed"}

NoAnswer == [status |-> "none", data |-> NoMsg]
Answers == [status : Statuses, data : Msgs \cup {NoMsg}]
Answer(status) == [status |-> status, data |-> NoMsg]
Payload(m) == [status |-> "OK", data |-> m]

slot(c) == coordinates[home[c]]
Opposite(g) == <<g[2], g[1]>>
\* The payload that the current write of client c carries.
MsgOf(c) == [pipe |-> req[c].pipe, owner |-> c, k |-> ops[c],
             size |-> req[c].size]

\* Router.peer_for: a write goes where the pipe ends, a read where it starts.
coordinateOf(op, p) == IF op = "W" THEN p[2] ELSE p[1]
placed(c) == coordinateOf(req[c].op, req[c].pipe) \in DOMAIN coordinates
peer_for(c) == coordinates[coordinateOf(req[c].op, req[c].pipe)]
GatewayOf(c) == <<slot(c), peer_for(c)>>

Reject(c) == \/ req[c].size < 0
             \/ req[c].size > MaxRequestBytes
             \/ ~placed(c)

\* Before the first call; never looked at.
NoRequest == CHOOSE r \in Requests : TRUE

Init ==
  /\ ops = [c \in Clients |-> 0]
  /\ alive = Clients
  /\ req = [c \in Clients |-> NoRequest]
  /\ phase = [c \in Clients |-> "idle"]
  /\ answer = [c \in Clients |-> NoAnswer]
  /\ asleep = {}
  /\ localPipes = [s \in Slots |-> [p \in Pipes |-> << >>]]
  /\ outgoing = [g \in Gateways |-> << >>]
  /\ done = {}
  /\ loop = [g \in Gateways |-> "poll"]
  /\ outRing = [g \in Gateways |-> << >>]
  /\ inRing = [g \in Gateways |-> << >>]
  /\ incoming = [g \in Gateways |-> [p \in Pipes |-> << >>]]
  /\ gate = [g \in Gateways |-> "running"]
  /\ terminate = {}
  /\ submitted = [g \in Gateways |-> << >>]
  /\ arrived = [g \in Gateways |-> << >>]
  /\ taken = [c \in Clients |-> << >>]
  /\ got = [c \in Clients |-> << >>]

-----------------------------------------------------------------------------
(* Clients: remotePipeWrite, remotePipeRead.                               *)

\* A client calls remotePipeWrite on a pipe that starts at its chiplet or
\* remotePipeRead on one that ends there, and blocks for the reply.
Call(c, op, p, n) ==
  /\ phase[c] = "idle" /\ c \in alive /\ ops[c] < MaxOps
  /\ home[c] = (IF op = "W" THEN p[1] ELSE p[2])
  /\ ops' = [ops EXCEPT ![c] = @ + 1]
  /\ req' = [req EXCEPT ![c] = [op |-> op, pipe |-> p, size |-> n]]
  /\ phase' = [phase EXCEPT ![c] = "sent"]
  /\ UNCHANGED <<alive, answer, asleep, localPipes, gatewayVars, taken, got>>

\* The reply line (and payload) is read, the connection closed, the call
\* returns.
Return(c) ==
  /\ phase[c] = "replied"
  /\ phase' = [phase EXCEPT ![c] = "idle"]
  /\ answer' = [answer EXCEPT ![c] = NoAnswer]
  /\ got' = [got EXCEPT ![c] =
               IF c \in alive /\ answer[c].data # NoMsg
               THEN Append(@, answer[c].data) ELSE @]
  /\ UNCHANGED <<clientVars, asleep, localPipes, gatewayVars, taken>>

\* The simulator dies; router and gateway only notice when they write to it.
Die(c) ==
  /\ c \in alive \cap MayDie
  /\ alive' = alive \ {c}
  /\ UNCHANGED <<ops, req, phase, answer, asleep, localPipes, gatewayVars,
                 taken, got>>

-----------------------------------------------------------------------------
(* Router.handle, handle_local and forward.                                *)

\* An unsupported size, an unplaced chiplet, or a client that went away
\* before all of its payload was sent (IncompleteReadError).
RouterReject(c) ==
  /\ phase[c] = "sent"
  /\ Reject(c) \/ c \notin alive
  /\ phase' = [phase EXCEPT ![c] = "replied"]
  /\ answer' = [answer EXCEPT ![c] = Answer("ERR")]
  /\ UNCHANGED <<clientVars, asleep, localPipes, gatewayVars, taken, got>>

LocalReaders(s) ==
  {c \in Clients : phase[c] = "localwait" /\ slot(c) = s}

\* Mutant: the payload is put at the front of the local pipe.
LocalWrite_Front(c) ==
  /\ phase[c] = "sent" /\ req[c].op = "W"
  /\ ~Reject(c) /\ peer_for(c) = slot(c)
  /\ localPipes' = [localPipes EXCEPT
                      ![slot(c)][req[c].pipe] = <<MsgOf(c)>> \o @]
  /\ asleep' = asleep \ LocalReaders(slot(c))
  /\ phase' = [phase EXCEPT ![c] = "replied"]
  /\ answer' = [answer EXCEPT ![c] = Answer("OK")]
  /\ UNCHANGED <<clientVars, gatewayVars, taken, got>>

\* Mutant: local_ready.notify_all is forgotten.
LocalWrite_Silent(c) ==
  /\ phase[c] = "sent" /\ req[c].op = "W"
  /\ ~Reject(c) /\ peer_for(c) = slot(c)
  /\ localPipes' = [localPipes EXCEPT
                      ![slot(c)][req[c].pipe] = Append(@, MsgOf(c))]
  /\ phase' = [phase EXCEPT ![c] = "replied"]
  /\ answer' = [answer EXCEPT ![c] = Answer("OK")]
  /\ UNCHANGED <<clientVars, asleep, gatewayVars, taken, got>>

LocalWrite(c) ==
  /\ phase[c] = "sent" /\ req[c].op = "W"
  /\ ~Reject(c) /\ peer_for(c) = slot(c)
  /\ localPipes' = [localPipes EXCEPT
                      ![slot(c)][req[c].pipe] = Append(@, MsgOf(c))]
  /\ asleep' = asleep \ LocalReaders(slot(c))
  /\ phase' = [phase EXCEPT ![c] = "replied"]
  /\ answer' = [answer EXCEPT ![c] = Answer("OK")]
  /\ UNCHANGED <<clientVars, gatewayVars, taken, got>>

LocalReadStart(c) ==
  /\ phase[c] = "sent" /\ req[c].op = "R"
  /\ ~Reject(c) /\ peer_for(c) = slot(c)
  /\ phase' = [phase EXCEPT ![c] = "localwait"]
  /\ UNCHANGED <<clientVars, answer, asleep, localPipes, gatewayVars, taken, got>>

\* The predicate of local_ready.wait_for.
LocalMatch(c) ==
  LET q == localPipes[slot(c)][req[c].pipe]
  IN  q # << >> /\ Head(q).size = req[c].size

LocalReadWait(c) ==
  /\ phase[c] = "localwait" /\ c \notin asleep
  /\ ~LocalMatch(c)
  /\ asleep' = asleep \cup {c}
  /\ UNCHANGED <<clientVars, phase, answer, localPipes, gatewayVars, taken, got>>

LocalRead(c) ==
  /\ phase[c] = "localwait" /\ c \notin asleep
  /\ LocalMatch(c)
  /\ LET q == localPipes[slot(c)][req[c].pipe]
     IN  /\ localPipes' = [localPipes EXCEPT
                             ![slot(c)][req[c].pipe] = Tail(q)]
         /\ answer' = [answer EXCEPT ![c] = Payload(Head(q))]
         /\ taken' = [taken EXCEPT ![c] = Append(@, Head(q))]
  /\ phase' = [phase EXCEPT ![c] = "replied"]
  /\ UNCHANGED <<clientVars, asleep, gatewayVars, got>>

\* open_connection to the gateway of the peer, header and payload sent.  A
\* gateway that is stopping has closed its listener or is about to.
Forward(c) ==
  /\ phase[c] = "sent"
  /\ ~Reject(c) /\ peer_for(c) # slot(c)
  /\ gate[GatewayOf(c)] \in {"running", "stopping"}
  /\ phase' = [phase EXCEPT ![c] = "atgateway"]
  /\ UNCHANGED <<clientVars, answer, asleep, localPipes, gatewayVars, taken, got>>

ForwardRefused(c) ==
  /\ phase[c] = "sent"
  /\ ~Reject(c) /\ peer_for(c) # slot(c)
  /\ gate[GatewayOf(c)] \in {"stopping", "exited"}
  /\ phase' = [phase EXCEPT ![c] = "replied"]
  /\ answer' = [answer EXCEPT ![c] = Answer("ERR")]
  /\ UNCHANGED <<clientVars, asleep, localPipes, gatewayVars, taken, got>>

\* Mutant: an empty reply line is passed on as it is.
Relay_Empty(c) ==
  /\ phase[c] = "relay"
  /\ phase' = [phase EXCEPT ![c] = "replied"]
  /\ answer' = [answer EXCEPT ![c].status = IF @ = "ERR closed" THEN "" ELSE @]
  /\ UNCHANGED <<clientVars, asleep, localPipes, gatewayVars, taken, got>>

\* Mutant: the reply line is passed on without the payload behind it.
Relay_LineOnly(c) ==
  /\ phase[c] = "relay"
  /\ phase' = [phase EXCEPT ![c] = "replied"]
  /\ answer' = [answer EXCEPT ![c].data = NoMsg]
  /\ UNCHANGED <<clientVars, asleep, localPipes, gatewayVars, taken, got>>

\* The gateway's reply is passed on; the empty line of a connection the
\* gateway closed without one becomes "ERR gateway closed connection".
Relay(c) ==
  /\ phase[c] = "relay"
  /\ phase' = [phase EXCEPT ![c] = "replied"]
  /\ UNCHANGED <<clientVars, answer, asleep, localPipes, gatewayVars, taken, got>>

-----------------------------------------------------------------------------
(* Gateway::HandleClient, one detached thread per connection.              *)

AtGateway(c, g, ph) ==
  phase[c] = ph /\ g = GatewayOf(c) /\ gate[g] # "exited"

\* Mutant: the write counts as done as soon as it is queued.
EnqueueWrite_Eager(c, g) ==
  /\ AtGateway(c, g, "atgateway") /\ req[c].op = "W"
  /\ outgoing' = [outgoing EXCEPT ![g] = Append(@, MsgOf(c))]
  /\ submitted' = [submitted EXCEPT ![g] = Append(@, MsgOf(c))]
  /\ done' = done \cup {MsgOf(c)}
  /\ phase' = [phase EXCEPT ![c] = "wwait"]
  /\ UNCHANGED <<clientVars, answer, asleep, localPipes, loop, outRing,
                 inRing, incoming, gate, terminate, arrived, taken, got>>

EnqueueWrite(c, g) ==
  /\ AtGateway(c, g, "atgateway") /\ req[c].op = "W"
  /\ outgoing' = [outgoing EXCEPT ![g] = Append(@, MsgOf(c))]
  /\ submitted' = [submitted EXCEPT ![g] = Append(@, MsgOf(c))]
  /\ phase' = [phase EXCEPT ![c] = "wwait"]
  /\ UNCHANGED <<clientVars, answer, asleep, localPipes, done, loop, outRing,
                 inRing, incoming, gate, terminate, arrived, taken, got>>

ReadStart(c, g) ==
  /\ AtGateway(c, g, "atgateway") /\ req[c].op = "R"
  /\ phase' = [phase EXCEPT ![c] = "rwait"]
  /\ UNCHANGED <<clientVars, answer, asleep, localPipes, gatewayVars, taken, got>>

\* The predicates of the two condition-variable waits.
WriteReady(c, g) == MsgOf(c) \in done \/ gate[g] = "stopping"
ReadMatch(c, g) ==
  LET q == incoming[g][req[c].pipe]
  IN  q # << >> /\ Head(q).size = req[c].size
ReadReady(c, g) == gate[g] = "stopping" \/ ReadMatch(c, g)

HandlerWait(c, g) ==
  /\ c \notin asleep
  /\ \/ AtGateway(c, g, "wwait") /\ ~WriteReady(c, g)
     \/ AtGateway(c, g, "rwait") /\ ~ReadReady(c, g)
  /\ asleep' = asleep \cup {c}
  /\ UNCHANGED <<clientVars, phase, answer, localPipes, gatewayVars, taken, got>>

\* A condition variable may return without a notification.
SpuriousWakeup(c, g) ==
  /\ c \in asleep
  /\ AtGateway(c, g, "wwait") \/ AtGateway(c, g, "rwait")
  /\ asleep' = asleep \ {c}
  /\ UNCHANGED <<clientVars, phase, answer, localPipes, gatewayVars, taken, got>>

\* Mutant: stopping_ is looked at before done.
WriteFinish_StopFirst(c, g) ==
  /\ AtGateway(c, g, "wwait") /\ c \notin asleep
  /\ WriteReady(c, g)
  /\ phase' = [phase EXCEPT ![c] = "reply"]
  /\ answer' = [answer EXCEPT ![c] =
       Answer(IF gate[g] = "stopping" THEN "ERR transport" ELSE "OK")]
  /\ UNCHANGED <<clientVars, asleep, localPipes, gatewayVars, taken, got>>

WriteFinish(c, g) ==
  /\ AtGateway(c, g, "wwait") /\ c \notin asleep
  /\ WriteReady(c, g)
  /\ phase' = [phase EXCEPT ![c] = "reply"]
  /\ answer' = [answer EXCEPT ![c] =
                  Answer(IF MsgOf(c) \in done THEN "OK" ELSE "ERR transport")]
  /\ UNCHANGED <<clientVars, asleep, localPipes, gatewayVars, taken, got>>

\* The payload is popped under the lock and sent after it is released.
ReadPop(c, g) ==
  /\ AtGateway(c, g, "rwait") /\ c \notin asleep
  /\ gate[g] # "stopping" /\ ReadMatch(c, g)
  /\ LET q == incoming[g][req[c].pipe]
     IN  /\ incoming' = [incoming EXCEPT ![g][req[c].pipe] = Tail(q)]
         /\ answer' = [answer EXCEPT ![c] = Payload(Head(q))]
         /\ taken' = [taken EXCEPT ![c] = Append(@, Head(q))]
  /\ phase' = [phase EXCEPT ![c] = "reply"]
  /\ UNCHANGED <<clientVars, asleep, localPipes, outgoing, done, loop,
                 outRing, inRing, gate, terminate, submitted, arrived,
                 got>>

\* A read that wakes up while the gateway stops closes without a reply.
ReadAbandon(c, g) ==
  /\ AtGateway(c, g, "rwait") /\ c \notin asleep
  /\ gate[g] = "stopping"
  /\ phase' = [phase EXCEPT ![c] = "relay"]
  /\ answer' = [answer EXCEPT ![c] = Answer("ERR closed")]
  /\ UNCHANGED <<clientVars, asleep, localPipes, gatewayVars, taken, got>>

SendReply(c, g) ==
  /\ AtGateway(c, g, "reply")
  /\ phase' = [phase EXCEPT ![c] = "relay"]
  /\ UNCHANGED <<clientVars, answer, asleep, localPipes, gatewayVars, taken, got>>

-----------------------------------------------------------------------------
(* Gateway::Run: the polling loop, and the proxies between two gateways.   *)

Polling(g) == gate[g] = "running" /\ loop[g] = "poll"

\* ForwardOneWrite looks at the front of outgoing_ and drops the lock.
ForwardPeek(g) ==
  /\ Polling(g) /\ outgoing[g] # << >>
  /\ loop' = [loop EXCEPT ![g] = "peeked"]
  /\ UNCHANGED <<clientVars, phase, answer, asleep, localPipes, outgoing,
                 done, outRing, inRing, incoming, gate, terminate, submitted,
                 arrived, taken, got>>

\* Mutant: a write that finds the ring full is dropped.
ForwardFull_Drop(g) ==
  /\ gate[g] = "running" /\ loop[g] = "peeked"
  /\ Len(outRing[g]) = RingEntries
  /\ loop' = [loop EXCEPT ![g] = "poll"]
  /\ outgoing' = [outgoing EXCEPT ![g] = Tail(@)]
  /\ UNCHANGED <<clientVars, phase, answer, asleep, localPipes,
                 done, outRing, inRing, incoming, gate, terminate, submitted,
                 arrived, taken, got>>

\* OutAlloc returns no entry: the write stays queued for the next round.
ForwardFull(g) ==
  /\ gate[g] = "running" /\ loop[g] = "peeked"
  /\ Len(outRing[g]) = RingEntries
  /\ loop' = [loop EXCEPT ![g] = "poll"]
  /\ UNCHANGED <<clientVars, phase, answer, asleep, localPipes, outgoing,
                 done, outRing, inRing, incoming, gate, terminate, submitted,
                 arrived, taken, got>>

\* The frame is filled from the write peeked at and OutSend publishes it.
ForwardSend(g) ==
  /\ gate[g] = "running" /\ loop[g] = "peeked"
  /\ Len(outRing[g]) < RingEntries
  /\ outRing' = [outRing EXCEPT ![g] = Append(@, Head(outgoing[g]))]
  /\ loop' = [loop EXCEPT ![g] = "sent"]
  /\ UNCHANGED <<clientVars, phase, answer, asleep, localPipes, outgoing,
                 done, inRing, incoming, gate, terminate, submitted, arrived,
                 taken, got>>

\* Mutant: the write is left at the front of outgoing_ and sent again.
ForwardComplete_Resend(g) ==
  /\ gate[g] = "running" /\ loop[g] = "sent"
  /\ done' = done \cup {Head(outgoing[g])}
  /\ asleep' = asleep \ {Head(outgoing[g]).owner}
  /\ loop' = [loop EXCEPT ![g] = "poll"]
  /\ UNCHANGED <<clientVars, phase, answer, localPipes, outgoing, outRing,
                 inRing, incoming, gate, terminate, submitted, arrived, taken,
                 got>>

\* Mutant: pending->ready.notify_one is forgotten.
ForwardComplete_Silent(g) ==
  /\ gate[g] = "running" /\ loop[g] = "sent"
  /\ outgoing' = [outgoing EXCEPT ![g] = Tail(@)]
  /\ done' = done \cup {Head(outgoing[g])}
  /\ loop' = [loop EXCEPT ![g] = "poll"]
  /\ UNCHANGED <<clientVars, phase, answer, asleep, localPipes, outRing,
                 inRing, incoming, gate, terminate, submitted, arrived, taken,
                 got>>

\* The lock is taken again, the write popped, marked done and notified.
ForwardComplete(g) ==
  /\ gate[g] = "running" /\ loop[g] = "sent"
  /\ outgoing' = [outgoing EXCEPT ![g] = Tail(@)]
  /\ done' = done \cup {Head(outgoing[g])}
  /\ asleep' = asleep \ {Head(outgoing[g]).owner}
  /\ loop' = [loop EXCEPT ![g] = "poll"]
  /\ UNCHANGED <<clientVars, phase, answer, localPipes, outRing, inRing,
                 incoming, gate, terminate, submitted, arrived, taken, got>>

RemoteReaders(g) == {c \in Clients : phase[c] = "rwait" /\ g = GatewayOf(c)}

\* Mutant: incoming_ready_.notify_all is forgotten.
Receive_Silent(g) ==
  /\ Polling(g) /\ inRing[g] # << >>
  /\ LET m == Head(inRing[g])
     IN  /\ incoming' = [incoming EXCEPT ![g][m.pipe] = Append(@, m)]
         /\ arrived' = [arrived EXCEPT ![g] = Append(@, m)]
  /\ inRing' = [inRing EXCEPT ![g] = Tail(@)]
  /\ UNCHANGED <<clientVars, phase, answer, asleep, localPipes, outgoing, done,
                 loop, outRing, gate, terminate, submitted, taken, got>>

\* One round of the loop of ReceiveAll on a data entry.
Receive(g) ==
  /\ Polling(g) /\ inRing[g] # << >>
  /\ LET m == Head(inRing[g])
     IN  /\ incoming' = [incoming EXCEPT ![g][m.pipe] = Append(@, m)]
         /\ arrived' = [arrived EXCEPT ![g] = Append(@, m)]
  /\ inRing' = [inRing EXCEPT ![g] = Tail(@)]
  /\ asleep' = asleep \ RemoteReaders(g)
  /\ UNCHANGED <<clientVars, phase, answer, localPipes, outgoing, done, loop,
                 outRing, gate, terminate, submitted, taken, got>>

\* ReceiveAll meets TERMINATE: stopping is set and nobody is notified.
ReceiveTerminate(g) ==
  /\ Polling(g) /\ inRing[g] = << >> /\ g \in terminate
  /\ gate' = [gate EXCEPT ![g] = "stopping"]
  /\ UNCHANGED <<clientVars, phase, answer, asleep, localPipes, outgoing,
                 done, loop, outRing, inRing, incoming, terminate, submitted,
                 arrived, taken, got>>

\* The process ends and its connections close: requests still at the gateway
\* are answered with "ERR gateway closed connection" by their router.
Close(g) ==
  LET left == {c \in Clients :
                 /\ phase[c] \in {"atgateway", "wwait", "rwait", "reply"}
                 /\ g = GatewayOf(c)}
  IN  /\ gate' = [gate EXCEPT ![g] = "exited"]
      /\ phase' = [c \in Clients |-> IF c \in left THEN "relay" ELSE phase[c]]
      /\ answer' = [c \in Clients |->
                      IF c \in left THEN Answer("ERR closed") ELSE answer[c]]
      /\ asleep' = asleep \ left
      /\ UNCHANGED <<clientVars, localPipes, outgoing, done, loop, outRing,
                     inRing, incoming, terminate, submitted, arrived, taken, got>>

\* Run returns after TERMINATE: the listener is shut down, the acceptor is
\* joined and main returns.  The handlers are detached and nobody notified
\* them; ~Gateway destroys incoming_ready_, which pthread_cond_destroy does
\* not finish while a reader still sleeps on it.
Exit(g) ==
  /\ gate[g] = "stopping"
  /\ \A c \in asleep : phase[c] = "rwait" => g # GatewayOf(c)
  /\ Close(g)

\* Mutant: the end of a proxy does not bring the gateways down.
Kill_Unwatched(g) ==
  /\ g \in MayBeKilled /\ gate[g] # "exited"
  /\ Close(g)

\* The supervisor terminates the gateway process: with the worker, or because
\* its watch loop has seen that the proxy which sent TERMINATE is gone.
Kill(g) ==
  /\ g \in MayBeKilled \cup terminate /\ gate[g] # "exited"
  /\ Close(g)

\* External: the two net_sockets proxies move one entry to the other host.
ProxyMove(g) ==
  /\ outRing[g] # << >>
  /\ Len(inRing[Opposite(g)]) < RingEntries /\ Opposite(g) \notin terminate
  /\ inRing' = [inRing EXCEPT ![Opposite(g)] = Append(@, Head(outRing[g]))]
  /\ outRing' = [outRing EXCEPT ![g] = Tail(@)]
  /\ UNCHANGED <<clientVars, phase, answer, asleep, localPipes, outgoing,
                 done, loop, incoming, gate, terminate, submitted, arrived,
                 taken, got>>

\* External: the proxy of g closes its end with a last TERMINATE entry.
ProxyTerminate(g) ==
  /\ g \in MayTerminate \ terminate
  /\ terminate' = terminate \cup {g}
  /\ UNCHANGED <<clientVars, phase, answer, asleep, localPipes, outgoing,
                 done, loop, outRing, inRing, incoming, gate, submitted,
                 arrived, taken, got>>

-----------------------------------------------------------------------------
Client(c) ==
  \/ \E op \in {"W", "R"}, p \in Pipes, n \in Sizes : Call(c, op, p, n)
  \/ Die(c)

RouterStep(c) ==
  \/ RouterReject(c) \/ LocalWrite(c) \/ LocalReadStart(c)
  \/ LocalReadWait(c) \/ LocalRead(c)
  \/ Forward(c) \/ ForwardRefused(c) \/ Relay(c)

HandlerStep(c, g) ==
  \/ EnqueueWrite(c, g) \/ ReadStart(c, g) \/ HandlerWait(c, g)
  \/ WriteFinish(c, g) \/ ReadPop(c, g) \/ ReadAbandon(c, g)
  \/ SendReply(c, g)

ForwardOneWrite(g) ==
  ForwardPeek(g) \/ ForwardFull(g) \/ ForwardSend(g) \/ ForwardComplete(g)

ReceiveAll(g) == Receive(g) \/ ReceiveTerminate(g)

Next ==
  \/ \E c \in Clients : Client(c) \/ Return(c) \/ RouterStep(c)
  \/ \E c \in Clients, g \in Gateways :
       HandlerStep(c, g) \/ SpuriousWakeup(c, g)
  \/ \E g \in Gateways :
       \/ ForwardOneWrite(g) \/ ReceiveAll(g) \/ Exit(g) \/ Kill(g)
       \/ ProxyMove(g) \/ ProxyTerminate(g)

Spec == Init /\ [][Next]_vars

\* The event loop runs every ready task, the kernel runs every thread, the
\* Run loop alternates ForwardOneWrite and ReceiveAll, the proxies poll, and
\* the supervisor polls its proxies.  Nothing obliges a client to call or to
\* die, a proxy to terminate, a supervisor to kill without such a reason, or
\* a condition variable to wake up spuriously.
Fairness ==
  /\ \A c \in Clients : WF_vars(Return(c)) /\ WF_vars(RouterStep(c))
  /\ \A c \in Clients, g \in Gateways : WF_vars(HandlerStep(c, g))
  /\ \A g \in Gateways : /\ WF_vars(ForwardOneWrite(g))
                         /\ WF_vars(ReceiveAll(g))
                         /\ WF_vars(Exit(g))
                         /\ WF_vars(g \in terminate /\ Kill(g))
                         /\ WF_vars(ProxyMove(g))

FairSpec == Spec /\ Fairness

-----------------------------------------------------------------------------
(* What is checked.                                                        *)

TypeOK ==
  /\ ops \in [Clients -> 0..MaxOps]
  /\ alive \subseteq Clients
  /\ req \in [Clients -> Requests]
  /\ phase \in [Clients -> Phases]
  /\ answer \in [Clients -> Answers]
  /\ asleep \subseteq Clients
  /\ localPipes \in [Slots -> [Pipes -> Seq(Msgs)]]
  /\ outgoing \in [Gateways -> Seq(Msgs)]
  /\ done \subseteq Msgs
  /\ loop \in [Gateways -> {"poll", "peeked", "sent"}]
  /\ outRing \in [Gateways -> Seq(Msgs)]
  /\ inRing \in [Gateways -> Seq(Msgs)]
  /\ incoming \in [Gateways -> [Pipes -> Seq(Msgs)]]
  /\ gate \in [Gateways -> {"running", "stopping", "exited"}]
  /\ terminate \subseteq Gateways
  /\ submitted \in [Gateways -> Seq(Msgs)]
  /\ arrived \in [Gateways -> Seq(Msgs)]
  /\ taken \in [Clients -> Seq(Msgs)]
  /\ got \in [Clients -> Seq(Msgs)]

\* Strengthening of TypeOK: a request under way is one that was counted.
CallInv == \A c \in Clients : phase[c] # "idle" => ops[c] >= 1

\* The write that ForwardOneWrite works on is the front of outgoing_: other
\* threads only append, and only this loop pops.
LoopInv == \A g \in Gateways : loop[g] # "poll" => outgoing[g] # << >>

\* The writes queued at gateway g whose frame is not yet on the ring.
Unsent(g) == IF loop[g] = "sent" THEN Tail(outgoing[g]) ELSE outgoing[g]

\* Between enqueueing at one gateway and arrival at the opposite one nothing
\* is lost, duplicated or reordered, whatever fails in between: the writes
\* submitted are those that arrived, then those on the two rings, then those
\* still queued (outgoing_ is only popped after OutSend; InPoll consumes).
LinkFifo ==
  \A g \in Gateways :
    submitted[g] = arrived[Opposite(g)] \o inRing[Opposite(g)]
                     \o outRing[g] \o Unsent(g)
=============================================================================
