------------------------- MODULE PipeTransportProps -------------------------
(***************************************************************************)
(* The transport implements PipeFifo, and what a caller may conclude from  *)
(* the answer it gets.                                                     *)
(***************************************************************************)
EXTENDS PipeTransport, SequencesExt

\* The payloads of s that belong to pipe p, in the order of s.
OfPipe(s, p) ==
  LET f[i \in 0..Len(s)] ==
        IF i = 0 THEN << >>
        ELSE IF s[i].pipe = p THEN Append(f[i - 1], s[i]) ELSE f[i - 1]
  IN  f[Len(s)]

\* The payloads of pipe p wherever they are: with the router that owns a
\* local pipe, or strung along the link of a pipe that crosses slots.
QueueOf(p) ==
  IF {p[1], p[2]} \subseteq DOMAIN coordinates
  THEN LET s == coordinates[p[1]]
           d == coordinates[p[2]]
       IN  IF s = d THEN localPipes[s][p]
           ELSE incoming[<<d, s>>][p] \o OfPipe(inRing[<<d, s>>], p)
                  \o OfPipe(outRing[<<s, d>>], p)
                  \o OfPipe(Unsent(<<s, d>>), p)
  ELSE << >>

Fifo == INSTANCE PipeFifo WITH queue <- [p \in Pipes |-> QueueOf(p)]

\* Router, gateways and proxies together implement one FIFO per pipe: a
\* write is appended when it is queued, a read takes the head, and no
\* crash, termination, retry or interleaving adds, drops or reorders.
ImplementsFifo == Fifo!FifoSpec

AtRing(g, m) ==
  m \in ToSet(outRing[g]) \cup ToSet(inRing[Opposite(g)])
          \cup ToSet(arrived[Opposite(g)])

AnsweredWrite(c) ==
  /\ phase[c] \in {"reply", "relay", "replied"} /\ req[c].op = "W"
  /\ ~Reject(c) /\ peer_for(c) # slot(c)

\* remotePipeWrite returns success only for a payload the gateway has put on
\* its ring: PendingWrite.done is set after OutSend.
OkMeansSubmitted ==
  \A c \in Clients :
    AnsweredWrite(c) /\ answer[c].status = "OK" =>
      AtRing(GatewayOf(c), MsgOf(c))

\* A write answered "ERR transport" is not on the wire and will never be:
\* stopping is only set by the Run loop, between two ForwardOneWrites.
ErrTransportMeansUnsent ==
  \A c \in Clients :
    AnsweredWrite(c) /\ answer[c].status = "ERR transport" =>
      /\ ~AtRing(GatewayOf(c), MsgOf(c))
      /\ gate[GatewayOf(c)] # "running"

\* A payload popped for a read reaches the program, unless the reader died
\* or its gateway went down between the pop and the reply.
LossNeedsFailure ==
  \A c \in alive :
    phase[c] = "idle" /\ (\A g \in Gateways : gate[g] # "exited") =>
      got[c] = taken[c]

\* No handler sleeps while what it waits for is there: every change that can
\* make a wait predicate true notifies, except stopping (see StopAnswers).
NoLostWakeup ==
  \A c \in asleep :
    /\ phase[c] = "localwait" => ~LocalMatch(c)
    /\ phase[c] = "rwait" => ~ReadMatch(c, GatewayOf(c))
    /\ phase[c] = "wwait" => MsgOf(c) \notin done

ReaderWaits(c) == phase[c] \in {"localwait", "rwait"}
HeadFits(c) ==
  /\ QueueOf(req[c].pipe) # << >>
  /\ Head(QueueOf(req[c].pipe)).size = req[c].size
\* The gateways of the link carry on; a local pipe has none.
LinkRuns(c) ==
  peer_for(c) # slot(c) =>
    \A g \in {GatewayOf(c), Opposite(GatewayOf(c))} :
      gate[g] = "running" /\ g \notin terminate

\* A write is answered, with or without a reader at the other end, unless a
\* gateway of its link stops: a full ring drains because incoming_ takes
\* everything.
WriteAnswered ==
  \A c \in Clients :
    phase[c] = "sent" /\ req[c].op = "W" ~>
      phase[c] = "idle" \/ (~Reject(c) /\ ~LinkRuns(c))

\* A blocked reader whose pipe holds a payload of its size at the head,
\* anywhere along the link, is served, unless a gateway of the link stops.
ReadServed ==
  \A c \in Clients :
    LET waits == ReaderWaits(c) /\ HeadFits(c) /\ LinkRuns(c)
    IN  waits ~> ~waits

\* A request caught at a gateway that stops is answered.  stopping wakes no
\* handler, and a reader that sleeps keeps main from returning: it is the
\* supervisor, which sees the ended proxy, that closes its connection.
StopAnswers ==
  \A c \in Clients :
    (/\ phase[c] \in {"atgateway", "wwait", "rwait", "reply"}
     /\ gate[GatewayOf(c)] = "stopping") ~> phase[c] = "idle"
=============================================================================
