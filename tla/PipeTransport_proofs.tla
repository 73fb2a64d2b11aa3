------------------------ MODULE PipeTransport_proofs ------------------------
(***************************************************************************)
(* Proofs about the transport for any placement, any number of slots,      *)
(* pipes and clients, any ring size and any failures: its types, the order *)
(* of its links, what a caller may conclude from an answer, that no        *)
(* handler sleeps through its wake-up, and that router, gateways, rings    *)
(* and proxies implement one FIFO per pipe.                                *)
(***************************************************************************)
EXTENDS PipeTransportProps, SequenceTheorems, WellFoundedInduction, TLAPS

USE TransportAssumption

LEMMA GatewayPairs == \A g \in Gateways : Opposite(g) \in Gateways
  BY DEF Gateways, Opposite

LEMMA MsgOfType ==
  ASSUME TypeOK, CallInv, NEW c \in Clients, phase[c] # "idle"
  PROVE  MsgOf(c) \in Msgs
  BY DEF TypeOK, CallInv, MsgOf, Msgs, Requests

LEMMA InitType == Init => TypeOK /\ CallInv /\ LoopInv
<1> SUFFICES ASSUME Init PROVE TypeOK /\ CallInv /\ LoopInv
  OBVIOUS
<1>1. NoRequest \in Requests
  <2>1. \E r : r \in Requests
    <3>1. PICK p \in Pipes, n \in Sizes : TRUE
      OBVIOUS
    <3>2. [op |-> "W", pipe |-> p, size |-> n] \in Requests
      BY <3>1 DEF Requests
    <3> QED BY <3>2
  <2> QED BY <2>1 DEF NoRequest
<1>2. NoAnswer \in Answers
  BY DEF NoAnswer, Answers, Statuses
<1> QED BY <1>1, <1>2 DEF Init, TypeOK, CallInv, LoopInv, Phases

(***************************************************************************)
(* Type correctness.  TypeOK is not inductive alone: MsgOf(c) is a payload *)
(* only for a request that was issued, and ForwardSend and ForwardComplete *)
(* take the head of outgoing_, so CallInv and LoopInv go with it.          *)
(***************************************************************************)
TypeInv == TypeOK /\ CallInv /\ LoopInv

LEMMA TypeStep == TypeInv /\ [Next]_vars => TypeInv'
<1> SUFFICES ASSUME TypeInv, [Next]_vars PROVE TypeInv'
  OBVIOUS
<1> USE DEF TypeInv, TypeOK, CallInv, LoopInv, clientVars, gatewayVars
<1>1. ASSUME NEW c \in Clients, NEW op \in {"W", "R"}, NEW p \in Pipes,
            NEW n \in Sizes, Call(c, op, p, n)
     PROVE  TypeInv'
  <2>1. ops[c] + 1 \in 0..MaxOps /\ ops[c] + 1 >= 1
    BY <1>1 DEF Call
  <2>2. ops' \in [Clients -> 0..MaxOps]
    BY <1>1, <2>1 DEF Call
  <2>3. req' \in [Clients -> Requests]
    BY <1>1 DEF Call, Requests
  <2>4. TypeOK'
    BY <1>1, <2>2, <2>3 DEF Call, Phases
  <2>5. CallInv' /\ LoopInv'
    BY <1>1, <2>1 DEF Call, Phases
  <2> QED BY <2>4, <2>5
<1>2. ASSUME NEW c \in Clients, Return(c) PROVE TypeInv'
  <2>1. answer[c].data # NoMsg => Append(got[c], answer[c].data) \in Seq(Msgs)
    BY DEF Answers
  <2>2. got' \in [Clients -> Seq(Msgs)]
    BY <1>2, <2>1 DEF Return
  <2> QED BY <1>2, <2>2 DEF Return, NoAnswer, Answers, Statuses, Phases
<1>3. ASSUME NEW c \in Clients, Die(c) PROVE TypeInv'
  BY <1>3 DEF Die
<1>4. ASSUME NEW c \in Clients, RouterReject(c) PROVE TypeInv'
  BY <1>4 DEF RouterReject, Answer, Answers, Statuses, Phases
<1>5. ASSUME NEW c \in Clients, LocalWrite(c) PROVE TypeInv'
  <2>1. slot(c) \in Slots /\ req[c].pipe \in Pipes
    BY DEF slot, Requests
  <2>4. MsgOf(c) \in Msgs
    BY <1>5, MsgOfType DEF LocalWrite
  <2>2. Append(localPipes[slot(c)][req[c].pipe], MsgOf(c)) \in Seq(Msgs)
    BY <2>1, <2>4
  <2>3. localPipes' \in [Slots -> [Pipes -> Seq(Msgs)]]
    BY <1>5, <2>1, <2>2 DEF LocalWrite
  <2> QED
    BY <1>5, <2>3 DEF LocalWrite, Answer, Answers, Statuses, Phases
<1>6. ASSUME NEW c \in Clients, LocalReadStart(c) PROVE TypeInv'
  BY <1>6 DEF LocalReadStart, Phases
<1>7. ASSUME NEW c \in Clients, LocalReadWait(c) PROVE TypeInv'
  BY <1>7 DEF LocalReadWait
<1>8. ASSUME NEW c \in Clients, LocalRead(c) PROVE TypeInv'
  <2> DEFINE q == localPipes[slot(c)][req[c].pipe]
  <2>1. slot(c) \in Slots /\ req[c].pipe \in Pipes
    BY DEF slot, Requests
  <2>2. q \in Seq(Msgs) /\ q # << >>
    BY <1>8, <2>1 DEF LocalRead, LocalMatch
  <2>3. /\ Head(q) \in Msgs /\ Tail(q) \in Seq(Msgs)
        /\ Append(taken[c], Head(q)) \in Seq(Msgs)
    <3>1. PICK s \in Seq(Msgs) : s = q /\ s # << >>
      BY ONLY <2>2
    <3>2. Head(s) \in Msgs /\ Tail(s) \in Seq(Msgs)
      BY ONLY <3>1
    <3>3. taken[c] \in Seq(Msgs)
      OBVIOUS
    <3>4. Append(taken[c], Head(s)) \in Seq(Msgs)
      BY ONLY <3>2, <3>3
    <3> QED BY ONLY <3>1, <3>2, <3>4
  <2>4. localPipes' \in [Slots -> [Pipes -> Seq(Msgs)]]
    BY <1>8, <2>1, <2>3 DEF LocalRead
  <2>5. answer' \in [Clients -> Answers] /\ taken' \in [Clients -> Seq(Msgs)]
    BY <1>8, <2>3 DEF LocalRead, Payload, Answers, Statuses
  <2> QED BY <1>8, <2>4, <2>5 DEF LocalRead, Phases
<1>9. ASSUME NEW c \in Clients, Forward(c) PROVE TypeInv'
  BY <1>9 DEF Forward, Phases
<1>10. ASSUME NEW c \in Clients, ForwardRefused(c) PROVE TypeInv'
  BY <1>10 DEF ForwardRefused, Answer, Answers, Statuses, Phases
<1>11. ASSUME NEW c \in Clients, Relay(c) PROVE TypeInv'
  BY <1>11 DEF Relay, Phases
<1>12. ASSUME NEW c \in Clients, NEW g \in Gateways, EnqueueWrite(c, g)
     PROVE  TypeInv'
  <2>4. MsgOf(c) \in Msgs
    BY <1>12, MsgOfType DEF EnqueueWrite, AtGateway
  <2>5. outgoing[g] \in Seq(Msgs) /\ submitted[g] \in Seq(Msgs)
    OBVIOUS
  <2>1. /\ Append(outgoing[g], MsgOf(c)) \in Seq(Msgs)
        /\ Append(outgoing[g], MsgOf(c)) # << >>
        /\ Append(submitted[g], MsgOf(c)) \in Seq(Msgs)
    BY ONLY <2>4, <2>5, AppendProperties
  <2>2. /\ outgoing' \in [Gateways -> Seq(Msgs)]
        /\ submitted' \in [Gateways -> Seq(Msgs)]
    BY <1>12, <2>1 DEF EnqueueWrite
  <2>3. LoopInv'
    BY <1>12, <2>1 DEF EnqueueWrite
  <2> QED BY <1>12, <2>2, <2>3 DEF EnqueueWrite, AtGateway, Phases
<1>13. ASSUME NEW c \in Clients, NEW g \in Gateways, ReadStart(c, g)
     PROVE  TypeInv'
  BY <1>13 DEF ReadStart, AtGateway, Phases
<1>14. ASSUME NEW c \in Clients, NEW g \in Gateways, HandlerWait(c, g)
     PROVE  TypeInv'
  BY <1>14 DEF HandlerWait
<1>15. ASSUME NEW c \in Clients, NEW g \in Gateways, SpuriousWakeup(c, g)
     PROVE  TypeInv'
  BY <1>15 DEF SpuriousWakeup
<1>16. ASSUME NEW c \in Clients, NEW g \in Gateways, WriteFinish(c, g)
     PROVE  TypeInv'
  BY <1>16 DEF WriteFinish, AtGateway, Answer, Answers, Statuses, Phases
<1>17. ASSUME NEW c \in Clients, NEW g \in Gateways, ReadPop(c, g)
     PROVE  TypeInv'
  <2> DEFINE q == incoming[g][req[c].pipe]
  <2>1. req[c].pipe \in Pipes
    BY DEF Requests
  <2>2. q \in Seq(Msgs) /\ q # << >>
    BY <1>17, <2>1, SMTT(30) DEF ReadPop, ReadMatch
  <2>3. /\ Head(q) \in Msgs /\ Tail(q) \in Seq(Msgs)
        /\ Append(taken[c], Head(q)) \in Seq(Msgs)
    <3>1. PICK s \in Seq(Msgs) : s = q /\ s # << >>
      BY ONLY <2>2
    <3>2. Head(s) \in Msgs /\ Tail(s) \in Seq(Msgs)
      BY ONLY <3>1
    <3>3. taken[c] \in Seq(Msgs)
      OBVIOUS
    <3>4. Append(taken[c], Head(s)) \in Seq(Msgs)
      BY ONLY <3>2, <3>3
    <3> QED BY ONLY <3>1, <3>2, <3>4
  <2>4. incoming' \in [Gateways -> [Pipes -> Seq(Msgs)]]
    BY <1>17, <2>1, <2>3 DEF ReadPop
  <2>5. answer' \in [Clients -> Answers] /\ taken' \in [Clients -> Seq(Msgs)]
    BY <1>17, <2>3 DEF ReadPop, Payload, Answers, Statuses
  <2> QED BY <1>17, <2>4, <2>5 DEF ReadPop, AtGateway, Phases
<1>18. ASSUME NEW c \in Clients, NEW g \in Gateways, ReadAbandon(c, g)
     PROVE  TypeInv'
  BY <1>18 DEF ReadAbandon, AtGateway, Answer, Answers, Statuses, Phases
<1>19. ASSUME NEW c \in Clients, NEW g \in Gateways, SendReply(c, g)
     PROVE  TypeInv'
  BY <1>19 DEF SendReply, AtGateway, Phases
<1>20. ASSUME NEW g \in Gateways, ForwardPeek(g) PROVE TypeInv'
  BY <1>20 DEF ForwardPeek
<1>21. ASSUME NEW g \in Gateways, ForwardFull(g) PROVE TypeInv'
  BY <1>21 DEF ForwardFull
<1>22. ASSUME NEW g \in Gateways, ForwardSend(g) PROVE TypeInv'
  <2>1. Head(outgoing[g]) \in Msgs
    BY <1>22 DEF ForwardSend
  <2>2. Append(outRing[g], Head(outgoing[g])) \in Seq(Msgs)
    BY <2>1
  <2> QED BY <1>22, <2>2 DEF ForwardSend
<1>23. ASSUME NEW g \in Gateways, ForwardComplete(g) PROVE TypeInv'
  BY <1>23 DEF ForwardComplete
<1>24. ASSUME NEW g \in Gateways, Receive(g) PROVE TypeInv'
  <2> DEFINE m == Head(inRing[g])
  <2>1. m \in Msgs /\ m.pipe \in Pipes /\ Tail(inRing[g]) \in Seq(Msgs)
    <3>1. m \in Msgs /\ Tail(inRing[g]) \in Seq(Msgs)
      BY <1>24 DEF Receive
    <3> QED BY <3>1 DEF Msgs
  <2>2. /\ Append(incoming[g][m.pipe], m) \in Seq(Msgs)
        /\ Append(arrived[g], m) \in Seq(Msgs)
    BY <2>1
  <2>3. incoming' \in [Gateways -> [Pipes -> Seq(Msgs)]]
    BY <1>24, <2>1, <2>2 DEF Receive
  <2>4. /\ inRing' \in [Gateways -> Seq(Msgs)]
        /\ arrived' \in [Gateways -> Seq(Msgs)]
    BY <1>24, <2>1, <2>2 DEF Receive
  <2> QED BY <1>24, <2>3, <2>4 DEF Receive
<1>25. ASSUME NEW g \in Gateways, ReceiveTerminate(g) PROVE TypeInv'
  BY <1>25 DEF ReceiveTerminate
<1>26. ASSUME NEW g \in Gateways, Exit(g) PROVE TypeInv'
  BY <1>26 DEF Exit, Close, Answer, Answers, Statuses, Phases
<1>27. ASSUME NEW g \in Gateways, Kill(g) PROVE TypeInv'
  BY <1>27 DEF Kill, Close, Answer, Answers, Statuses, Phases
<1>28. ASSUME NEW g \in Gateways, ProxyMove(g) PROVE TypeInv'
  <2>1. Head(outRing[g]) \in Msgs /\ Tail(outRing[g]) \in Seq(Msgs)
    BY <1>28 DEF ProxyMove
  <2>2. Append(inRing[Opposite(g)], Head(outRing[g])) \in Seq(Msgs)
    BY <2>1, GatewayPairs
  <2>3. /\ inRing' \in [Gateways -> Seq(Msgs)]
        /\ outRing' \in [Gateways -> Seq(Msgs)]
    BY <1>28, <2>1, <2>2 DEF ProxyMove
  <2> QED BY <1>28, <2>3 DEF ProxyMove
<1>29. ASSUME NEW g \in Gateways, ProxyTerminate(g) PROVE TypeInv'
  BY <1>29 DEF ProxyTerminate
<1>30. CASE UNCHANGED vars
  BY <1>30 DEF vars
<1> QED
  BY <1>1, <1>2, <1>3, <1>4, <1>5, <1>6, <1>7, <1>8, <1>9, <1>10,
     <1>11, <1>12, <1>13, <1>14, <1>15, <1>16, <1>17, <1>18, <1>19, <1>20,
     <1>21, <1>22, <1>23, <1>24, <1>25, <1>26, <1>27, <1>28, <1>29, <1>30
  DEF Next, Client, RouterStep, HandlerStep, ForwardOneWrite, ReceiveAll

\* Every variable of the transport keeps its type in every behaviour.
THEOREM TypeCorrect == Spec => []TypeOK
<1>1. Init => TypeInv
  BY InitType DEF TypeInv
<1>2. TypeInv => TypeOK
  BY DEF TypeInv
<1> QED BY <1>1, <1>2, TypeStep, PTL DEF Spec

(***************************************************************************)
(* The link between two gateways is a FIFO.                                *)
(***************************************************************************)

\* An element moved from the head of one sequence to the end of the one
\* before it leaves their concatenation as it was.
LEMMA MoveHead ==
  ASSUME NEW s \in Seq(Msgs), NEW t \in Seq(Msgs), t # << >>
  PROVE  Append(s, Head(t)) \o Tail(t) = s \o t
<1>0. PICK x \in Msgs, r \in Seq(Msgs) : x = Head(t) /\ r = Tail(t)
  BY HeadTailProperties
<1>1. /\ x = Head(t) /\ r = Tail(t) /\ Len(t) = Len(r) + 1 /\ x = t[1]
      /\ \A i \in 1..Len(r) : r[i] = t[i + 1]
  BY <1>0
<1>2. <<x>> \o r \in Seq(Msgs) /\ Len(<<x>> \o r) = Len(t)
  BY <1>1
<1>3. ASSUME NEW i \in 1..Len(<<x>> \o r) PROVE (<<x>> \o r)[i] = t[i]
  <2>1. CASE i = 1
    BY <1>1, <2>1
  <2>2. CASE i # 1
    <3>1. i - 1 \in 1..Len(r) /\ (i - 1) + 1 = i
      BY <1>1, <1>2, <2>2
    <3>2. r[i - 1] = t[i]
      BY <1>1, <3>1
    <3> QED BY <1>1, <3>1, <3>2
  <2> QED BY <2>1, <2>2
<1>4. <<x>> \o r = t
  BY <1>2, <1>3, SeqEqual
<1>5. PICK one \in Seq(Msgs) : one = <<x>>
  <2>1. <<x>> \in Seq(Msgs)
    BY ONLY x \in Msgs
  <2> QED BY ONLY <2>1, Zenon
<1>6. Append(s, x) = s \o one
  BY <1>5, AppendIsConcat
<1>7. (s \o one) \o r = s \o (one \o r)
  BY ONLY s \in Seq(Msgs), one \in Seq(Msgs), r \in Seq(Msgs), ConcatAssociative
<1> QED BY ONLY <1>1, <1>4, <1>5, <1>6, <1>7

\* The same behind a third sequence.
LEMMA MoveAcross ==
  ASSUME NEW r \in Seq(Msgs), NEW s \in Seq(Msgs), NEW t \in Seq(Msgs),
         t # << >>
  PROVE  r \o Append(s, Head(t)) \o Tail(t) = r \o s \o t
<1>1. Head(t) \in Msgs /\ r \o s \in Seq(Msgs)
  OBVIOUS
<1>2. r \o Append(s, Head(t)) = Append(r \o s, Head(t))
  BY <1>1
<1>3. Append(r \o s, Head(t)) \o Tail(t) = (r \o s) \o t
  BY <1>1, MoveHead
<1> QED BY <1>2, <1>3

\* Two gateways with the same opposite are the same.
LEMMA OppositeInjective ==
  \A g, h \in Gateways : Opposite(g) = Opposite(h) => g = h
  BY DEF Gateways, Opposite

linkVars == <<submitted, arrived, inRing, outRing, outgoing, loop>>

LEMMA LinkUnchanged == LinkFifo /\ UNCHANGED linkVars => LinkFifo'
  BY DEF LinkFifo, Unsent, linkVars

\* The parts of the link of g are sequences of payloads.
LEMMA LinkParts ==
  ASSUME TypeInv, NEW g \in Gateways
  PROVE  /\ Opposite(g) \in Gateways
         /\ submitted[g] \in Seq(Msgs)
         /\ arrived[Opposite(g)] \in Seq(Msgs)
         /\ inRing[Opposite(g)] \in Seq(Msgs)
         /\ outRing[g] \in Seq(Msgs)
         /\ outgoing[g] \in Seq(Msgs)
         /\ Unsent(g) \in Seq(Msgs)
         /\ loop[g] # "poll" => outgoing[g] # << >>
  BY GatewayPairs DEF TypeInv, TypeOK, LoopInv, Unsent

LEMMA LinkStep == TypeInv /\ LinkFifo /\ [Next]_vars => LinkFifo'
<1> SUFFICES ASSUME TypeInv, LinkFifo, [Next]_vars PROVE LinkFifo'
  OBVIOUS
<1>1. ASSUME NEW c \in Clients, NEW g \in Gateways, EnqueueWrite(c, g)
      PROVE  LinkFifo'
  <2> SUFFICES ASSUME NEW h \in Gateways
               PROVE  submitted'[h] = arrived'[Opposite(h)]
                        \o inRing'[Opposite(h)] \o outRing'[h] \o Unsent(h)'
    BY DEF LinkFifo
  <2>1. MsgOf(c) \in Msgs
    BY <1>1, MsgOfType DEF EnqueueWrite, AtGateway, TypeInv
  <2>2. CASE h # g
    BY <1>1, <2>2, GatewayPairs
    DEF EnqueueWrite, LinkFifo, Unsent, TypeInv, TypeOK
  <2>3. CASE h = g
    <3> DEFINE r == arrived[Opposite(g)] \o inRing[Opposite(g)] \o outRing[g]
    <3>1. r \in Seq(Msgs) /\ Unsent(g) \in Seq(Msgs)
      BY LinkParts
    <3>2. /\ submitted'[g] = Append(submitted[g], MsgOf(c))
          /\ outgoing'[g] = Append(outgoing[g], MsgOf(c))
          /\ loop' = loop
      BY <1>1 DEF EnqueueWrite, TypeInv, TypeOK
    <3>3. Unsent(g)' = Append(Unsent(g), MsgOf(c))
      BY <2>1, <3>2, LinkParts, HeadTailAppend DEF Unsent
    <3>4. submitted[g] = r \o Unsent(g)
      BY DEF LinkFifo
    <3>5. submitted'[g] = r \o Unsent(g)'
      <4> HIDE DEF r
      <4>1. Append(r \o Unsent(g), MsgOf(c)) = r \o Append(Unsent(g), MsgOf(c))
        BY ONLY <2>1, <3>1
      <4> QED BY <3>2, <3>3, <3>4, <4>1
    <3> QED BY <1>1, <2>3, <3>5 DEF EnqueueWrite
  <2> QED BY <2>2, <2>3
<1>2. ASSUME NEW g \in Gateways, ForwardPeek(g) \/ ForwardFull(g)
      PROVE  LinkFifo'
  BY <1>2 DEF ForwardPeek, ForwardFull, Polling, LinkFifo, Unsent, TypeInv,
              TypeOK
<1>3. ASSUME NEW g \in Gateways, ForwardSend(g) PROVE LinkFifo'
  <2> SUFFICES ASSUME NEW h \in Gateways
               PROVE  submitted'[h] = arrived'[Opposite(h)]
                        \o inRing'[Opposite(h)] \o outRing'[h] \o Unsent(h)'
    BY DEF LinkFifo
  <2>1. CASE h # g
    BY <1>3, <2>1, GatewayPairs
    DEF ForwardSend, LinkFifo, Unsent, TypeInv, TypeOK
  <2>2. CASE h = g
    <3> DEFINE r == arrived[Opposite(g)] \o inRing[Opposite(g)]
    <3>1. /\ r \in Seq(Msgs) /\ outRing[g] \in Seq(Msgs)
          /\ outgoing[g] \in Seq(Msgs) /\ outgoing[g] # << >>
      BY <1>3, LinkParts DEF ForwardSend
    <3>2. Unsent(g) = outgoing[g] /\ Unsent(g)' = Tail(outgoing[g])
      BY <1>3 DEF ForwardSend, Unsent, TypeInv, TypeOK
    <3>3. outRing'[g] = Append(outRing[g], Head(outgoing[g]))
      BY <1>3 DEF ForwardSend, TypeInv, TypeOK
    <3>5. r \o outRing'[g] \o Unsent(g)' = r \o outRing[g] \o Unsent(g)
      <4> HIDE DEF r
      <4>1. r \o Append(outRing[g], Head(outgoing[g])) \o Tail(outgoing[g])
              = r \o outRing[g] \o outgoing[g]
        BY ONLY <3>1, MoveAcross
      <4> QED BY <3>2, <3>3, <4>1
    <3> QED BY <1>3, <2>2, <3>5 DEF ForwardSend, LinkFifo
  <2> QED BY <2>1, <2>2
<1>4. ASSUME NEW g \in Gateways, ForwardComplete(g) PROVE LinkFifo'
  BY <1>4 DEF ForwardComplete, LinkFifo, Unsent, TypeInv, TypeOK
<1>5. ASSUME NEW g \in Gateways, Receive(g) PROVE LinkFifo'
  <2> SUFFICES ASSUME NEW h \in Gateways
               PROVE  submitted'[h] = arrived'[Opposite(h)]
                        \o inRing'[Opposite(h)] \o outRing'[h] \o Unsent(h)'
    BY DEF LinkFifo
  <2>1. CASE Opposite(h) # g
    BY <1>5, <2>1, GatewayPairs
    DEF Receive, LinkFifo, Unsent, TypeInv, TypeOK
  <2>2. CASE Opposite(h) = g
    <3>1. /\ arrived[g] \in Seq(Msgs) /\ inRing[g] \in Seq(Msgs)
          /\ inRing[g] # << >>
      BY <1>5 DEF Receive, TypeInv, TypeOK
    <3>2. /\ arrived'[g] = Append(arrived[g], Head(inRing[g]))
          /\ inRing'[g] = Tail(inRing[g])
      BY <1>5 DEF Receive, TypeInv, TypeOK
    <3>3. arrived'[g] \o inRing'[g] = arrived[g] \o inRing[g]
      BY <3>1, <3>2, MoveHead
    <3> QED BY <1>5, <2>2, <3>3 DEF Receive, LinkFifo, Unsent
  <2> QED BY <2>1, <2>2
<1>6. ASSUME NEW g \in Gateways, ProxyMove(g) PROVE LinkFifo'
  <2> SUFFICES ASSUME NEW h \in Gateways
               PROVE  submitted'[h] = arrived'[Opposite(h)]
                        \o inRing'[Opposite(h)] \o outRing'[h] \o Unsent(h)'
    BY DEF LinkFifo
  <2>1. CASE h # g
    BY <1>6, <2>1, OppositeInjective, GatewayPairs
    DEF ProxyMove, LinkFifo, Unsent, TypeInv, TypeOK
  <2>2. CASE h = g
    <3> DEFINE o == Opposite(g)
    <3>1. /\ arrived[o] \in Seq(Msgs) /\ inRing[o] \in Seq(Msgs)
          /\ outRing[g] \in Seq(Msgs) /\ outRing[g] # << >>
          /\ o \in Gateways
      BY <1>6, LinkParts DEF ProxyMove
    <3>2. /\ inRing'[o] = Append(inRing[o], Head(outRing[g]))
          /\ outRing'[g] = Tail(outRing[g])
      BY <1>6, <3>1 DEF ProxyMove, TypeInv, TypeOK
    <3>4. arrived[o] \o inRing'[o] \o outRing'[g]
            = arrived[o] \o inRing[o] \o outRing[g]
      <4> HIDE DEF o
      <4>1. arrived[o] \o Append(inRing[o], Head(outRing[g])) \o Tail(outRing[g])
              = arrived[o] \o inRing[o] \o outRing[g]
        BY ONLY <3>1, MoveAcross
      <4> QED BY <3>2, <4>1
    <3> QED BY <1>6, <2>2, <3>4 DEF ProxyMove, LinkFifo, Unsent
  <2> QED BY <2>1, <2>2
<1>7. CASE UNCHANGED linkVars
  BY <1>7, LinkUnchanged
<1>8. CASE UNCHANGED vars
  BY <1>8, LinkUnchanged DEF vars, linkVars
<1>9. ASSUME NEW c \in Clients, Client(c) \/ Return(c) \/ RouterStep(c)
      PROVE  UNCHANGED linkVars
  BY <1>9 DEF linkVars, gatewayVars, Client, Call, Die, Return, RouterStep,
     RouterReject, LocalWrite, LocalReadStart, LocalReadWait, LocalRead,
     Forward, ForwardRefused, Relay
<1>10. ASSUME NEW c \in Clients, NEW g \in Gateways,
              HandlerStep(c, g) \/ SpuriousWakeup(c, g), ~EnqueueWrite(c, g)
       PROVE  UNCHANGED linkVars
  BY <1>10 DEF linkVars, gatewayVars, HandlerStep, SpuriousWakeup, ReadStart,
     HandlerWait, WriteFinish, ReadPop, ReadAbandon, SendReply
<1>11. ASSUME NEW g \in Gateways,
              ReceiveTerminate(g) \/ Exit(g) \/ Kill(g) \/ ProxyTerminate(g)
       PROVE  UNCHANGED linkVars
  BY <1>11 DEF linkVars, ReceiveTerminate, Exit, Kill, Close, ProxyTerminate
<1> QED
  BY <1>1, <1>2, <1>3, <1>4, <1>5, <1>6, <1>7, <1>8, <1>9, <1>10, <1>11
  DEF Next, ForwardOneWrite, ReceiveAll

\* Whatever fails, the writes submitted to a gateway reach the opposite one
\* without loss, duplication or reordering, as far as they reach it.
THEOREM LinkIsFifo == Spec => []LinkFifo
<1>1. Init => TypeInv /\ LinkFifo
  <2>1. Init => TypeInv
    BY InitType DEF TypeInv
  <2>2. ASSUME Init PROVE LinkFifo
    BY <2>2, GatewayPairs, ConcatEmptySeq DEF Init, LinkFifo, Unsent
  <2> QED BY <2>1, <2>2
<1>2. TypeInv /\ LinkFifo /\ [Next]_vars => (TypeInv /\ LinkFifo)'
  BY TypeStep, LinkStep
<1> QED BY <1>1, <1>2, PTL DEF Spec

-----------------------------------------------------------------------------
(* What an answer means to a caller.                                       *)

LEMMA ToSetAppend ==
  ASSUME NEW S, NEW s \in Seq(S), NEW e \in S
  PROVE  ToSet(Append(s, e)) = ToSet(s) \cup {e}
<1>1. /\ Len(Append(s, e)) = Len(s) + 1 /\ Len(s) \in Nat
      /\ DOMAIN s = 1..Len(s) /\ DOMAIN Append(s, e) = 1..Len(s) + 1
      /\ \A i \in 1..Len(s) : Append(s, e)[i] = s[i]
      /\ Append(s, e)[Len(s) + 1] = e
  OBVIOUS
<1>2. ASSUME NEW x \in ToSet(Append(s, e)) PROVE x \in ToSet(s) \cup {e}
  BY <1>1, <1>2 DEF ToSet
<1>3. ASSUME NEW x \in ToSet(s) \cup {e} PROVE x \in ToSet(Append(s, e))
  <2>1. CASE x = e
    BY <1>1, <2>1 DEF ToSet
  <2>2. CASE x \in ToSet(s)
    <3>1. PICK i \in 1..Len(s) : x = s[i]
      BY <1>1, <2>2 DEF ToSet
    <3>2. i \in DOMAIN Append(s, e) /\ x = Append(s, e)[i]
      BY <1>1, <3>1
    <3> QED BY <3>2 DEF ToSet
  <2> QED BY <1>3, <2>1, <2>2
<1> QED BY <1>2, <1>3

LEMMA ToSetHeadTail ==
  ASSUME NEW S, NEW s \in Seq(S), s # << >>
  PROVE  /\ Head(s) \in ToSet(s)
         /\ ToSet(s) = {Head(s)} \cup ToSet(Tail(s))
<1>1. /\ Len(s) \in Nat \ {0} /\ DOMAIN s = 1..Len(s)
      /\ DOMAIN Tail(s) = 1..Len(s) - 1 /\ Head(s) = s[1]
      /\ \A i \in 1..Len(s) - 1 : Tail(s)[i] = s[i + 1]
  OBVIOUS
<1>2. ASSUME NEW x \in ToSet(s) PROVE x \in {Head(s)} \cup ToSet(Tail(s))
  <2>1. PICK i \in 1..Len(s) : x = s[i]
    BY <1>1, <1>2 DEF ToSet
  <2>2. CASE i # 1
    <3>1. i - 1 \in DOMAIN Tail(s) /\ x = Tail(s)[i - 1]
      BY <1>1, <2>1, <2>2
    <3> QED BY <3>1 DEF ToSet
  <2> QED BY <1>1, <2>1, <2>2
<1>3. ASSUME NEW x \in ToSet(Tail(s)) PROVE x \in ToSet(s)
  <2>1. PICK i \in 1..Len(s) - 1 : x = Tail(s)[i]
    BY <1>1, <1>3 DEF ToSet
  <2>2. i + 1 \in DOMAIN s /\ x = s[i + 1]
    BY <1>1, <2>1
  <2> QED BY <2>2 DEF ToSet
<1>4. Head(s) \in ToSet(s)
  BY <1>1 DEF ToSet
<1> QED BY <1>2, <1>3, <1>4

(***************************************************************************)
(* What is on the wire of a link only grows, and only by ForwardSend.      *)
(***************************************************************************)
LEMMA RingStep ==
  ASSUME TypeInv, [Next]_vars, NEW g \in Gateways, NEW m
  PROVE  /\ AtRing(g, m) => AtRing(g, m)'
         /\ AtRing(g, m)' => \/ AtRing(g, m)
                             \/ ForwardSend(g) /\ m = Head(outgoing[g])
         /\ ForwardSend(g) /\ m = Head(outgoing[g]) => AtRing(g, m)'
<1> DEFINE o == Opposite(g)
           Kept == AtRing(g, m)' <=> AtRing(g, m)
<1>0. o \in Gateways /\ Opposite(o) = g
  BY DEF Gateways, Opposite
<1>1. ASSUME ForwardSend(g)
      PROVE  AtRing(g, m)' <=> AtRing(g, m) \/ m = Head(outgoing[g])
  <2>1. outRing[g] \in Seq(Msgs) /\ Head(outgoing[g]) \in Msgs
    BY <1>1, LinkParts DEF ForwardSend
  <2>2. outRing'[g] = Append(outRing[g], Head(outgoing[g]))
    BY <1>1 DEF ForwardSend, TypeInv, TypeOK
  <2>3. ToSet(outRing'[g]) = ToSet(outRing[g]) \cup {Head(outgoing[g])}
    BY <2>1, <2>2, ToSetAppend
  <2> QED BY <1>1, <2>3 DEF AtRing, ForwardSend
<1>2. ASSUME NEW h \in Gateways, h # g, ForwardSend(h) PROVE Kept
  BY <1>2 DEF ForwardSend, TypeInv, TypeOK, AtRing
<1>3. ASSUME NEW h \in Gateways, Receive(h) PROVE Kept
  <2>1. CASE h = o
    <3>1. /\ inRing[o] \in Seq(Msgs) /\ inRing[o] # << >>
          /\ arrived[o] \in Seq(Msgs)
      BY <1>3, <2>1, LinkParts DEF Receive
    <3>2. /\ arrived'[o] = Append(arrived[o], Head(inRing[o]))
          /\ inRing'[o] = Tail(inRing[o]) /\ outRing' = outRing
      BY <1>0, <1>3, <2>1 DEF Receive, TypeInv, TypeOK
    <3>3. /\ ToSet(arrived'[o]) = ToSet(arrived[o]) \cup {Head(inRing[o])}
          /\ ToSet(inRing[o]) = {Head(inRing[o])} \cup ToSet(inRing'[o])
      <4> HIDE DEF o
      <4> QED BY <3>1, <3>2, ToSetAppend, ToSetHeadTail
    <3> QED BY <3>2, <3>3 DEF AtRing
  <2>2. CASE h # o
    BY <1>0, <1>3, <2>2 DEF Receive, TypeInv, TypeOK, AtRing
  <2> QED BY <2>1, <2>2
<1>4. ASSUME NEW h \in Gateways, ProxyMove(h) PROVE Kept
  <2>1. CASE h = g
    <3>1. /\ outRing[g] \in Seq(Msgs) /\ outRing[g] # << >>
          /\ inRing[o] \in Seq(Msgs)
      BY <1>4, <2>1, LinkParts DEF ProxyMove
    <3>2. /\ inRing'[o] = Append(inRing[o], Head(outRing[g]))
          /\ outRing'[g] = Tail(outRing[g]) /\ arrived' = arrived
      BY <1>0, <1>4, <2>1 DEF ProxyMove, TypeInv, TypeOK
    <3>3. /\ ToSet(inRing'[o]) = ToSet(inRing[o]) \cup {Head(outRing[g])}
          /\ ToSet(outRing[g]) = {Head(outRing[g])} \cup ToSet(outRing'[g])
      <4> HIDE DEF o
      <4> QED BY <3>1, <3>2, ToSetAppend, ToSetHeadTail
    <3> QED BY <3>2, <3>3 DEF AtRing
  <2>2. CASE h # g
    <3>1. Opposite(h) # o
      BY <2>2, OppositeInjective
    <3>2. /\ outRing'[g] = outRing[g] /\ inRing'[o] = inRing[o]
          /\ arrived' = arrived
      BY <1>0, <1>4, <2>2, <3>1, GatewayPairs DEF ProxyMove, TypeInv, TypeOK
    <3> QED BY <3>2 DEF AtRing
  <2> QED BY <2>1, <2>2
<1>5. ASSUME UNCHANGED <<outRing, inRing, arrived>> PROVE Kept
  BY <1>5 DEF AtRing
<1>6. ASSUME NEW c \in Clients, Client(c) \/ Return(c) \/ RouterStep(c)
      PROVE  UNCHANGED <<outRing, inRing, arrived>>
  BY <1>6 DEF gatewayVars, Client, Call, Die, Return, RouterStep,
     RouterReject, LocalWrite, LocalReadStart, LocalReadWait, LocalRead,
     Forward, ForwardRefused, Relay
<1>7. ASSUME NEW c \in Clients, NEW h \in Gateways,
             HandlerStep(c, h) \/ SpuriousWakeup(c, h)
      PROVE  UNCHANGED <<outRing, inRing, arrived>>
  BY <1>7 DEF gatewayVars, HandlerStep, SpuriousWakeup, EnqueueWrite,
     ReadStart, HandlerWait, WriteFinish, ReadPop, ReadAbandon, SendReply
<1>8. ASSUME NEW h \in Gateways,
             \/ ForwardPeek(h) \/ ForwardFull(h) \/ ForwardComplete(h)
             \/ ReceiveTerminate(h) \/ Exit(h) \/ Kill(h) \/ ProxyTerminate(h)
      PROVE  UNCHANGED <<outRing, inRing, arrived>>
  BY <1>8 DEF ForwardPeek, ForwardFull, ForwardComplete, ReceiveTerminate,
     Exit, Kill, Close, ProxyTerminate
<1>9. ASSUME UNCHANGED vars PROVE Kept
  BY <1>5, <1>9 DEF vars
<1>10. ForwardSend(g) \/ Kept
  BY <1>2, <1>3, <1>4, <1>5, <1>6, <1>7, <1>8, <1>9
  DEF Next, ForwardOneWrite, ReceiveAll
<1> QED BY <1>1, <1>10

(***************************************************************************)
(* What done says of the wire.                                             *)
(***************************************************************************)

\* The gateway that a payload of a pipe between two slots goes through.
Route(m) == <<coordinates[home[m.owner]], coordinates[m.pipe[2]]>>

\* The Run loop stops between two ForwardOneWrites, never inside one.
StopsBetween == \A g \in Gateways : gate[g] = "stopping" => loop[g] = "poll"

\* A payload on the wire is marked done, or is the one just sent.
WireIsDone ==
  \A g \in Gateways, m \in Msgs :
    AtRing(g, m) => m \in done \/ (loop[g] = "sent" /\ m = Head(outgoing[g]))

SentIsOnWire ==
  \A g \in Gateways : loop[g] = "sent" => AtRing(g, Head(outgoing[g]))

QueuedIsRouted ==
  \A g \in Gateways : \A m \in ToSet(outgoing[g]) : g = Route(m)

DoneIsOnWire == \A m \in done : Route(m) \in Gateways /\ AtRing(Route(m), m)

WireInv ==
  StopsBetween /\ WireIsDone /\ SentIsOnWire /\ QueuedIsRouted /\ DoneIsOnWire

LEMMA WireInit == Init => WireInv
  BY GatewayPairs
  DEF Init, WireInv, StopsBetween, WireIsDone, SentIsOnWire, QueuedIsRouted,
      DoneIsOnWire, AtRing, ToSet

LEMMA RouteOfWrite ==
  ASSUME NEW c \in Clients, req[c].op = "W"
  PROVE  GatewayOf(c) = Route(MsgOf(c))
  BY DEF GatewayOf, Route, MsgOf, slot, peer_for, coordinateOf

LEMMA WireStep == TypeInv /\ WireInv /\ [Next]_vars => WireInv'
<1> SUFFICES ASSUME TypeInv, WireInv, [Next]_vars PROVE WireInv'
  OBVIOUS
<1> USE DEF WireInv, StopsBetween, WireIsDone, SentIsOnWire, QueuedIsRouted,
            DoneIsOnWire
<1>0. \A g \in Gateways :
        /\ gate[g] \in {"running", "stopping", "exited"}
        /\ outgoing[g] \in Seq(Msgs)
        /\ loop[g] # "poll" => /\ outgoing[g] # << >>
                               /\ Head(outgoing[g]) \in Msgs
                               /\ Head(outgoing[g]) \in ToSet(outgoing[g])
  <2> SUFFICES ASSUME NEW g \in Gateways, loop[g] # "poll"
               PROVE  /\ outgoing[g] # << >>
                      /\ Head(outgoing[g]) \in Msgs
                      /\ Head(outgoing[g]) \in ToSet(outgoing[g])
    BY DEF TypeInv, TypeOK
  <2>1. outgoing[g] \in Seq(Msgs) /\ outgoing[g] # << >>
    BY LinkParts
  <2>2. Head(outgoing[g]) \in Msgs
    BY <2>1
  <2> QED BY <2>1, <2>2, ToSetHeadTail
<1>1. ASSUME UNCHANGED <<gate, loop, outgoing, done>> PROVE WireInv'
  <2>1. \A g \in Gateways : ~ForwardSend(g)
    BY <1>1 DEF ForwardSend, TypeInv, TypeOK
  <2>2. \A g \in Gateways : \A m : AtRing(g, m)' <=> AtRing(g, m)
    BY <2>1, RingStep
  <2> QED BY <1>1, <2>2
<1>2. ASSUME NEW c \in Clients, NEW g \in Gateways, EnqueueWrite(c, g)
      PROVE  WireInv'
  <2>1. MsgOf(c) \in Msgs
    BY <1>2, MsgOfType DEF EnqueueWrite, AtGateway, TypeInv
  <2>2. g = Route(MsgOf(c))
    BY <1>2, RouteOfWrite DEF EnqueueWrite, AtGateway
  <2>3. /\ UNCHANGED <<gate, loop, done, outRing, inRing, arrived>>
        /\ outgoing'[g] = Append(outgoing[g], MsgOf(c))
        /\ \A h \in Gateways : h # g => outgoing'[h] = outgoing[h]
    BY <1>2 DEF EnqueueWrite, TypeInv, TypeOK
  <2>4. \A h \in Gateways : \A m : AtRing(h, m)' <=> AtRing(h, m)
    BY <2>3 DEF AtRing
  <2>5. loop[g] # "poll" => Head(outgoing'[g]) = Head(outgoing[g])
    BY <1>0, <2>1, <2>3
  <2>6. ToSet(outgoing'[g]) = ToSet(outgoing[g]) \cup {MsgOf(c)}
    BY <1>0, <2>1, <2>3, ToSetAppend
  <2>7. StopsBetween' /\ WireIsDone' /\ SentIsOnWire' /\ DoneIsOnWire'
    BY <2>3, <2>4, <2>5
  <2>8. QueuedIsRouted'
    BY <2>2, <2>3, <2>6 DEF Route
  <2> QED BY <2>7, <2>8
<1>3. ASSUME NEW g \in Gateways, ForwardPeek(g) \/ ForwardFull(g)
      PROVE  WireInv'
  <2>1. /\ UNCHANGED <<gate, outgoing, done, outRing, inRing, arrived>>
        /\ gate[g] = "running"
        /\ loop[g] \in {"poll", "peeked"} /\ loop'[g] \in {"poll", "peeked"}
        /\ \A h \in Gateways : h # g => loop'[h] = loop[h]
    BY <1>3 DEF ForwardPeek, ForwardFull, Polling, TypeInv, TypeOK
  <2>2. \A h \in Gateways : \A m : AtRing(h, m)' <=> AtRing(h, m)
    BY <2>1 DEF AtRing
  <2> QED BY <2>1, <2>2
<1>4. ASSUME NEW g \in Gateways, ForwardSend(g) PROVE WireInv'
  <2>1. /\ UNCHANGED <<gate, outgoing, done>>
        /\ gate[g] = "running" /\ loop[g] = "peeked" /\ loop'[g] = "sent"
        /\ \A h \in Gateways : h # g => loop'[h] = loop[h]
    BY <1>4 DEF ForwardSend, TypeInv, TypeOK
  <2>2. \A h \in Gateways : h # g => ~ForwardSend(h)
    BY <1>4 DEF ForwardSend, TypeInv, TypeOK
  <2>3. \A h \in Gateways : \A m :
          AtRing(h, m)' <=> AtRing(h, m) \/ (h = g /\ m = Head(outgoing[g]))
    BY <1>4, <2>2, RingStep
  <2> QED BY <1>0, <2>1, <2>3, SMTT(30)
<1>5. ASSUME NEW g \in Gateways, ForwardComplete(g) PROVE WireInv'
  <2> DEFINE m0 == Head(outgoing[g])
  <2>1. /\ UNCHANGED <<gate, outRing, inRing, arrived>>
        /\ done' = done \cup {m0}
        /\ gate[g] = "running" /\ loop[g] = "sent" /\ loop'[g] = "poll"
        /\ outgoing'[g] = Tail(outgoing[g])
        /\ \A h \in Gateways :
             h # g => loop'[h] = loop[h] /\ outgoing'[h] = outgoing[h]
    BY <1>5 DEF ForwardComplete, TypeInv, TypeOK
  <2>2. \A h \in Gateways : \A m : AtRing(h, m)' <=> AtRing(h, m)
    BY <2>1 DEF AtRing
  <2>3. ToSet(outgoing'[g]) \subseteq ToSet(outgoing[g])
    BY <1>0, <2>1, ToSetHeadTail
  <2>4. Route(m0) = g /\ AtRing(g, m0)
    BY <1>0, <2>1
  <2> HIDE DEF m0
  <2>5. DoneIsOnWire'
    BY <2>1, <2>2, <2>4
  <2>6. StopsBetween' /\ SentIsOnWire' /\ QueuedIsRouted'
    BY <2>1, <2>2, <2>3
  <2>7. WireIsDone'
    BY <2>1, <2>2 DEF m0
  <2> QED BY <2>5, <2>6, <2>7
<1>6. ASSUME NEW g \in Gateways, ReceiveTerminate(g) \/ Exit(g) \/ Kill(g)
      PROVE  WireInv'
  <2>1. /\ UNCHANGED <<loop, outgoing, done, outRing, inRing, arrived>>
        /\ gate'[g] = "stopping" => loop[g] = "poll"
        /\ \A h \in Gateways : h # g => gate'[h] = gate[h]
    BY <1>6 DEF ReceiveTerminate, Polling, Exit, Kill, Close, TypeInv, TypeOK
  <2>2. \A h \in Gateways : \A m : AtRing(h, m)' <=> AtRing(h, m)
    BY <2>1 DEF AtRing
  <2> QED BY <2>1, <2>2
<1>7. ASSUME NEW c \in Clients, Client(c) \/ Return(c) \/ RouterStep(c)
      PROVE  UNCHANGED <<gate, loop, outgoing, done>>
  BY <1>7 DEF gatewayVars, Client, Call, Die, Return, RouterStep,
     RouterReject, LocalWrite, LocalReadStart, LocalReadWait, LocalRead,
     Forward, ForwardRefused, Relay
<1>8. ASSUME NEW c \in Clients, NEW g \in Gateways,
             HandlerStep(c, g) \/ SpuriousWakeup(c, g), ~EnqueueWrite(c, g)
      PROVE  UNCHANGED <<gate, loop, outgoing, done>>
  BY <1>8 DEF gatewayVars, HandlerStep, SpuriousWakeup,
     ReadStart, HandlerWait, WriteFinish, ReadPop, ReadAbandon, SendReply
<1>9. ASSUME NEW g \in Gateways,
             Receive(g) \/ ProxyMove(g) \/ ProxyTerminate(g)
      PROVE  UNCHANGED <<gate, loop, outgoing, done>>
  BY <1>9 DEF Receive, ProxyMove, ProxyTerminate
<1>10. CASE UNCHANGED vars
  BY <1>1, <1>10 DEF vars
<1> HIDE DEF WireInv
<1> QED
  BY <1>1, <1>2, <1>3, <1>4, <1>5, <1>6, <1>7, <1>8, <1>9, <1>10
  DEF Next, ForwardOneWrite, ReceiveAll

(***************************************************************************)
(* What an answer says.                                                    *)
(***************************************************************************)
Unanswered == {"idle", "sent", "localwait", "atgateway", "wwait", "rwait"}

\* There is no answer before the last phases, and the answer to a write
\* between two slots is what its gateway found under its lock.
AnswerOf(c) ==
  /\ phase[c] \in Unanswered => answer[c] = NoAnswer
  /\ phase[c] = "wwait" => req[c].op = "W"
  /\ phase[c] \in {"localwait", "rwait"} => req[c].op = "R"
  /\ phase[c] # "idle" =>
       home[c] = (IF req[c].op = "W" THEN req[c].pipe[1] ELSE req[c].pipe[2])
  /\ AnsweredWrite(c) /\ answer[c].status = "OK" => MsgOf(c) \in done
  /\ AnsweredWrite(c) /\ answer[c].status = "ERR transport" =>
       /\ ~AtRing(GatewayOf(c), MsgOf(c))
       /\ gate[GatewayOf(c)] # "running"

AnswerInv == \A c \in Clients : AnswerOf(c)

LEMMA AnswerInit == Init => AnswerInv
  BY DEF Init, AnswerInv, AnswerOf, AnsweredWrite

LEMMA WriteGateway ==
  ASSUME TypeInv, NEW c \in Clients, AnsweredWrite(c)
  PROVE  GatewayOf(c) \in Gateways
  BY DEF AnsweredWrite, Reject, placed, GatewayOf, Gateways, slot, peer_for,
         TypeInv, TypeOK, Requests

\* A gateway never runs again, and done never shrinks.
LEMMA GateStep ==
  ASSUME TypeInv, [Next]_vars
  PROVE  /\ done \subseteq done'
         /\ \A g \in Gateways : gate[g] # "running" => gate'[g] # "running"
<1> USE DEF TypeInv, TypeOK
<1>1. ASSUME NEW c \in Clients, Client(c) \/ Return(c) \/ RouterStep(c)
      PROVE  UNCHANGED <<gate, done>>
  BY <1>1 DEF gatewayVars, Client, Call, Die, Return, RouterStep,
     RouterReject, LocalWrite, LocalReadStart, LocalReadWait, LocalRead,
     Forward, ForwardRefused, Relay
<1>2. ASSUME NEW c \in Clients, NEW g \in Gateways,
             HandlerStep(c, g) \/ SpuriousWakeup(c, g)
      PROVE  UNCHANGED <<gate, done>>
  BY <1>2 DEF gatewayVars, HandlerStep, SpuriousWakeup, EnqueueWrite,
     ReadStart, HandlerWait, WriteFinish, ReadPop, ReadAbandon, SendReply
<1>3. ASSUME NEW g \in Gateways,
             ForwardOneWrite(g) \/ Receive(g) \/ ProxyMove(g) \/ ProxyTerminate(g)
      PROVE  done \subseteq done' /\ gate' = gate
  BY <1>3 DEF ForwardOneWrite, ForwardPeek, ForwardFull, ForwardSend,
     ForwardComplete, Receive, ProxyMove, ProxyTerminate
<1>4. ASSUME NEW g \in Gateways, ReceiveTerminate(g) \/ Exit(g) \/ Kill(g)
      PROVE  /\ done \subseteq done'
             /\ \A h \in Gateways : gate[h] # "running" => gate'[h] # "running"
  BY <1>4 DEF ReceiveTerminate, Exit, Kill, Close
<1>5. CASE UNCHANGED vars
  BY <1>5 DEF vars
<1> QED BY <1>1, <1>2, <1>3, <1>4, <1>5 DEF Next, ReceiveAll

\* A step that leaves client d alone leaves what its answer says true.
LEMMA AnswerKept ==
  ASSUME TypeInv, [Next]_vars, NEW d \in Clients, AnswerOf(d),
         UNCHANGED <<ops[d], req[d], phase[d], answer[d]>>
  PROVE  AnswerOf(d)'
<1>1. /\ AnsweredWrite(d)' <=> AnsweredWrite(d)
      /\ MsgOf(d)' = MsgOf(d) /\ GatewayOf(d)' = GatewayOf(d)
  BY DEF AnsweredWrite, MsgOf, GatewayOf, Reject, placed, peer_for, slot
<1>2. ASSUME AnsweredWrite(d), answer[d].status = "ERR transport"
      PROVE  /\ ~AtRing(GatewayOf(d), MsgOf(d))'
             /\ gate'[GatewayOf(d)] # "running"
  <2>1. GatewayOf(d) \in Gateways
    BY <1>2, WriteGateway
  <2>2. /\ ~AtRing(GatewayOf(d), MsgOf(d))
        /\ gate[GatewayOf(d)] # "running"
    BY <1>2 DEF AnswerOf
  <2>3. PICK g, m : g = GatewayOf(d) /\ m = MsgOf(d)
    OBVIOUS
  <2>4. g \in Gateways /\ ~AtRing(g, m) /\ gate[g] # "running"
    BY <2>1, <2>2, <2>3
  <2>5. ~AtRing(g, m)' /\ gate'[g] # "running"
    BY <2>4, RingStep, GateStep DEF ForwardSend
  <2> QED BY <1>1, <2>3, <2>5 DEF AtRing
<1>3. AnsweredWrite(d) /\ answer[d].status = "OK" => MsgOf(d) \in done'
  BY GateStep DEF AnswerOf
<1> QED BY <1>1, <1>2, <1>3 DEF AnswerOf

LEMMA AnswerStatus == \A s : Answer(s).status = s /\ Answer(s).data = NoMsg
  BY DEF Answer

LEMMA AnswerStep == TypeInv /\ WireInv /\ AnswerInv /\ [Next]_vars => AnswerInv'
<1> SUFFICES ASSUME TypeInv, WireInv, AnswerInv, [Next]_vars,
                    NEW d \in Clients
             PROVE  AnswerOf(d)'
  BY DEF AnswerInv
<1> DEFINE Kept == UNCHANGED <<ops[d], req[d], phase[d], answer[d]>>
<1>0. AnswerOf(d) /\ (Kept => AnswerOf(d)')
  BY AnswerKept DEF AnswerInv
<1> USE DEF TypeInv, TypeOK, AnswerOf, Unanswered, AnsweredWrite
<1>1. ASSUME NEW c \in Clients, NEW op \in {"W", "R"}, NEW p \in Pipes,
             NEW n \in Sizes, Call(c, op, p, n)
      PROVE  Kept \/ AnswerOf(d)'
  BY <1>0, <1>1 DEF Call
<1>2. ASSUME NEW c \in Clients, Die(c) PROVE Kept
  BY <1>2 DEF Die
<1>17. ASSUME phase[d] # "idle", req'[d] = req[d],
              phase'[d] \in {"reply", "relay", "replied"},
              answer'[d].status \in {"ERR", "ERR closed"}
       PROVE  AnswerOf(d)'
  BY <1>0, <1>17
<1>3. ASSUME NEW c \in Clients, Return(c) PROVE Kept \/ AnswerOf(d)'
  BY <1>0, <1>3 DEF Return, clientVars
<1>18. ASSUME NEW c \in Clients, RouterReject(c) PROVE Kept \/ AnswerOf(d)'
  BY <1>17, <1>18 DEF RouterReject, Answer, clientVars
<1>4. ASSUME NEW c \in Clients, LocalWrite(c) PROVE Kept \/ AnswerOf(d)'
  BY <1>0, <1>4
  DEF LocalWrite, clientVars, peer_for, slot
<1>5. ASSUME NEW c \in Clients, LocalReadStart(c) \/ LocalReadWait(c)
      PROVE  Kept \/ AnswerOf(d)'
  BY <1>0, <1>5 DEF LocalReadStart, LocalReadWait, clientVars
<1>6. ASSUME NEW c \in Clients, LocalRead(c) PROVE Kept \/ AnswerOf(d)'
  BY <1>0, <1>6 DEF LocalRead, clientVars
<1>7. ASSUME NEW c \in Clients, Forward(c) PROVE Kept \/ AnswerOf(d)'
  BY <1>0, <1>7 DEF Forward, clientVars
<1>19. ASSUME NEW c \in Clients, ForwardRefused(c) PROVE Kept \/ AnswerOf(d)'
  BY <1>17, <1>19 DEF ForwardRefused, Answer, clientVars
<1>8. ASSUME NEW c \in Clients, Relay(c) PROVE Kept \/ AnswerOf(d)'
  <2>1. CASE c # d
    BY <1>8, <2>1 DEF Relay, clientVars
  <2>2. CASE c = d
    <3>1. /\ UNCHANGED <<ops, req, answer, done, gate, outRing, inRing, arrived>>
          /\ phase[d] = "relay" /\ phase'[d] = "replied"
      BY <1>8, <2>2 DEF Relay, clientVars, gatewayVars
    <3> QED BY <1>0, <3>1 DEF MsgOf, GatewayOf, AtRing, Reject, placed,
            peer_for, slot
  <2> QED BY <2>1, <2>2
<1>9. ASSUME NEW c \in Clients, NEW g \in Gateways,
             EnqueueWrite(c, g) \/ ReadStart(c, g)
      PROVE  Kept \/ AnswerOf(d)'
  BY <1>0, <1>9 DEF EnqueueWrite, ReadStart, AtGateway, clientVars
<1>10. ASSUME NEW c \in Clients, NEW g \in Gateways,
              HandlerWait(c, g) \/ SpuriousWakeup(c, g)
       PROVE  Kept
  BY <1>10 DEF HandlerWait, SpuriousWakeup, clientVars
<1>11. ASSUME NEW c \in Clients, NEW g \in Gateways, WriteFinish(c, g)
       PROVE  Kept \/ AnswerOf(d)'
  <2>1. CASE c # d
    BY <1>11, <2>1 DEF WriteFinish, clientVars
  <2>2. CASE c = d
    <3>1. /\ UNCHANGED <<ops, req, done, gate, outRing, inRing, arrived>>
          /\ phase[d] = "wwait" /\ phase'[d] = "reply" /\ g = GatewayOf(d)
          /\ answer'[d] = Answer(IF MsgOf(d) \in done THEN "OK"
                                 ELSE "ERR transport")
          /\ MsgOf(d) \in done \/ gate[g] = "stopping"
      BY <1>11, <2>2
      DEF WriteFinish, WriteReady, AtGateway, clientVars, gatewayVars
    <3>2. MsgOf(d) \in Msgs
      BY <3>1, MsgOfType
    <3>3. MsgOf(d) \notin done => gate[g] = "stopping" /\ ~AtRing(g, MsgOf(d))
      BY <3>1, <3>2 DEF WireInv, StopsBetween, WireIsDone
    <3>4. MsgOf(d)' = MsgOf(d) /\ GatewayOf(d)' = GatewayOf(d)
      BY <3>1 DEF MsgOf, GatewayOf, slot, peer_for
    <3>5. MsgOf(d) \notin done =>
            ~AtRing(GatewayOf(d), MsgOf(d))' /\ gate'[GatewayOf(d)'] # "running"
      BY <3>1, <3>3, <3>4 DEF AtRing
    <3>6. answer'[d].status = (IF MsgOf(d) \in done THEN "OK"
                               ELSE "ERR transport")
      BY <3>1, AnswerStatus
    <3>7. req[d].op = "W" /\ home[d] = req[d].pipe[1]
      BY <1>0, <3>1
    <3>8. AnsweredWrite(d)' /\ answer'[d].status = "OK" => MsgOf(d)' \in done'
      BY <3>1, <3>4, <3>6
    <3>9. AnsweredWrite(d)' /\ answer'[d].status = "ERR transport" =>
            ~AtRing(GatewayOf(d), MsgOf(d))' /\ gate'[GatewayOf(d)'] # "running"
      BY <3>5, <3>6
    <3> HIDE DEF AnsweredWrite
    <3> QED BY <3>1, <3>7, <3>8, <3>9
  <2> QED BY <2>1, <2>2
<1>12. ASSUME NEW c \in Clients, NEW g \in Gateways,
              ReadPop(c, g) \/ ReadAbandon(c, g)
       PROVE  Kept \/ AnswerOf(d)'
  <2>1. CASE ReadPop(c, g)
    BY <1>0, <2>1 DEF ReadPop, AtGateway, clientVars
  <2>2. CASE ReadAbandon(c, g)
    BY <1>0, <2>2 DEF ReadAbandon, AtGateway, clientVars
  <2> QED BY <1>12, <2>1, <2>2
<1>13. ASSUME NEW c \in Clients, NEW g \in Gateways, SendReply(c, g)
       PROVE  Kept \/ AnswerOf(d)'
  <2>1. CASE c # d
    BY <1>13, <2>1 DEF SendReply, clientVars
  <2>2. CASE c = d
    <3>1. /\ UNCHANGED <<ops, req, answer, done, gate, outRing, inRing, arrived>>
          /\ phase[d] = "reply" /\ phase'[d] = "relay"
      BY <1>13, <2>2 DEF SendReply, AtGateway, clientVars, gatewayVars
    <3> QED BY <1>0, <3>1 DEF MsgOf, GatewayOf, AtRing, Reject, placed,
            peer_for, slot
  <2> QED BY <2>1, <2>2
<1>14. ASSUME NEW g \in Gateways, Exit(g) \/ Kill(g)
       PROVE  Kept \/ AnswerOf(d)'
  <2>1. \/ phase'[d] = phase[d] /\ answer'[d] = answer[d]
        \/ /\ phase[d] \in {"atgateway", "wwait", "rwait", "reply"}
           /\ phase'[d] = "relay" /\ answer'[d] = Answer("ERR closed")
    BY <1>14 DEF Exit, Kill, Close
  <2>2. ops' = ops /\ req' = req
    BY <1>14 DEF Exit, Kill, Close, clientVars
  <2>3. Answer("ERR closed").status = "ERR closed"
    BY AnswerStatus
  <2>4. CASE phase'[d] = "relay" /\ answer'[d] = Answer("ERR closed")
             /\ phase[d] \in {"atgateway", "wwait", "rwait", "reply"}
    <3>1. answer'[d].status = "ERR closed"
      BY <2>3, <2>4
    <3> HIDE DEF AnswerOf
    <3> QED BY <1>17, <2>2, <2>4, <3>1
  <2> HIDE DEF AnswerOf
  <2> QED BY <2>1, <2>2, <2>4
<1>15. ASSUME NEW g \in Gateways,
              \/ ForwardOneWrite(g) \/ ReceiveAll(g)
              \/ ProxyMove(g) \/ ProxyTerminate(g)
       PROVE  Kept
  BY <1>15 DEF ForwardOneWrite, ForwardPeek, ForwardFull, ForwardSend,
     ForwardComplete, ReceiveAll, Receive, ReceiveTerminate, ProxyMove,
     ProxyTerminate, clientVars
<1>16. ASSUME UNCHANGED vars PROVE Kept
  BY <1>16 DEF vars
<1> HIDE DEF AnswerOf
<1> QED
  BY <1>0, <1>1, <1>2, <1>3, <1>4, <1>5, <1>6, <1>7, <1>8, <1>9, <1>10,
     <1>11, <1>12, <1>13, <1>14, <1>15, <1>16, <1>18, <1>19
  DEF Next, Client, RouterStep, HandlerStep

TransportInv == TypeInv /\ WireInv /\ AnswerInv

LEMMA TransportInvHolds == Spec => []TransportInv
<1>1. Init => TransportInv
  BY InitType, WireInit, AnswerInit DEF TransportInv, TypeInv
<1>2. TransportInv /\ [Next]_vars => TransportInv'
  BY TypeStep, WireStep, AnswerStep DEF TransportInv
<1> QED BY <1>1, <1>2, PTL DEF Spec

\* A write answered OK has been put on the ring of its gateway: the handler
\* says OK only for a PendingWrite that ForwardOneWrite marked done, and it
\* marks it done after OutSend.
THEOREM OkIsSubmitted == Spec => []OkMeansSubmitted
<1>1. TransportInv => OkMeansSubmitted
  <2> SUFFICES ASSUME TransportInv, NEW c \in Clients,
                      AnsweredWrite(c), answer[c].status = "OK"
               PROVE  AtRing(GatewayOf(c), MsgOf(c))
    BY DEF OkMeansSubmitted
  <2>1. MsgOf(c) \in done
    BY DEF TransportInv, AnswerInv, AnswerOf
  <2>2. GatewayOf(c) = Route(MsgOf(c))
    BY RouteOfWrite DEF AnsweredWrite
  <2> QED BY <2>1, <2>2 DEF TransportInv, WireInv, DoneIsOnWire
<1> QED BY <1>1, TransportInvHolds, PTL

\* A write answered "ERR transport" is not on the wire, and its gateway, no
\* longer running, will not put it there: the caller may send it again.
THEOREM ErrTransportIsUnsent == Spec => []ErrTransportMeansUnsent
<1>1. TransportInv => ErrTransportMeansUnsent
  BY DEF TransportInv, AnswerInv, AnswerOf, ErrTransportMeansUnsent
<1> QED BY <1>1, TransportInvHolds, PTL

(***************************************************************************)
(* No payload is lost between a pop and its reader without a failure.      *)
(***************************************************************************)

\* The payload on its way back to client c.
Held(c) == IF answer[c].data = NoMsg THEN << >> ELSE <<answer[c].data>>

LEMMA NothingHeld == \A c : answer[c] = NoAnswer => Held(c) = << >>
<1>1. NoAnswer.data = NoMsg
  BY DEF NoAnswer
<1> QED BY <1>1 DEF Held

AllUp == \A g \in Gateways : gate[g] # "exited"

LossInv == AllUp => \A c \in alive : taken[c] = got[c] \o Held(c)

LEMMA LossStep == TransportInv /\ LossInv /\ [Next]_vars => LossInv'
<1> SUFFICES ASSUME TransportInv, LossInv, [Next]_vars, AllUp',
                    NEW d \in alive'
             PROVE  taken'[d] = got'[d] \o Held(d)'
  BY DEF LossInv
<1>0. TypeInv /\ AnswerInv
  BY DEF TransportInv
<1> USE DEF TypeInv, TypeOK
<1>1. ASSUME NEW g \in Gateways, Exit(g) \/ Kill(g) PROVE FALSE
  BY <1>0, <1>1 DEF Exit, Kill, Close, AllUp
<1>2. AllUp /\ alive' \subseteq alive
  <2>1. ASSUME NEW c \in Clients, Client(c) \/ Return(c) \/ RouterStep(c)
        PROVE  gate' = gate /\ alive' \subseteq alive
    BY <2>1 DEF clientVars, gatewayVars, Client, Call, Die, Return, RouterStep,
       RouterReject, LocalWrite, LocalReadStart, LocalReadWait, LocalRead,
       Forward, ForwardRefused, Relay
  <2>2. ASSUME NEW c \in Clients, NEW g \in Gateways,
               HandlerStep(c, g) \/ SpuriousWakeup(c, g)
        PROVE  gate' = gate /\ alive' = alive
    BY <2>2 DEF clientVars, gatewayVars, HandlerStep, SpuriousWakeup,
       EnqueueWrite, ReadStart, HandlerWait, WriteFinish, ReadPop, ReadAbandon,
       SendReply
  <2>3. ASSUME NEW g \in Gateways,
               \/ ForwardOneWrite(g) \/ Receive(g)
               \/ ProxyMove(g) \/ ProxyTerminate(g)
        PROVE  gate' = gate /\ alive' = alive
    BY <2>3 DEF clientVars, ForwardOneWrite, ForwardPeek, ForwardFull,
       ForwardSend, ForwardComplete, Receive, ProxyMove, ProxyTerminate
  <2>4. ASSUME NEW g \in Gateways, ReceiveTerminate(g)
        PROVE  AllUp /\ alive' = alive
    BY <1>0, <2>4 DEF clientVars, ReceiveTerminate, Polling, AllUp
  <2>5. CASE UNCHANGED vars
    BY <2>5 DEF vars, AllUp
  <2> QED BY <1>1, <2>1, <2>2, <2>3, <2>4, <2>5 DEF Next, ReceiveAll, AllUp
<1>3. /\ d \in alive /\ d \in Clients /\ taken[d] = got[d] \o Held(d)
      /\ taken[d] \in Seq(Msgs) /\ got[d] \in Seq(Msgs) /\ answer[d] \in Answers
      /\ phase[d] \in Unanswered => Held(d) = << >> /\ taken[d] = got[d]
  <2>1. d \in alive /\ d \in Clients /\ taken[d] = got[d] \o Held(d)
    BY <1>0, <1>2 DEF LossInv
  <2>2. taken[d] \in Seq(Msgs) /\ got[d] \in Seq(Msgs) /\ answer[d] \in Answers
    BY <1>0, <2>1
  <2>3. phase[d] \in Unanswered => Held(d) = << >>
    BY <1>0, <2>1, NothingHeld DEF AnswerInv, AnswerOf
  <2> QED BY <2>1, <2>2, <2>3, ConcatEmptySeq
<1> DEFINE Goal == taken'[d] = got'[d] \o Held(d)'
<1>4. ASSUME UNCHANGED <<taken[d], got[d], answer[d]>> PROVE Goal
  BY <1>3, <1>4 DEF Held
\* A reply without a payload to a request that had none.
<1>5. ASSUME UNCHANGED <<taken, got>>, phase[d] \in Unanswered,
             NEW s, answer'[d] = Answer(s)
      PROVE  Goal
  <2>1. Held(d)' = << >>
    BY <1>5, AnswerStatus DEF Held
  <2> QED BY <1>3, <1>5, <2>1, ConcatEmptySeq
\* A payload is popped for a request that had none.
<1>6. ASSUME UNCHANGED got, phase[d] \in Unanswered, NEW m \in Msgs,
             answer'[d] = Payload(m), taken'[d] = Append(taken[d], m)
      PROVE  Goal
  <2>1. Held(d)' = <<m>>
    BY <1>6, NoMsgAssumption DEF Held, Payload
  <2>2. Append(got[d], m) = got[d] \o <<m>>
    BY <1>3, AppendIsConcat
  <2> QED BY <1>3, <1>6, <2>1, <2>2
<1>7. ASSUME NEW c \in Clients, Client(c) PROVE Goal
  BY <1>4, <1>7 DEF Client, Call, Die
<1>8. ASSUME NEW c \in Clients, Return(c) PROVE Goal
  <2>1. CASE c # d
    <3>1. UNCHANGED <<taken[d], got[d], answer[d]>>
      BY <1>0, <1>3, <1>8, <2>1 DEF Return
    <3> QED BY <1>4, <3>1
  <2>2. CASE c = d
    <3>1. /\ taken' = taken /\ answer'[d] = NoAnswer
          /\ got'[d] = IF answer[d].data # NoMsg
                       THEN Append(got[d], answer[d].data) ELSE got[d]
      BY <1>0, <1>3, <1>8, <2>2 DEF Return
    <3>2. Held(d)' = << >>
      BY <3>1 DEF Held, NoAnswer
    <3>3. got'[d] = got[d] \o Held(d) /\ got'[d] \in Seq(Msgs)
      <4>1. CASE answer[d].data = NoMsg
        BY <1>3, <3>1, <4>1, ConcatEmptySeq DEF Held
      <4>2. CASE answer[d].data # NoMsg
        <5>1. answer[d].data \in Msgs
          BY <1>3, <4>2 DEF Answers
        <5>2. PICK s \in Seq(Msgs) : s = got[d]
          BY <1>3
        <5>3. PICK x \in Msgs : x = answer[d].data
          BY <5>1
        <5>4. Append(s, x) = s \o <<x>> /\ Append(s, x) \in Seq(Msgs)
          BY AppendIsConcat, AppendProperties
        <5>5. got'[d] = Append(s, x) /\ Held(d) = <<x>>
          BY <3>1, <4>2, <5>2, <5>3 DEF Held
        <5> QED BY ONLY <5>2, <5>4, <5>5, Zenon
      <4> QED BY <4>1, <4>2
    <3> QED BY <1>3, <3>1, <3>2, <3>3, ConcatEmptySeq
  <2> QED BY <2>1, <2>2
<1>9. ASSUME NEW c \in Clients,
             \/ RouterReject(c) \/ LocalWrite(c) \/ ForwardRefused(c)
      PROVE  Goal
  <2>1. CASE c # d
    <3>1. UNCHANGED <<taken[d], got[d], answer[d]>>
      BY <1>0, <1>3, <1>9, <2>1 DEF RouterReject, LocalWrite, ForwardRefused
    <3> QED BY <1>4, <3>1
  <2>2. CASE c = d
    BY <1>0, <1>3, <1>5, <1>9, <2>2
    DEF RouterReject, LocalWrite, ForwardRefused, Unanswered
  <2> QED BY <2>1, <2>2
<1>10. ASSUME NEW c \in Clients, LocalRead(c) PROVE Goal
  <2>1. CASE c # d
    <3>1. UNCHANGED <<taken[d], got[d], answer[d]>>
      BY <1>0, <1>3, <1>10, <2>1 DEF LocalRead
    <3> QED BY <1>4, <3>1
  <2>2. CASE c = d
    <3> DEFINE q == localPipes[slot(c)][req[c].pipe]
    <3>1. q \in Seq(Msgs) /\ q # << >>
      BY <1>0, <1>10 DEF LocalRead, LocalMatch, slot, Requests
    <3>2. PICK m \in Msgs : m = Head(q)
      BY <3>1
    <3>3. /\ got' = got /\ answer'[d] = Payload(m) /\ phase[d] = "localwait"
          /\ taken'[d] = Append(taken[d], m)
      BY <1>0, <1>3, <1>10, <2>2, <3>2 DEF LocalRead
    <3> QED BY <1>6, <3>3 DEF Unanswered
  <2> QED BY <2>1, <2>2
<1>11. ASSUME NEW c \in Clients,
              LocalReadStart(c) \/ LocalReadWait(c) \/ Forward(c) \/ Relay(c)
       PROVE  Goal
  BY <1>4, <1>11 DEF LocalReadStart, LocalReadWait, Forward, Relay
<1>12. ASSUME NEW c \in Clients, NEW g \in Gateways,
              WriteFinish(c, g) \/ ReadAbandon(c, g)
       PROVE  Goal
  <2>1. CASE c # d
    <3>1. UNCHANGED <<taken[d], got[d], answer[d]>>
      BY <1>0, <1>3, <1>12, <2>1 DEF WriteFinish, ReadAbandon
    <3> QED BY <1>4, <3>1
  <2>2. CASE c = d
    <3>1. UNCHANGED <<taken, got>> /\ phase[d] \in Unanswered
      BY <1>0, <1>12, <2>2 DEF WriteFinish, ReadAbandon, AtGateway, Unanswered
    <3>2. PICK s : answer'[d] = Answer(s)
      <4>1. CASE WriteFinish(c, g)
        BY <1>0, <1>3, <2>2, <4>1 DEF WriteFinish
      <4>2. CASE ReadAbandon(c, g)
        BY <1>0, <1>3, <2>2, <4>2 DEF ReadAbandon
      <4> QED BY <1>12, <4>1, <4>2
    <3> QED BY <1>5, <3>1, <3>2
  <2> QED BY <2>1, <2>2
<1>13. ASSUME NEW c \in Clients, NEW g \in Gateways, ReadPop(c, g) PROVE Goal
  <2>1. CASE c # d
    <3>1. UNCHANGED <<taken[d], got[d], answer[d]>>
      BY <1>0, <1>3, <1>13, <2>1 DEF ReadPop
    <3> QED BY <1>4, <3>1
  <2>2. CASE c = d
    <3> DEFINE q == incoming[g][req[c].pipe]
    <3>1. q \in Seq(Msgs) /\ q # << >>
      BY <1>0, <1>13 DEF ReadPop, ReadMatch, Requests
    <3>2. PICK m \in Msgs : m = Head(q)
      BY <3>1
    <3>3. /\ got' = got /\ answer'[d] = Payload(m) /\ phase[d] = "rwait"
          /\ taken'[d] = Append(taken[d], m)
      BY <1>0, <1>3, <1>13, <2>2, <3>2 DEF ReadPop, AtGateway
    <3> QED BY <1>6, <3>3 DEF Unanswered
  <2> QED BY <2>1, <2>2
<1>14. ASSUME NEW c \in Clients, NEW g \in Gateways,
              \/ EnqueueWrite(c, g) \/ ReadStart(c, g) \/ HandlerWait(c, g)
              \/ SpuriousWakeup(c, g) \/ SendReply(c, g)
       PROVE  Goal
  BY <1>4, <1>14
  DEF EnqueueWrite, ReadStart, HandlerWait, SpuriousWakeup, SendReply
<1>15. ASSUME NEW g \in Gateways,
              \/ ForwardOneWrite(g) \/ ReceiveAll(g)
              \/ ProxyMove(g) \/ ProxyTerminate(g)
       PROVE  Goal
  BY <1>4, <1>15 DEF ForwardOneWrite, ForwardPeek, ForwardFull, ForwardSend,
     ForwardComplete, ReceiveAll, Receive, ReceiveTerminate, ProxyMove,
     ProxyTerminate
<1>16. ASSUME UNCHANGED vars PROVE Goal
  BY <1>4, <1>16 DEF vars
<1> QED
  BY <1>1, <1>7, <1>8, <1>9, <1>10, <1>11, <1>12, <1>13, <1>14, <1>15, <1>16
  DEF Next, RouterStep, HandlerStep

\* A payload popped for a client that is alive reaches it, as long as no
\* gateway goes down: the pop and the reply are two steps, but no other
\* step comes between the payload and its reader.
THEOREM PopReachesReader == Spec => []LossNeedsFailure
<1>1. Init => LossInv
  <2> SUFFICES ASSUME Init, NEW c \in alive PROVE taken[c] = got[c] \o Held(c)
    BY DEF LossInv
  <2>1. taken[c] = << >> /\ got[c] = << >> /\ Held(c) = << >>
    BY DEF Init, Held, NoAnswer
  <2>2. << >> \o << >> = << >>
    BY << >> \in Seq({}), ConcatEmptySeq
  <2> QED BY <2>1, <2>2
<1>2. TransportInv /\ LossInv => LossNeedsFailure
  <2> SUFFICES ASSUME TransportInv, LossInv, AllUp, NEW c \in alive,
                      phase[c] = "idle"
               PROVE  got[c] = taken[c]
    BY DEF LossNeedsFailure, AllUp
  <2>1. c \in Clients /\ got[c] \in Seq(Msgs)
    BY DEF TransportInv, TypeInv, TypeOK
  <2>2. Held(c) = << >>
    BY <2>1, NothingHeld DEF TransportInv, AnswerInv, AnswerOf, Unanswered
  <2> QED BY <2>1, <2>2, ConcatEmptySeq DEF LossInv
<1> QED BY <1>1, <1>2, LossStep, TransportInvHolds, PTL DEF Spec

(***************************************************************************)
(* No lost wake-up.  A pop notifies nobody, so the next payload may fit a  *)
(* second reader of the same pipe that sleeps: the wait discipline is      *)
(* sound only with one reader per pipe, as in a simulation where each      *)
(* chiplet is one process.                                                 *)
(***************************************************************************)
OneProcessPerChiplet == \A c, d \in Clients : home[c] = home[d] => c = d

WakeOf(c) ==
  /\ phase[c] \in {"localwait", "rwait", "wwait"}
  /\ phase[c] # "localwait" => GatewayOf(c) \in Gateways
  /\ phase[c] = "localwait" => ~LocalMatch(c)
  /\ phase[c] = "rwait" => ~ReadMatch(c, GatewayOf(c))
  /\ phase[c] = "wwait" => MsgOf(c) \notin done

WakeInv == \A c \in asleep : WakeOf(c)

LEMMA WakeStep ==
  ASSUME OneProcessPerChiplet, TransportInv, WakeInv, [Next]_vars
  PROVE  WakeInv'
<1> SUFFICES ASSUME NEW d \in asleep' PROVE WakeOf(d)'
  BY DEF WakeInv
<1>0. TypeInv /\ AnswerInv /\ TypeOK
  BY DEF TransportInv, TypeInv
<1>1. d \in Clients
  <2>1. TypeOK'
    BY <1>0, TypeStep DEF TypeInv
  <2> QED BY <2>1 DEF TypeOK
<1>2. slot(d) \in Slots /\ req[d].pipe \in Pipes
  BY <1>0, <1>1 DEF TypeOK, slot, Requests
<1> DEFINE Same == UNCHANGED <<ops[d], req[d], phase[d]>>
           Goal == WakeOf(d)'
\* A sleeper whose request, queue and flag are left alone.
<1>3. ASSUME d \in asleep, Same,
             phase[d] = "localwait" =>
               localPipes'[slot(d)][req[d].pipe] = localPipes[slot(d)][req[d].pipe],
             phase[d] = "rwait" =>
               incoming'[GatewayOf(d)][req[d].pipe]
                 = incoming[GatewayOf(d)][req[d].pipe],
             phase[d] = "wwait" => (MsgOf(d) \in done' => MsgOf(d) \in done)
      PROVE  Goal
  <2>1. WakeOf(d)
    BY <1>3 DEF WakeInv
  <2>2. GatewayOf(d)' = GatewayOf(d) /\ MsgOf(d)' = MsgOf(d)
    BY <1>3 DEF GatewayOf, MsgOf, slot, peer_for
  <2>3. phase[d] = "localwait" => ~LocalMatch(d)'
    BY <1>3, <2>1 DEF WakeOf, LocalMatch, slot
  <2>4. phase[d] = "rwait" => ~ReadMatch(d, GatewayOf(d))'
    BY <1>3, <2>1, <2>2 DEF WakeOf, ReadMatch
  <2> QED BY <1>3, <2>1, <2>2, <2>3, <2>4 DEF WakeOf
<1>4. ASSUME d \in asleep, Same, UNCHANGED <<localPipes, incoming, done>>
      PROVE  Goal
  BY <1>3, <1>4
<1>5. d \in asleep => phase[d] \in {"localwait", "rwait", "wwait"}
  BY DEF WakeInv, WakeOf
<1>6. ASSUME NEW c \in Clients,
             \/ Client(c) \/ Return(c) \/ RouterReject(c) \/ LocalReadStart(c)
             \/ Forward(c) \/ ForwardRefused(c) \/ Relay(c)
      PROVE  Goal
  <2>1. d \in asleep /\ UNCHANGED <<localPipes, incoming, done>>
    BY <1>6 DEF Client, Call, Die, Return, RouterReject, LocalReadStart,
       Forward, ForwardRefused, Relay, gatewayVars
  <2>2. Same
    BY <1>0, <1>1, <1>5, <1>6, <2>1 DEF TypeOK, Client, Call, Die, Return,
       RouterReject, LocalReadStart, Forward, ForwardRefused, Relay, clientVars
  <2> QED BY <1>4, <2>1, <2>2
<1>7. ASSUME NEW c \in Clients, LocalWrite(c) PROVE Goal
  <2>1. /\ d \in asleep /\ d \notin LocalReaders(slot(c))
        /\ UNCHANGED <<incoming, done>>
    BY <1>7 DEF LocalWrite, gatewayVars
  <2>2. Same
    BY <1>0, <1>1, <1>5, <1>7, <2>1 DEF TypeOK, LocalWrite, clientVars
  <2>3. phase[d] = "localwait" => slot(d) # slot(c)
    BY <1>1, <2>1 DEF LocalReaders
  <2>4. slot(d) # slot(c) =>
          localPipes'[slot(d)][req[d].pipe] = localPipes[slot(d)][req[d].pipe]
    BY <1>0, <1>2, <1>7 DEF LocalWrite, TypeOK
  <2> QED BY <1>3, <2>1, <2>2, <2>3, <2>4
<1>8. ASSUME NEW c \in Clients, LocalReadWait(c) PROVE Goal
  <2>1. /\ asleep' = asleep \cup {c}
        /\ UNCHANGED <<ops, req, phase, localPipes, incoming, done>>
    BY <1>8 DEF LocalReadWait, clientVars, gatewayVars
  <2>2. CASE d \in asleep
    BY <1>4, <2>1, <2>2
  <2>3. CASE d = c
    <3>1. phase'[d] = "localwait" /\ ~LocalMatch(d)'
      BY <1>8, <2>1, <2>3 DEF LocalReadWait, LocalMatch, slot
    <3> QED BY <3>1 DEF WakeOf
  <2> QED BY <2>1, <2>2, <2>3
<1>9. ASSUME NEW c \in Clients, LocalRead(c) PROVE Goal
  <2>1. d \in asleep /\ c # d /\ UNCHANGED <<incoming, done>>
    BY <1>9 DEF LocalRead, gatewayVars
  <2>2. Same
    BY <1>0, <1>1, <1>9, <2>1 DEF TypeOK, LocalRead, clientVars
  <2>3. phase[d] = "localwait" => req[c].pipe # req[d].pipe
    <3>1. phase[d] = "localwait" => home[d] = req[d].pipe[2]
      BY <1>0, <1>1 DEF AnswerInv, AnswerOf
    <3>2. home[c] = req[c].pipe[2]
      BY <1>0, <1>9 DEF AnswerInv, AnswerOf, LocalRead
    <3> QED BY <1>1, <2>1, <3>1, <3>2 DEF OneProcessPerChiplet
  <2>4. req[c].pipe # req[d].pipe =>
          localPipes'[slot(d)][req[d].pipe] = localPipes[slot(d)][req[d].pipe]
    BY <1>0, <1>2, <1>9 DEF LocalRead, TypeOK
  <2> QED BY <1>3, <2>1, <2>2, <2>3, <2>4
<1>10. ASSUME NEW c \in Clients, NEW g \in Gateways,
              \/ EnqueueWrite(c, g) \/ ReadStart(c, g) \/ WriteFinish(c, g)
              \/ ReadAbandon(c, g) \/ SendReply(c, g)
       PROVE  Goal
  <2>1. d \in asleep /\ UNCHANGED <<localPipes, incoming, done>>
    BY <1>10 DEF EnqueueWrite, ReadStart, WriteFinish, ReadAbandon, SendReply,
       gatewayVars
  <2>2. Same
    BY <1>0, <1>1, <1>5, <1>10, <2>1 DEF TypeOK, EnqueueWrite, ReadStart,
       WriteFinish, ReadAbandon, SendReply, AtGateway, clientVars
  <2> QED BY <1>4, <2>1, <2>2
<1>11. ASSUME NEW c \in Clients, NEW g \in Gateways, HandlerWait(c, g)
       PROVE  Goal
  <2>1. /\ asleep' = asleep \cup {c}
        /\ UNCHANGED <<ops, req, phase, localPipes, incoming, done>>
    BY <1>11 DEF HandlerWait, clientVars, gatewayVars
  <2>2. CASE d \in asleep
    BY <1>4, <2>1, <2>2
  <2>3. CASE d = c
    <3>1. /\ GatewayOf(d)' = GatewayOf(d) /\ MsgOf(d)' = MsgOf(d)
          /\ GatewayOf(d) = g
      BY <1>11, <2>1, <2>3
      DEF HandlerWait, AtGateway, GatewayOf, MsgOf, slot, peer_for
    <3>2. \/ phase[d] = "wwait" /\ MsgOf(d) \notin done
          \/ phase[d] = "rwait" /\ ~ReadMatch(d, g)
      BY <1>11, <2>3 DEF HandlerWait, AtGateway, WriteReady, ReadReady
    <3>3. ReadMatch(d, GatewayOf(d))' <=> ReadMatch(d, g)
      BY <2>1, <3>1 DEF ReadMatch
    <3> QED BY <2>1, <3>1, <3>2, <3>3 DEF WakeOf
  <2> QED BY <2>1, <2>2, <2>3
<1>12. ASSUME NEW c \in Clients, NEW g \in Gateways, SpuriousWakeup(c, g)
       PROVE  Goal
  BY <1>4, <1>12 DEF SpuriousWakeup, clientVars, gatewayVars
<1>13. ASSUME NEW c \in Clients, NEW g \in Gateways, ReadPop(c, g) PROVE Goal
  <2>1. d \in asleep /\ c # d /\ UNCHANGED <<localPipes, done>>
    BY <1>13 DEF ReadPop
  <2>2. Same
    BY <1>0, <1>1, <1>13, <2>1 DEF TypeOK, ReadPop, clientVars
  <2>3. phase[d] = "rwait" => req[c].pipe # req[d].pipe
    <3>1. phase[d] = "rwait" => home[d] = req[d].pipe[2]
      BY <1>0, <1>1 DEF AnswerInv, AnswerOf
    <3>2. home[c] = req[c].pipe[2]
      BY <1>0, <1>13 DEF AnswerInv, AnswerOf, ReadPop, AtGateway
    <3> QED BY <1>1, <2>1, <3>1, <3>2 DEF OneProcessPerChiplet
  <2>4. phase[d] = "rwait" => GatewayOf(d) \in Gateways
    BY <2>1 DEF WakeInv, WakeOf
  <2>5. phase[d] = "rwait" => incoming'[GatewayOf(d)][req[d].pipe]
                                = incoming[GatewayOf(d)][req[d].pipe]
    BY <1>0, <1>2, <1>13, <2>3, <2>4 DEF ReadPop, TypeOK
  <2> QED BY <1>3, <2>1, <2>2, <2>5
<1>14. ASSUME NEW g \in Gateways, ForwardComplete(g) PROVE Goal
  <2>1. /\ d \in asleep /\ d # Head(outgoing[g]).owner
        /\ done' = done \cup {Head(outgoing[g])}
        /\ UNCHANGED <<ops, req, phase, localPipes, incoming>>
    BY <1>14 DEF ForwardComplete, clientVars
  <2>2. MsgOf(d) # Head(outgoing[g])
    BY <2>1 DEF MsgOf
  <2> QED BY <1>3, <2>1, <2>2
<1>15. ASSUME NEW g \in Gateways, Receive(g) PROVE Goal
  <2>1. /\ d \in asleep /\ d \notin RemoteReaders(g)
        /\ UNCHANGED <<ops, req, phase, localPipes, done>>
    BY <1>15 DEF Receive, clientVars
  <2>2. phase[d] = "rwait" => GatewayOf(d) \in Gateways /\ GatewayOf(d) # g
    BY <1>1, <2>1 DEF RemoteReaders, WakeInv, WakeOf
  <2>3. phase[d] = "rwait" => incoming'[GatewayOf(d)] = incoming[GatewayOf(d)]
    BY <1>0, <1>15, <2>2 DEF Receive, TypeOK
  <2> QED BY <1>3, <2>1, <2>3
<1>16. ASSUME NEW g \in Gateways, Exit(g) \/ Kill(g) PROVE Goal
  <2>1. /\ d \in asleep /\ phase'[d] = phase[d]
        /\ UNCHANGED <<ops, req, localPipes, incoming, done>>
    BY <1>1, <1>16 DEF Exit, Kill, Close, clientVars
  <2> QED BY <1>4, <2>1
<1>17. ASSUME NEW g \in Gateways,
              \/ ForwardPeek(g) \/ ForwardFull(g) \/ ForwardSend(g)
              \/ ReceiveTerminate(g) \/ ProxyMove(g) \/ ProxyTerminate(g)
       PROVE  Goal
  BY <1>4, <1>17 DEF ForwardPeek, ForwardFull, ForwardSend, ReceiveTerminate,
     ProxyMove, ProxyTerminate, clientVars
<1>18. ASSUME UNCHANGED vars PROVE Goal
  BY <1>4, <1>18 DEF vars
<1> QED
  BY <1>6, <1>7, <1>8, <1>9, <1>10, <1>11, <1>12, <1>13, <1>14, <1>15,
     <1>16, <1>17, <1>18
  DEF Next, RouterStep, HandlerStep, ForwardOneWrite, ReceiveAll

\* Where each chiplet is one process, no request sleeps on a condition
\* variable of router or gateway while what it waits for is there, whatever
\* the interleaving of pops, notifications and spurious wake-ups.
THEOREM NoWakeupIsLost == OneProcessPerChiplet => (Spec => []NoLostWakeup)
<1> SUFFICES ASSUME OneProcessPerChiplet PROVE Spec => []NoLostWakeup
  OBVIOUS
<1>1. Init => WakeInv
  BY DEF Init, WakeInv
<1>2. TransportInv /\ WakeInv /\ [Next]_vars => WakeInv'
  BY WakeStep
<1>3. WakeInv => NoLostWakeup
  BY DEF WakeInv, WakeOf, NoLostWakeup
<1> QED BY <1>1, <1>2, <1>3, TransportInvHolds, PTL DEF Spec

-----------------------------------------------------------------------------
(* One FIFO per pipe.                                                      *)

HIDE TransportAssumption

(***************************************************************************)
(* Induction over the natural numbers, for a set.                          *)
(***************************************************************************)
LEMMA SetInduction ==
  ASSUME NEW T, 0 \in T, \A n \in Nat : n \in T => n + 1 \in T
  PROVE  \A n \in Nat : n \in T
<1> DEFINE B == Nat \ T
           R == OpToRel(<, Nat)
<1> SUFFICES ASSUME B # {} PROVE FALSE
  OBVIOUS
<1>1. IsWellFoundedOn(R, Nat)
  BY NatLessThanWellFounded
<1>2. B \subseteq Nat
  OBVIOUS
<1>3. \A y, x \in Nat : y < x => <<y, x>> \in R
  BY DEF OpToRel
<1> HIDE DEF R
<1>4. PICK x \in B : \A y \in B : ~(<<y, x>> \in R)
  <2> HIDE DEF B
  <2> QED BY <1>1, <1>2, WFMin
<1>5. x \in Nat /\ x # 0 /\ x - 1 \in Nat /\ x - 1 < x /\ x = (x - 1) + 1
  BY <1>4
<1>6. x - 1 \notin B
  BY <1>3, <1>4, <1>5
<1> QED BY <1>4, <1>5, <1>6

(***************************************************************************)
(* What the selection of the payloads of a pipe computes.                  *)
(***************************************************************************)
Extend(q, m, p) == IF m.pipe = p THEN Append(q, m) ELSE q

Filters(g, s, p) ==
  g = [i \in 0..Len(s) |-> IF i = 0 THEN << >>
        ELSE IF s[i].pipe = p THEN Append(g[i - 1], s[i]) ELSE g[i - 1]]

LEMMA OfPipeUnfold == \A s, p : OfPipe(s, p) = (CHOOSE g : Filters(g, s, p))[Len(s)]
  BY DEF OfPipe, Filters

LEMMA FilterExists ==
  ASSUME NEW S, NEW s \in Seq(S), NEW p
  PROVE  \E g \in [0..Len(s) -> Seq(S)] : Filters(g, s, p)
<1> DEFINE Good(g, n) == /\ g[0] = << >>
                         /\ \A i \in 1..n : g[i] = Extend(g[i - 1], s[i], p)
           T == {n \in Nat : n <= Len(s) =>
                   \E g \in [0..n -> Seq(S)] : Good(g, n)}
<1>1. 0 \in T
  <2> DEFINE g == [i \in 0..0 |-> << >>]
  <2>1. g \in [0..0 -> Seq(S)] /\ g[0] = << >>
    OBVIOUS
  <2> HIDE DEF g
  <2>2. Good(g, 0)
    BY <2>1
  <2>3. \E f \in [0..0 -> Seq(S)] : Good(f, 0)
    BY <2>1, <2>2
  <2> QED BY <2>3
<1>2. ASSUME NEW n \in Nat, n \in T, n + 1 <= Len(s) PROVE n + 1 \in T
  <2>1. PICK g \in [0..n -> Seq(S)] : Good(g, n)
    BY <1>2
  <2> DEFINE h == [i \in 0..n + 1 |->
                     IF i = n + 1 THEN Extend(g[n], s[n + 1], p) ELSE g[i]]
  <2>2. s[n + 1] \in S /\ g[n] \in Seq(S)
    BY <1>2
  <2>3. Extend(g[n], s[n + 1], p) \in Seq(S)
    BY <2>2 DEF Extend
  <2>4. h \in [0..n + 1 -> Seq(S)]
    BY <2>3
  <2>5. Good(h, n + 1)
    <3>1. h[0] = << >> /\ h[n + 1] = Extend(g[n], s[n + 1], p) /\ h[n] = g[n]
      BY <2>1
    <3>2. ASSUME NEW i \in 1..n PROVE h[i] = Extend(h[i - 1], s[i], p)
      <4>1. h[i] = g[i] /\ h[i - 1] = g[i - 1]
        OBVIOUS
      <4> QED BY <2>1, <4>1
    <3>3. ASSUME NEW i \in 1..n + 1 PROVE h[i] = Extend(h[i - 1], s[i], p)
      <4>1. CASE i = n + 1
        <5>1. i - 1 = n
          BY <4>1
        <5> QED BY <3>1, <4>1, <5>1
      <4>2. CASE i # n + 1
        <5>1. i \in 1..n
          BY <4>2
        <5> QED BY <3>2, <5>1
      <4> QED BY <4>1, <4>2
    <3> QED BY <3>1, <3>3
  <2> HIDE DEF h
  <2>6. \E f \in [0..n + 1 -> Seq(S)] : Good(f, n + 1)
    BY <2>4, <2>5
  <2> HIDE DEF Good
  <2> QED BY <2>6
<1>3. \A n \in Nat : n \in T => n + 1 \in T
  <2> HIDE DEF Good
  <2>1. ASSUME NEW n \in Nat, ~(n + 1 <= Len(s)) PROVE n + 1 \in T
    BY <2>1
  <2> HIDE DEF T
  <2> QED BY <1>2, <2>1
<1>4. Len(s) \in T
  <2> HIDE DEF T
  <2>1. Len(s) \in Nat
    OBVIOUS
  <2> QED BY <1>1, <1>3, <2>1, SetInduction
<1>5. PICK g \in [0..Len(s) -> Seq(S)] : Good(g, Len(s))
  BY <1>4
<1>6. Filters(g, s, p)
  <2> DEFINE h == [i \in 0..Len(s) |-> IF i = 0 THEN << >>
                   ELSE Extend(g[i - 1], s[i], p)]
  <2>1. Len(s) \in Nat /\ DOMAIN g = 0..Len(s)
    OBVIOUS
  <2>2. ASSUME NEW i \in 0..Len(s) PROVE g[i] = h[i]
    BY <1>5, <2>1
  <2>3. g = h
    BY <2>1, <2>2
  <2> QED BY <2>3 DEF Filters, Extend
<1> QED BY <1>6

Filter(s, p) == CHOOSE g : Filters(g, s, p)

LEMMA FilterProps ==
  ASSUME NEW S, NEW s \in Seq(S), NEW p
  PROVE  /\ Filter(s, p)[0] = << >>
         /\ \A i \in 0..Len(s) : Filter(s, p)[i] \in Seq(S)
         /\ \A i \in 1..Len(s) :
              Filter(s, p)[i] = Extend(Filter(s, p)[i - 1], s[i], p)
         /\ OfPipe(s, p) = Filter(s, p)[Len(s)]
<1> DEFINE g == Filter(s, p)
<1>1. Filters(g, s, p)
  BY FilterExists DEF Filter
<1> HIDE DEF g
<1>2. Len(s) \in Nat
  OBVIOUS
<1>3. g[0] = << >> /\ \A i \in 1..Len(s) : g[i] = Extend(g[i - 1], s[i], p)
  <2>1. \A i \in 0..Len(s) : g[i] = IF i = 0 THEN << >>
                                    ELSE Extend(g[i - 1], s[i], p)
    BY <1>1 DEF Filters, Extend
  <2> QED BY <1>2, <2>1
<1> DEFINE T == {n \in Nat : n <= Len(s) => g[n] \in Seq(S)}
<1>4. 0 \in T
  <2>1. << >> \in Seq(S)
    OBVIOUS
  <2> QED BY <1>3, <2>1
<1>5. ASSUME NEW n \in Nat, n \in T PROVE n + 1 \in T
  <2> SUFFICES ASSUME n + 1 <= Len(s) PROVE g[n + 1] \in Seq(S)
    OBVIOUS
  <2>1. g[n] \in Seq(S) /\ n + 1 \in 1..Len(s) /\ s[n + 1] \in S
    BY <1>2, <1>5
  <2>2. g[n + 1] = Extend(g[n], s[n + 1], p)
    BY <1>3, <2>1
  <2> QED BY <2>1, <2>2 DEF Extend
<1>6. \A n \in Nat : n \in T
  <2> HIDE DEF T
  <2> QED BY <1>4, <1>5, SetInduction
<1>7. OfPipe(s, p) = g[Len(s)]
  BY OfPipeUnfold DEF g, Filter
<1> QED BY <1>2, <1>3, <1>6, <1>7 DEF g

LEMMA OfPipeType ==
  ASSUME NEW S, NEW s \in Seq(S), NEW p
  PROVE  OfPipe(s, p) \in Seq(S)
<1>1. Len(s) \in 0..Len(s)
  OBVIOUS
<1> QED BY <1>1, FilterProps

LEMMA OfPipeEmpty == \A p : OfPipe(<< >>, p) = << >>
<1>1. << >> \in Seq({}) /\ Len(<< >>) = 0
  OBVIOUS
<1> QED BY <1>1, FilterProps

LEMMA OfPipeAppend ==
  ASSUME NEW S, NEW s \in Seq(S), NEW e \in S, NEW p
  PROVE  OfPipe(Append(s, e), p) = Extend(OfPipe(s, p), e, p)
<1> DEFINE t == Append(s, e)
           f == Filter(s, p)
           h == Filter(t, p)
<1>1. /\ t \in Seq(S) /\ Len(s) \in Nat /\ Len(t) = Len(s) + 1
      /\ t[Len(s) + 1] = e /\ \A i \in 1..Len(s) : t[i] = s[i]
  OBVIOUS
<1> HIDE DEF t
<1>2. /\ f[0] = << >> /\ OfPipe(s, p) = f[Len(s)]
      /\ \A i \in 1..Len(s) : f[i] = Extend(f[i - 1], s[i], p)
  BY FilterProps
<1>3. /\ h[0] = << >> /\ OfPipe(t, p) = h[Len(t)]
      /\ \A i \in 1..Len(t) : h[i] = Extend(h[i - 1], t[i], p)
  BY <1>1, FilterProps
<1> HIDE DEF f, h
<1> DEFINE T == {n \in Nat : n <= Len(s) => h[n] = f[n]}
<1>4. 0 \in T
  BY <1>2, <1>3
<1>5. ASSUME NEW n \in Nat, n \in T PROVE n + 1 \in T
  <2> SUFFICES ASSUME n + 1 <= Len(s) PROVE h[n + 1] = f[n + 1]
    OBVIOUS
  <2>1. /\ h[n] = f[n] /\ n + 1 \in 1..Len(s) /\ n + 1 \in 1..Len(t)
        /\ (n + 1) - 1 = n /\ t[n + 1] = s[n + 1]
    BY <1>1, <1>5
  <2>2. f[n + 1] = Extend(f[n], s[n + 1], p)
    BY <1>2, <2>1
  <2>3. h[n + 1] = Extend(h[n], t[n + 1], p)
    BY <1>3, <2>1
  <2> QED BY <2>1, <2>2, <2>3
<1>6. \A n \in Nat : n \in T
  <2> HIDE DEF T
  <2> QED BY <1>4, <1>5, SetInduction
<1>7. h[Len(s)] = f[Len(s)]
  BY <1>1, <1>6
<1>8. h[Len(s) + 1] = Extend(h[Len(s)], e, p)
  <2>1. Len(s) + 1 \in 1..Len(t) /\ (Len(s) + 1) - 1 = Len(s)
    BY <1>1
  <2> QED BY <1>1, <1>3, <2>1
<1> QED BY <1>1, <1>2, <1>3, <1>7, <1>8 DEF t

\* The head of s as the payloads of pipe p see it.
First(s, p) == IF Head(s).pipe = p THEN <<Head(s)>> ELSE << >>

LEMMA OfPipeTail ==
  ASSUME NEW S, NEW s \in Seq(S), s # << >>, NEW p
  PROVE  OfPipe(s, p) = First(s, p) \o OfPipe(Tail(s), p)
<1> DEFINE t == Tail(s)
           f == Filter(s, p)
           h == Filter(t, p)
           a == First(s, p)
<1>1. /\ t \in Seq(S) /\ Len(t) \in Nat /\ Len(s) = Len(t) + 1
      /\ s[1] = Head(s) /\ Head(s) \in S
      /\ \A i \in 1..Len(t) : t[i] = s[i + 1] /\ t[i] \in S
  OBVIOUS
<1>2. a \in Seq(S) /\ Extend(<< >>, Head(s), p) = a
  BY <1>1 DEF First, Extend
<1> HIDE DEF t, a
<1>3. /\ f[0] = << >> /\ OfPipe(s, p) = f[Len(s)]
      /\ \A i \in 1..Len(s) : f[i] = Extend(f[i - 1], s[i], p)
  BY FilterProps
<1>4. /\ h[0] = << >> /\ OfPipe(t, p) = h[Len(t)]
      /\ \A i \in 0..Len(t) : h[i] \in Seq(S)
      /\ \A i \in 1..Len(t) : h[i] = Extend(h[i - 1], t[i], p)
  BY <1>1, FilterProps
<1> HIDE DEF f, h
<1> DEFINE T == {n \in Nat : n <= Len(t) => f[n + 1] = a \o h[n]}
<1>5. 0 \in T
  <2>1. f[1] = a
    <3>1. 1 \in 1..Len(s) /\ 1 - 1 = 0
      BY <1>1
    <3> QED BY <1>1, <1>2, <1>3, <3>1
  <2>2. a = a \o h[0]
    BY <1>2, <1>4, ConcatEmptySeq
  <2> QED BY <2>1, <2>2
<1>6. ASSUME NEW n \in Nat, n \in T PROVE n + 1 \in T
  <2> SUFFICES ASSUME n + 1 <= Len(t) PROVE f[(n + 1) + 1] = a \o h[n + 1]
    OBVIOUS
  <2> DEFINE e == t[n + 1]
  <2>1. /\ f[n + 1] = a \o h[n] /\ n + 1 \in 1..Len(t)
        /\ (n + 1) + 1 \in 1..Len(s) /\ ((n + 1) + 1) - 1 = n + 1
        /\ (n + 1) - 1 = n /\ s[(n + 1) + 1] = e /\ e \in S
        /\ n \in 0..Len(t)
    <3>1. f[n + 1] = a \o h[n]
      BY <1>1, <1>6
    <3>2. n + 1 \in 1..Len(t)
      BY <1>1
    <3> QED BY <1>1, <3>1, <3>2
  <2> HIDE DEF e
  <2>2. f[(n + 1) + 1] = Extend(a \o h[n], e, p)
    BY <1>3, <2>1
  <2>3. h[n + 1] = Extend(h[n], e, p)
    BY <1>4, <2>1 DEF e
  <2>4. h[n] \in Seq(S)
    BY <1>4, <2>1
  <2>5. Append(a \o h[n], e) = a \o Append(h[n], e)
    <3>1. a \in Seq(S) /\ h[n] \in Seq(S) /\ e \in S
      BY <1>2, <2>1, <2>4
    <3>2. PICK u \in Seq(S), v \in Seq(S), x \in S : u = a /\ v = h[n] /\ x = e
      BY <3>1
    <3>3. Append(u \o v, x) = u \o Append(v, x)
      BY ONLY u \in Seq(S), v \in Seq(S), x \in S
    <3> QED BY ONLY <3>2, <3>3
  <2> QED BY <2>2, <2>3, <2>5 DEF Extend
<1>7. \A n \in Nat : n \in T
  <2> HIDE DEF T
  <2> QED BY <1>5, <1>6, SetInduction
<1>8. f[Len(s)] = a \o h[Len(t)]
  <2>1. Len(t) \in T /\ Len(t) <= Len(t)
    BY <1>1, <1>7
  <2> QED BY <1>1, <2>1
<1> QED BY <1>3, <1>4, <1>8 DEF t, a

LEMMA ExtendIsConcat ==
  ASSUME NEW S, NEW q \in Seq(S), NEW s \in Seq(S), s # << >>, NEW p
  PROVE  /\ First(s, p) \in Seq(S)
         /\ Extend(q, Head(s), p) = q \o First(s, p)
<1>1. Head(s) \in S
  OBVIOUS
<1>2. First(s, p) \in Seq(S)
  BY <1>1 DEF First
<1>3. CASE Head(s).pipe = p
  BY <1>1, <1>3, AppendIsConcat DEF Extend, First
<1>4. CASE Head(s).pipe # p
  BY <1>4, ConcatEmptySeq DEF Extend, First
<1> QED BY <1>2, <1>3, <1>4

\* A payload that moves from the front of t to the end of s, or from the
\* front of t to the queue of its own pipe, stays where it is in its pipe.
LEMMA MoveInPipe ==
  \A a, s, t \in Seq(Msgs), p \in Pipes : t # << >> =>
    /\ a \o OfPipe(Append(s, Head(t)), p) \o OfPipe(Tail(t), p)
         = a \o OfPipe(s, p) \o OfPipe(t, p)
    /\ Extend(a, Head(t), p) \o OfPipe(Tail(t), p) = a \o OfPipe(t, p)
<1> TAKE a, s, t \in Seq(Msgs), p \in Pipes
<1> HAVE t # << >>
<1> DEFINE f == First(t, p)
           u == OfPipe(s, p)
           v == OfPipe(Tail(t), p)
<1>1. Head(t) \in Msgs /\ Tail(t) \in Seq(Msgs)
  OBVIOUS
<1>2. u \in Seq(Msgs) /\ v \in Seq(Msgs) /\ f \in Seq(Msgs)
  BY <1>1, OfPipeType, ExtendIsConcat
<1>3. OfPipe(t, p) = f \o v
  BY OfPipeTail
<1>4. OfPipe(Append(s, Head(t)), p) = u \o f
  <2>1. OfPipe(Append(s, Head(t)), p) = Extend(u, Head(t), p)
    BY <1>1, OfPipeAppend
  <2>2. Extend(u, Head(t), p) = u \o f
    BY <1>2, ExtendIsConcat
  <2> QED BY <2>1, <2>2
<1>5. Extend(a, Head(t), p) = a \o f
  BY ExtendIsConcat
<1> HIDE DEF f, u, v
<1>6. /\ (a \o (u \o f)) \o v = (a \o u) \o (f \o v)
      /\ (a \o f) \o v = a \o (f \o v)
  <2>1. PICK ff \in Seq(Msgs), uu \in Seq(Msgs), vv \in Seq(Msgs) :
          ff = f /\ uu = u /\ vv = v
    BY <1>2
  <2>2. \A w \in Seq(Msgs) : (w \o ff) \o vv = w \o (ff \o vv)
    BY ONLY ff \in Seq(Msgs), vv \in Seq(Msgs)
  <2>3. a \o (uu \o ff) = (a \o uu) \o ff /\ a \o uu \in Seq(Msgs)
    BY ONLY a \in Seq(Msgs), uu \in Seq(Msgs), ff \in Seq(Msgs)
  <2>4. /\ (a \o (uu \o ff)) \o vv = (a \o uu) \o (ff \o vv)
        /\ (a \o ff) \o vv = a \o (ff \o vv)
    BY ONLY a \in Seq(Msgs), <2>2, <2>3
  <2> QED BY ONLY <2>1, <2>4
<1>7. /\ a \o OfPipe(Append(s, Head(t)), p) \o v = a \o u \o OfPipe(t, p)
      /\ Extend(a, Head(t), p) \o v = a \o OfPipe(t, p)
  BY ONLY <1>3, <1>4, <1>5, <1>6
<1> QED BY <1>7 DEF u, v

LEMMA AppendConcat ==
  \A a, b \in Seq(Msgs), m \in Msgs : Append(a \o b, m) = a \o Append(b, m)
<1> SUFFICES ASSUME NEW a \in Seq(Msgs), NEW b \in Seq(Msgs), NEW m \in Msgs
             PROVE  Append(a \o b, m) = a \o Append(b, m)
  OBVIOUS
<1> QED BY ONLY a \in Seq(Msgs), b \in Seq(Msgs), m \in Msgs

LEMMA TailConcat ==
  \A a, b \in Seq(Msgs) : a # << >> =>
    /\ a \o b # << >> /\ Head(a \o b) = Head(a)
    /\ Tail(a \o b) = Tail(a) \o b
<1> SUFFICES ASSUME NEW a \in Seq(Msgs), NEW b \in Seq(Msgs), a # << >>
             PROVE  /\ a \o b # << >> /\ Head(a \o b) = Head(a)
                    /\ Tail(a \o b) = Tail(a) \o b
  OBVIOUS
<1>1. /\ a \o b \in Seq(Msgs) /\ Len(a \o b) = Len(a) + Len(b)
      /\ Len(a) \in Nat /\ Len(b) \in Nat /\ Len(a) >= 1
      /\ a[1] = Head(a) /\ (a \o b)[1] = a[1]
      /\ Tail(a) \in Seq(Msgs) /\ Len(Tail(a)) = Len(a) - 1
  OBVIOUS
<1>2. a \o b # << >> /\ Head(a \o b) = Head(a)
  BY <1>1
<1>3. /\ Tail(a \o b) \in Seq(Msgs) /\ Tail(a) \o b \in Seq(Msgs)
      /\ Len(Tail(a \o b)) = Len(Tail(a) \o b)
      /\ Len(Tail(a \o b)) = Len(a) + Len(b) - 1
  BY <1>1, <1>2
<1>4. ASSUME NEW i \in 1..Len(Tail(a \o b))
      PROVE  Tail(a \o b)[i] = (Tail(a) \o b)[i]
  BY <1>1, <1>2, <1>3
<1> QED BY <1>2, <1>3, <1>4, SeqEqual

(***************************************************************************)
(* The queue of a pipe, part by part.                                      *)
(***************************************************************************)
USE TransportAssumption

Placed(p) == {p[1], p[2]} \subseteq DOMAIN coordinates
Crosses(p) == Placed(p) /\ coordinates[p[1]] # coordinates[p[2]]
OutOf(p) == <<coordinates[p[1]], coordinates[p[2]]>>
InTo(p) == <<coordinates[p[2]], coordinates[p[1]]>>

LEMMA QueueCases ==
  ASSUME NEW p
  PROVE  /\ ~Placed(p) => QueueOf(p) = << >>
         /\ Placed(p) /\ ~Crosses(p) =>
              QueueOf(p) = localPipes[coordinates[p[1]]][p]
         /\ Crosses(p) =>
              QueueOf(p) = incoming[InTo(p)][p] \o OfPipe(inRing[InTo(p)], p)
                             \o OfPipe(outRing[OutOf(p)], p)
                             \o OfPipe(Unsent(OutOf(p)), p)
  BY DEF QueueOf, Placed, Crosses, InTo, OutOf

LEMMA CrossGateways ==
  ASSUME NEW p, Crosses(p)
  PROVE  /\ OutOf(p) \in Gateways /\ InTo(p) \in Gateways
         /\ InTo(p) = Opposite(OutOf(p)) /\ OutOf(p) = Opposite(InTo(p))
  BY DEF Crosses, Placed, OutOf, InTo, Gateways, Opposite

LEMMA CrossParts ==
  ASSUME TypeInv, NEW p \in Pipes, Crosses(p)
  PROVE  /\ incoming[InTo(p)][p] \in Seq(Msgs)
         /\ inRing[InTo(p)] \in Seq(Msgs)
         /\ outRing[OutOf(p)] \in Seq(Msgs)
         /\ Unsent(OutOf(p)) \in Seq(Msgs)
         /\ OfPipe(inRing[InTo(p)], p) \in Seq(Msgs)
         /\ OfPipe(outRing[OutOf(p)], p) \in Seq(Msgs)
         /\ OfPipe(Unsent(OutOf(p)), p) \in Seq(Msgs)
<1>1. /\ incoming[InTo(p)][p] \in Seq(Msgs)
      /\ inRing[InTo(p)] \in Seq(Msgs)
      /\ outRing[OutOf(p)] \in Seq(Msgs)
      /\ Unsent(OutOf(p)) \in Seq(Msgs)
  <2>1. OutOf(p) \in Gateways /\ InTo(p) \in Gateways
    BY CrossGateways
  <2> QED BY <2>1, LinkParts DEF TypeInv, TypeOK
<1> QED BY <1>1, OfPipeType

LEMMA QueueType ==
  ASSUME TypeInv, NEW p \in Pipes
  PROVE  QueueOf(p) \in Seq(Msgs)
<1>0. << >> \in Seq(Msgs)
  OBVIOUS
<1>1. CASE ~Placed(p)
  BY <1>0, <1>1, QueueCases
<1>2. CASE Placed(p) /\ ~Crosses(p)
  <2>1. coordinates[p[1]] \in Slots
    BY <1>2 DEF Placed
  <2>2. localPipes[coordinates[p[1]]][p] \in Seq(Msgs)
    BY <2>1 DEF TypeInv, TypeOK
  <2> QED BY <1>2, <2>2, QueueCases
<1>3. CASE Crosses(p)
  <2> DEFINE a == incoming[InTo(p)][p]
             b == OfPipe(inRing[InTo(p)], p)
             c == OfPipe(outRing[OutOf(p)], p)
             d == OfPipe(Unsent(OutOf(p)), p)
  <2>1. /\ a \in Seq(Msgs) /\ b \in Seq(Msgs) /\ c \in Seq(Msgs)
        /\ d \in Seq(Msgs)
    BY <1>3, CrossParts
  <2>2. QueueOf(p) = a \o b \o c \o d
    BY <1>3, QueueCases
  <2> HIDE DEF a, b, c, d
  <2>3. a \o b \in Seq(Msgs)
    BY ONLY <2>1, ConcatProperties
  <2>4. a \o b \o c \in Seq(Msgs)
    BY ONLY <2>1, <2>3, ConcatProperties
  <2>5. a \o b \o c \o d \in Seq(Msgs)
    BY ONLY <2>1, <2>4, ConcatProperties
  <2> QED BY <2>2, <2>5
<1> QED BY <1>1, <1>2, <1>3

LEMMA QueueCasesNext ==
  ASSUME NEW p
  PROVE  /\ ~Placed(p) => QueueOf(p)' = << >>
         /\ Placed(p) /\ ~Crosses(p) =>
              QueueOf(p)' = localPipes'[coordinates[p[1]]][p]
         /\ Crosses(p) =>
              QueueOf(p)' = incoming'[InTo(p)][p] \o OfPipe(inRing'[InTo(p)], p)
                              \o OfPipe(outRing'[OutOf(p)], p)
                              \o OfPipe(Unsent(OutOf(p))', p)
  BY DEF QueueOf, Placed, Crosses, InTo, OutOf, OfPipe, Unsent

(***************************************************************************)
(* A request waits where its pipe is.                                      *)
(***************************************************************************)
PlaceOf(c) ==
  /\ phase[c] = "localwait" => placed(c) /\ peer_for(c) = slot(c)
  /\ phase[c] \in {"atgateway", "wwait", "rwait"} =>
       placed(c) /\ peer_for(c) # slot(c)

PlaceInv == \A c \in Clients : PlaceOf(c)

LEMMA PlaceStep == TypeInv /\ PlaceInv /\ [Next]_vars => PlaceInv'
<1> SUFFICES ASSUME TypeInv, PlaceInv, [Next]_vars, NEW d \in Clients
             PROVE  PlaceOf(d)'
  BY DEF PlaceInv
<1>0. PlaceOf(d)
  BY DEF PlaceInv
<1> DEFINE Kept == /\ req'[d] = req[d]
                   /\ \/ phase'[d] = phase[d]
                      \/ phase'[d] \in {"reply", "relay", "replied", "idle"}
                      \/ phase[d] = "atgateway" /\ phase'[d] \in {"wwait", "rwait"}
<1>1. ASSUME Kept PROVE PlaceOf(d)'
  BY <1>0, <1>1 DEF PlaceOf, placed, peer_for, slot
<1> USE DEF TypeInv, TypeOK
<1>2. ASSUME NEW c \in Clients, NEW op \in {"W", "R"}, NEW p \in Pipes,
             NEW n \in Sizes, Call(c, op, p, n)
      PROVE  PlaceOf(d)'
  <2>1. CASE c = d
    BY <1>2, <2>1 DEF Call, PlaceOf
  <2>2. CASE c # d
    BY <1>1, <1>2, <2>2 DEF Call
  <2> QED BY <2>1, <2>2
<1>3. ASSUME NEW c \in Clients, LocalReadStart(c) \/ Forward(c)
      PROVE  PlaceOf(d)'
  <2>1. CASE c = d
    BY <1>3, <2>1
    DEF LocalReadStart, Forward, Reject, PlaceOf, placed, peer_for, slot,
        clientVars
  <2>2. CASE c # d
    BY <1>1, <1>3, <2>2 DEF LocalReadStart, Forward, clientVars
  <2> QED BY <2>1, <2>2
<1>4. ASSUME NEW c \in Clients,
             \/ Die(c) \/ Return(c) \/ RouterReject(c) \/ LocalWrite(c)
             \/ LocalReadWait(c) \/ LocalRead(c) \/ ForwardRefused(c)
             \/ Relay(c)
      PROVE  Kept
  BY <1>4 DEF Die, Return, RouterReject, LocalWrite, LocalReadWait, LocalRead,
     ForwardRefused, Relay, clientVars
<1>5. ASSUME NEW c \in Clients, NEW g \in Gateways,
             HandlerStep(c, g) \/ SpuriousWakeup(c, g)
      PROVE  Kept
  BY <1>5 DEF HandlerStep, SpuriousWakeup, EnqueueWrite, ReadStart,
     HandlerWait, WriteFinish, ReadPop, ReadAbandon, SendReply, AtGateway,
     clientVars
<1>6. ASSUME NEW g \in Gateways,
             \/ ForwardOneWrite(g) \/ ReceiveAll(g)
             \/ ProxyMove(g) \/ ProxyTerminate(g)
      PROVE  Kept
  BY <1>6 DEF ForwardOneWrite, ForwardPeek, ForwardFull, ForwardSend,
     ForwardComplete, ReceiveAll, Receive, ReceiveTerminate, ProxyMove,
     ProxyTerminate, clientVars
<1>7. ASSUME NEW g \in Gateways, Exit(g) \/ Kill(g) PROVE Kept
  BY <1>7 DEF Exit, Kill, Close, clientVars
<1>8. ASSUME UNCHANGED vars PROVE Kept
  BY <1>8 DEF vars
<1> QED
  BY <1>1, <1>2, <1>3, <1>4, <1>5, <1>6, <1>7, <1>8
  DEF Next, Client, RouterStep

\* Pipe and gateway of a request that its router keeps or forwards.
LEMMA PipeOfRequest ==
  ASSUME TypeInv, AnswerInv, NEW c \in Clients, phase[c] # "idle", placed(c)
  PROVE  LET p == req[c].pipe
         IN  /\ p \in Pipes /\ Placed(p)
             /\ Crosses(p) <=> peer_for(c) # slot(c)
             /\ req[c].op = "W" => /\ slot(c) = coordinates[p[1]]
                                   /\ GatewayOf(c) = OutOf(p)
             /\ req[c].op = "R" => /\ slot(c) = coordinates[p[2]]
                                   /\ peer_for(c) = coordinates[p[1]]
                                   /\ GatewayOf(c) = InTo(p)
<1> DEFINE p == req[c].pipe
<1>1. p \in Pipes /\ req[c].op \in {"W", "R"}
  BY DEF TypeInv, TypeOK, Requests
<1>2. /\ home[c] = (IF req[c].op = "W" THEN p[1] ELSE p[2])
      /\ home[c] \in DOMAIN coordinates
  BY DEF AnswerInv, AnswerOf
<1>3. (IF req[c].op = "W" THEN p[2] ELSE p[1]) \in DOMAIN coordinates
  BY DEF placed, coordinateOf
<1> QED
  BY <1>1, <1>2, <1>3
  DEF Placed, Crosses, slot, peer_for, coordinateOf, GatewayOf, OutOf, InTo

(***************************************************************************)
(* What a step does to the queues.                                         *)
(***************************************************************************)
QueuesKept == \A q \in Pipes : QueueOf(q)' = QueueOf(q)

QueuePut(p, m) ==
  \A q \in Pipes : QueueOf(q)' = IF q = p THEN Append(QueueOf(q), m)
                                 ELSE QueueOf(q)

QueueTaken(p) ==
  \A q \in Pipes : QueueOf(q)' = IF q = p THEN Tail(QueueOf(q))
                                 ELSE QueueOf(q)

LEMMA QueuesIdle ==
  ASSUME UNCHANGED <<localPipes, incoming, inRing, outRing, outgoing, loop>>
  PROVE  QueuesKept
  BY DEF QueuesKept, QueueOf, Unsent, OfPipe

LEMMA QueueInit ==
  ASSUME Init, NEW p \in Pipes
  PROVE  QueueOf(p) = << >>
<1>0. OfPipe(<< >>, p) = << >>
  BY OfPipeEmpty
<1>1. CASE ~Placed(p)
  BY <1>1, QueueCases
<1>2. CASE Placed(p) /\ ~Crosses(p)
  BY <1>2, QueueCases DEF Init, Placed
<1>3. CASE Crosses(p)
  <2>1. /\ incoming[InTo(p)][p] = << >> /\ inRing[InTo(p)] = << >>
        /\ outRing[OutOf(p)] = << >> /\ Unsent(OutOf(p)) = << >>
    BY <1>3, CrossGateways DEF Init, Unsent
  <2>2. QueueOf(p) = << >> \o << >> \o << >> \o << >>
    BY <1>0, <1>3, <2>1, QueueCases
  <2>3. << >> \o << >> = << >>
    OBVIOUS
  <2> QED BY <2>2, <2>3
<1> QED BY <1>1, <1>2, <1>3

\* A queue none of whose parts a step touches.
LEMMA QueueSame ==
  ASSUME NEW q \in Pipes,
         Placed(q) /\ ~Crosses(q) =>
           localPipes'[coordinates[q[1]]][q] = localPipes[coordinates[q[1]]][q],
         Crosses(q) => /\ incoming'[InTo(q)][q] = incoming[InTo(q)][q]
                       /\ inRing'[InTo(q)] = inRing[InTo(q)]
                       /\ outRing'[OutOf(q)] = outRing[OutOf(q)]
                       /\ Unsent(OutOf(q))' = Unsent(OutOf(q))
  PROVE  QueueOf(q)' = QueueOf(q)
<1>1. CASE ~Placed(q)
  BY <1>1, QueueCases, QueueCasesNext
<1>2. CASE Placed(q) /\ ~Crosses(q)
  BY <1>2, QueueCases, QueueCasesNext
<1>3. CASE Crosses(q)
  BY <1>3, QueueCases, QueueCasesNext
<1> QED BY <1>1, <1>2, <1>3

LEMMA QueueAfterPeek ==
  ASSUME TypeInv, NEW g \in Gateways,
         ForwardPeek(g) \/ ForwardFull(g) \/ ForwardComplete(g)
  PROVE  QueuesKept
<1> SUFFICES ASSUME NEW q \in Pipes PROVE QueueOf(q)' = QueueOf(q)
  BY DEF QueuesKept
<1>1. UNCHANGED <<localPipes, incoming, inRing, outRing>>
  BY DEF ForwardPeek, ForwardFull, ForwardComplete
<1>2. ASSUME NEW h \in Gateways PROVE Unsent(h)' = Unsent(h)
  <2>1. CASE h # g
    BY <2>1 DEF ForwardPeek, ForwardFull, ForwardComplete, Unsent, TypeInv,
       TypeOK
  <2>2. CASE h = g
    BY <2>2 DEF ForwardPeek, ForwardFull, ForwardComplete, Polling, Unsent,
       TypeInv, TypeOK
  <2> QED BY <2>1, <2>2
<1> QED BY <1>1, <1>2, QueueSame, CrossGateways

LEMMA QueueAfterSend ==
  ASSUME TypeInv, NEW g \in Gateways, ForwardSend(g)
  PROVE  QueuesKept
<1> SUFFICES ASSUME NEW q \in Pipes PROVE QueueOf(q)' = QueueOf(q)
  BY DEF QueuesKept
<1>1. /\ UNCHANGED <<localPipes, incoming, inRing>>
      /\ \A h \in Gateways : h # g => /\ Unsent(h)' = Unsent(h)
                                      /\ outRing'[h] = outRing[h]
  BY DEF ForwardSend, Unsent, TypeInv, TypeOK
<1>2. CASE ~(Crosses(q) /\ OutOf(q) = g)
  BY <1>1, <1>2, QueueSame, CrossGateways
<1>3. CASE Crosses(q) /\ OutOf(q) = g
  <2> DEFINE a == incoming[InTo(q)][q] \o OfPipe(inRing[InTo(q)], q)
  <2>1. a \in Seq(Msgs)
    BY <1>3, CrossParts, ConcatProperties
  <2>2. /\ outRing[g] \in Seq(Msgs) /\ outgoing[g] \in Seq(Msgs)
        /\ outgoing[g] # << >>
    BY LinkParts DEF ForwardSend
  <2>3. /\ outRing'[g] = Append(outRing[g], Head(outgoing[g]))
        /\ Unsent(g) = outgoing[g] /\ Unsent(g)' = Tail(outgoing[g])
    BY DEF ForwardSend, Unsent, TypeInv, TypeOK
  <2> DEFINE before == a \o OfPipe(outRing[g], q) \o OfPipe(outgoing[g], q)
             after == a \o OfPipe(Append(outRing[g], Head(outgoing[g])), q)
                        \o OfPipe(Tail(outgoing[g]), q)
  <2>4. QueueOf(q) = before
    BY <1>3, <2>3, QueueCases
  <2>5. QueueOf(q)' = after
    BY <1>1, <1>3, <2>3, QueueCasesNext
  <2> HIDE DEF a, before, after
  <2>6. a \o OfPipe(Append(outRing[g], Head(outgoing[g])), q)
          \o OfPipe(Tail(outgoing[g]), q)
          = a \o OfPipe(outRing[g], q) \o OfPipe(outgoing[g], q)
    BY ONLY <2>1, <2>2, q \in Pipes, MoveInPipe, ZenonT(30)
  <2>7. after = before
    BY <2>6 DEF before, after
  <2> QED BY ONLY <2>4, <2>5, <2>7
<1> QED BY <1>2, <1>3

LEMMA QueueAfterProxy ==
  ASSUME TypeInv, NEW g \in Gateways, ProxyMove(g)
  PROVE  QueuesKept
<1> SUFFICES ASSUME NEW q \in Pipes PROVE QueueOf(q)' = QueueOf(q)
  BY DEF QueuesKept
<1> DEFINE o == Opposite(g)
<1>1. /\ UNCHANGED <<localPipes, incoming, outgoing, loop>>
      /\ o \in Gateways
      /\ \A h \in Gateways : /\ h # g => outRing'[h] = outRing[h]
                             /\ h # o => inRing'[h] = inRing[h]
                             /\ Unsent(h)' = Unsent(h)
  BY GatewayPairs DEF ProxyMove, Unsent, TypeInv, TypeOK
<1>2. CASE ~(Crosses(q) /\ OutOf(q) = g)
  <2>1. Crosses(q) => InTo(q) # o /\ OutOf(q) # g
    BY <1>2, CrossGateways, OppositeInjective
  <2>2. Crosses(q) => OutOf(q) \in Gateways /\ InTo(q) \in Gateways
    BY CrossGateways
  <2> QED BY <1>1, <2>1, <2>2, QueueSame
<1>3. CASE Crosses(q) /\ OutOf(q) = g
  <2>1. InTo(q) = o
    BY <1>3, CrossGateways
  <2>2. /\ outRing[g] \in Seq(Msgs) /\ inRing[o] \in Seq(Msgs)
        /\ outRing[g] # << >> /\ incoming[o][q] \in Seq(Msgs)
    BY <1>3, <2>1, CrossParts DEF ProxyMove
  <2>3. /\ inRing'[o] = Append(inRing[o], Head(outRing[g]))
        /\ outRing'[g] = Tail(outRing[g])
    BY <1>1 DEF ProxyMove, TypeInv, TypeOK
  <2> DEFINE before == incoming[o][q] \o OfPipe(inRing[o], q) \o OfPipe(outRing[g], q)
             after == incoming[o][q] \o OfPipe(Append(inRing[o], Head(outRing[g])), q)
                        \o OfPipe(Tail(outRing[g]), q)
  <2>4. QueueOf(q) = before \o OfPipe(Unsent(g), q)
    BY <1>3, <2>1, QueueCases
  <2>5. QueueOf(q)' = after \o OfPipe(Unsent(g), q)
    BY <1>1, <1>3, <2>1, <2>3, QueueCasesNext
  <2> HIDE DEF o, before, after
  <2>6. incoming[o][q] \o OfPipe(Append(inRing[o], Head(outRing[g])), q)
          \o OfPipe(Tail(outRing[g]), q)
          = incoming[o][q] \o OfPipe(inRing[o], q) \o OfPipe(outRing[g], q)
    BY ONLY <2>2, q \in Pipes, MoveInPipe, ZenonT(30)
  <2>7. after = before
    BY <2>6 DEF before, after
  <2> QED BY ONLY <2>4, <2>5, <2>7
<1> QED BY <1>2, <1>3

LEMMA QueueAfterReceive ==
  ASSUME TypeInv, NEW g \in Gateways, Receive(g)
  PROVE  QueuesKept
<1> SUFFICES ASSUME NEW q \in Pipes PROVE QueueOf(q)' = QueueOf(q)
  BY DEF QueuesKept
<1> DEFINE m == Head(inRing[g])
<1>0. /\ inRing[g] \in Seq(Msgs) /\ inRing[g] # << >> /\ m \in Msgs
      /\ m.pipe \in Pipes
  <2>1. inRing[g] \in Seq(Msgs) /\ inRing[g] # << >>
    BY DEF Receive, TypeInv, TypeOK
  <2>2. m \in Msgs
    BY <2>1
  <2> QED BY <2>1, <2>2 DEF Msgs
<1>1. /\ UNCHANGED <<localPipes, outRing, outgoing, loop>>
      /\ \A h \in Gateways : /\ h # g => /\ inRing'[h] = inRing[h]
                                         /\ incoming'[h] = incoming[h]
                             /\ Unsent(h)' = Unsent(h)
  BY DEF Receive, Unsent, TypeInv, TypeOK
<1>2. CASE ~(Crosses(q) /\ InTo(q) = g)
  BY <1>1, <1>2, QueueSame, CrossGateways
<1>3. CASE Crosses(q) /\ InTo(q) = g
  <2>1. OutOf(q) \in Gateways
    BY <1>3, CrossGateways
  <2>2. inRing'[g] = Tail(inRing[g])
    BY DEF Receive, TypeInv, TypeOK
  <2>3. incoming'[g][q] = Extend(incoming[g][q], m, q)
    BY <1>0 DEF Receive, TypeInv, TypeOK, Extend
  <2>4. QueueOf(q) = incoming[g][q] \o OfPipe(inRing[g], q)
                       \o OfPipe(outRing[OutOf(q)], q)
                       \o OfPipe(Unsent(OutOf(q)), q)
    BY <1>3, QueueCases
  <2>5. QueueOf(q)' = Extend(incoming[g][q], Head(inRing[g]), q)
                        \o OfPipe(Tail(inRing[g]), q)
                        \o OfPipe(outRing[OutOf(q)], q)
                        \o OfPipe(Unsent(OutOf(q)), q)
    BY <1>1, <1>3, <2>1, <2>2, <2>3, QueueCasesNext
  <2>6. incoming[g][q] \in Seq(Msgs)
    BY <1>3, CrossParts
  <2> QED BY <1>0, <2>4, <2>5, <2>6, MoveInPipe
<1> QED BY <1>2, <1>3

LEMMA QueueAfterLocalWrite ==
  ASSUME TypeInv, AnswerInv, NEW c \in Clients, LocalWrite(c)
  PROVE  QueuePut(req[c].pipe, MsgOf(c))
<1> DEFINE p == req[c].pipe
<1>1. phase[c] # "idle" /\ placed(c) /\ req[c].op = "W" /\ peer_for(c) = slot(c)
  BY DEF LocalWrite, Reject
<1>2. p \in Pipes /\ Placed(p) /\ ~Crosses(p) /\ slot(c) = coordinates[p[1]]
  BY <1>1, PipeOfRequest
<1>3. /\ localPipes' = [localPipes EXCEPT ![slot(c)][p] = Append(@, MsgOf(c))]
      /\ UNCHANGED <<incoming, inRing, outRing, outgoing, loop>>
  BY DEF LocalWrite, gatewayVars
<1>4. slot(c) \in Slots
  BY <1>2 DEF Placed
<1> SUFFICES ASSUME NEW q \in Pipes
             PROVE  QueueOf(q)' = IF q = p THEN Append(QueueOf(q), MsgOf(c))
                                  ELSE QueueOf(q)
  BY DEF QueuePut
<1>5. CASE q = p
  <2>1. localPipes'[slot(c)][p] = Append(localPipes[slot(c)][p], MsgOf(c))
    BY <1>2, <1>3, <1>4 DEF TypeInv, TypeOK
  <2> QED BY <1>2, <1>5, <2>1, QueueCases, QueueCasesNext
<1>6. CASE q # p
  <2>1. Placed(q) => localPipes'[coordinates[q[1]]][q]
                       = localPipes[coordinates[q[1]]][q]
    BY <1>3, <1>4, <1>6 DEF TypeInv, TypeOK, Placed
  <2>2. Unsent(OutOf(q))' = Unsent(OutOf(q))
    BY <1>3 DEF Unsent, OutOf
  <2> QED BY <1>3, <1>6, <2>1, <2>2, QueueSame
<1> QED BY <1>5, <1>6

LEMMA QueueAfterEnqueue ==
  ASSUME TypeInv, AnswerInv, PlaceInv, NEW c \in Clients, NEW g \in Gateways,
         EnqueueWrite(c, g)
  PROVE  QueuePut(req[c].pipe, MsgOf(c))
<1> DEFINE p == req[c].pipe
<1>1. /\ phase[c] = "atgateway" /\ placed(c) /\ req[c].op = "W"
      /\ peer_for(c) # slot(c) /\ g = GatewayOf(c)
  BY DEF EnqueueWrite, AtGateway, PlaceInv, PlaceOf
<1>2. p \in Pipes /\ Crosses(p) /\ OutOf(p) = g
  BY <1>1, PipeOfRequest
<1>3. UNCHANGED <<localPipes, incoming, inRing, outRing, loop>>
  BY DEF EnqueueWrite
<1>4. \A h \in Gateways : h # g => Unsent(h)' = Unsent(h)
  BY DEF EnqueueWrite, Unsent, TypeInv, TypeOK
<1>5. MsgOf(c) \in Msgs
  BY <1>1, MsgOfType DEF TypeInv
<1>6. PICK m \in Msgs : m = MsgOf(c)
  BY <1>5
<1>7. m.pipe = p
  BY <1>6 DEF MsgOf
<1>8. Unsent(g)' = Append(Unsent(g), m)
  <2>1. outgoing'[g] = Append(outgoing[g], m)
    BY <1>6 DEF EnqueueWrite, TypeInv, TypeOK
  <2> QED BY <1>3, <2>1, LinkParts, HeadTailAppend DEF Unsent
<1>9. Unsent(g) \in Seq(Msgs)
  BY LinkParts
<1> SUFFICES ASSUME NEW q \in Pipes
             PROVE  QueueOf(q)' = IF q = p THEN Append(QueueOf(q), m)
                                  ELSE QueueOf(q)
  BY <1>6 DEF QueuePut
<1>10. CASE ~(Crosses(q) /\ OutOf(q) = g)
  <2>1. q # p
    BY <1>2, <1>10
  <2> QED BY <1>3, <1>4, <1>10, <2>1, QueueSame, CrossGateways
<1>11. CASE Crosses(q) /\ OutOf(q) = g
  <2> DEFINE a == incoming[InTo(q)][q] \o OfPipe(inRing[InTo(q)], q)
                    \o OfPipe(outRing[g], q)
             b == OfPipe(Unsent(g), q)
  <2>1. a \in Seq(Msgs) /\ b \in Seq(Msgs)
    <3>1. /\ incoming[InTo(q)][q] \in Seq(Msgs)
          /\ OfPipe(inRing[InTo(q)], q) \in Seq(Msgs)
          /\ OfPipe(outRing[g], q) \in Seq(Msgs)
          /\ OfPipe(Unsent(g), q) \in Seq(Msgs)
      BY <1>11, CrossParts
    <3> QED BY ONLY <3>1
  <2>2. QueueOf(q) = a \o b
    BY <1>11, QueueCases
  <2>3. QueueOf(q)' = a \o OfPipe(Append(Unsent(g), m), q)
    BY <1>3, <1>8, <1>11, QueueCasesNext
  <2>4. OfPipe(Append(Unsent(g), m), q) = Extend(b, m, q)
    BY <1>9, OfPipeAppend
  <2> HIDE DEF a, b
  <2>5. CASE q = p
    <3>1. Extend(b, m, q) = Append(b, m)
      BY <1>7, <2>5 DEF Extend
    <3>2. Append(a \o b, m) = a \o Append(b, m)
      BY ONLY <2>1, m \in Msgs, AppendConcat, Zenon
    <3> QED BY ONLY <2>2, <2>3, <2>4, <2>5, <3>1, <3>2
  <2>6. CASE q # p
    <3>1. Extend(b, m, q) = b
      BY <1>7, <2>6 DEF Extend
    <3> QED BY ONLY <2>2, <2>3, <2>4, <2>6, <3>1
  <2> QED BY <2>5, <2>6
<1> QED BY <1>10, <1>11

\* A read takes the head of the queue of its pipe.
TakesHead(c) ==
  /\ QueueOf(req[c].pipe) # << >>
  /\ taken' = [taken EXCEPT ![c] = Append(@, Head(QueueOf(req[c].pipe)))]
  /\ QueueTaken(req[c].pipe)

LEMMA QueueAfterLocalRead ==
  ASSUME TypeInv, AnswerInv, PlaceInv, NEW c \in Clients, LocalRead(c)
  PROVE  TakesHead(c)
<1> DEFINE p == req[c].pipe
           l == localPipes[slot(c)][p]
<1>1. phase[c] = "localwait" /\ placed(c) /\ req[c].op = "R"
        /\ peer_for(c) = slot(c)
  BY DEF LocalRead, PlaceInv, PlaceOf, AnswerInv, AnswerOf
<1>2. /\ p \in Pipes /\ Placed(p) /\ ~Crosses(p)
      /\ slot(c) = coordinates[p[1]]
  BY <1>1, PipeOfRequest
<1>3. /\ l # << >>
      /\ localPipes' = [localPipes EXCEPT ![slot(c)][p] = Tail(l)]
      /\ taken' = [taken EXCEPT ![c] = Append(@, Head(l))]
      /\ UNCHANGED <<incoming, inRing, outRing, outgoing, loop>>
  BY DEF LocalRead, LocalMatch, gatewayVars
<1>4. slot(c) \in Slots
  BY <1>2 DEF Placed
<1>5. QueueOf(p) = l
  BY <1>2, QueueCases
<1>6. ASSUME NEW q \in Pipes
      PROVE  QueueOf(q)' = IF q = p THEN Tail(QueueOf(q)) ELSE QueueOf(q)
  <2>1. CASE q = p
    <3>1. localPipes'[slot(c)][p] = Tail(l)
      BY <1>2, <1>3, <1>4 DEF TypeInv, TypeOK
    <3> QED BY <1>2, <1>5, <2>1, <3>1, QueueCasesNext
  <2>2. CASE q # p
    <3>1. Placed(q) => localPipes'[coordinates[q[1]]][q]
                         = localPipes[coordinates[q[1]]][q]
      BY <1>3, <1>4, <2>2 DEF TypeInv, TypeOK, Placed
    <3>2. Unsent(OutOf(q))' = Unsent(OutOf(q))
      BY <1>3 DEF Unsent, OutOf
    <3> QED BY <1>3, <2>2, <3>1, <3>2, QueueSame
  <2> QED BY <2>1, <2>2
<1> QED BY <1>3, <1>5, <1>6 DEF TakesHead, QueueTaken

LEMMA QueueAfterReadPop ==
  ASSUME TypeInv, AnswerInv, PlaceInv, NEW c \in Clients, NEW g \in Gateways,
         ReadPop(c, g)
  PROVE  TakesHead(c)
<1>1. /\ phase[c] = "rwait" /\ placed(c) /\ req[c].op = "R"
      /\ peer_for(c) # slot(c) /\ g = GatewayOf(c)
  BY DEF ReadPop, AtGateway, PlaceInv, PlaceOf, AnswerInv, AnswerOf
<1>0. req[c].pipe \in Pipes /\ Crosses(req[c].pipe) /\ InTo(req[c].pipe) = g
  BY <1>1, PipeOfRequest
<1>2. PICK p \in Pipes : p = req[c].pipe /\ Crosses(p) /\ InTo(p) = g
  BY <1>0
<1> DEFINE l == incoming[g][p]
<1>3. /\ l # << >>
      /\ incoming' = [incoming EXCEPT ![g][p] = Tail(l)]
      /\ taken' = [taken EXCEPT ![c] = Append(@, Head(l))]
      /\ UNCHANGED <<localPipes, inRing, outRing, outgoing, loop>>
  BY <1>2 DEF ReadPop, ReadMatch
<1>4. \A q \in Pipes : Unsent(OutOf(q))' = Unsent(OutOf(q))
  BY <1>3 DEF Unsent, OutOf
<1> DEFINE u == OfPipe(inRing[g], p)
           v == OfPipe(outRing[OutOf(p)], p)
           w == OfPipe(Unsent(OutOf(p)), p)
<1>5. l \in Seq(Msgs) /\ u \in Seq(Msgs) /\ v \in Seq(Msgs) /\ w \in Seq(Msgs)
  BY <1>2, CrossParts
<1>6. QueueOf(p) = l \o u \o v \o w
  BY <1>2, QueueCases
<1>7. QueueOf(p)' = Tail(l) \o u \o v \o w
  <2>1. incoming'[g][p] = Tail(l)
    BY <1>2, <1>3 DEF TypeInv, TypeOK
  <2>2. QueueOf(p)' = incoming'[g][p] \o OfPipe(inRing'[g], p)
                        \o OfPipe(outRing'[OutOf(p)], p)
                        \o OfPipe(Unsent(OutOf(p))', p)
    BY <1>2, QueueCasesNext
  <2>3. Unsent(OutOf(p))' = Unsent(OutOf(p))
    BY <1>2, <1>4
  <2> QED BY <1>3, <2>1, <2>2, <2>3
<1>8. /\ QueueOf(p) # << >> /\ Head(QueueOf(p)) = Head(l)
      /\ QueueOf(p)' = Tail(QueueOf(p))
  <2> HIDE DEF l, u, v, w
  <2>1. l # << >>
    BY <1>3
  <2>2. /\ l \o u \o v \o w # << >> /\ Head(l \o u \o v \o w) = Head(l)
        /\ Tail(l \o u \o v \o w) = Tail(l) \o u \o v \o w
    <3>0. \A s, t \in Seq(Msgs) : s \o t \in Seq(Msgs)
      OBVIOUS
    <3>1. PICK a \in Seq(Msgs) : a = l \o u
      BY ONLY <1>5, <3>0, Zenon
    <3>2. PICK b \in Seq(Msgs) : b = a \o v
      BY ONLY <1>5, <3>0, a \in Seq(Msgs), Zenon
    <3>3. a # << >> /\ Head(a) = Head(l) /\ Tail(a) = Tail(l) \o u
      BY ONLY <1>5, <2>1, <3>1, TailConcat, Zenon
    <3>4. b # << >> /\ Head(b) = Head(a) /\ Tail(b) = Tail(a) \o v
      BY ONLY <1>5, <3>2, <3>3, a \in Seq(Msgs), TailConcat, Zenon
    <3>5. /\ b \o w # << >> /\ Head(b \o w) = Head(b)
          /\ Tail(b \o w) = Tail(b) \o w
      BY ONLY <1>5, <3>4, b \in Seq(Msgs), TailConcat, Zenon
    <3> QED BY ONLY <3>1, <3>2, <3>3, <3>4, <3>5, Zenon
  <2> QED BY ONLY <1>6, <1>7, <2>2
<1>9. ASSUME NEW q \in Pipes, q # p PROVE QueueOf(q)' = QueueOf(q)
  <2>1. Crosses(q) => incoming'[InTo(q)][q] = incoming[InTo(q)][q]
    BY <1>2, <1>3, <1>9, CrossGateways DEF TypeInv, TypeOK
  <2>2. Unsent(OutOf(q))' = Unsent(OutOf(q))
    BY <1>4
  <2> QED BY <1>3, <2>1, <2>2, QueueSame
<1> QED BY <1>2, <1>3, <1>8, <1>9 DEF TakesHead, QueueTaken

(***************************************************************************)
(* Every step puts one payload at the end of one queue, takes one from the *)
(* front of one queue, or leaves all queues alone.                         *)
(***************************************************************************)
Pending == {"sent", "atgateway"}

Idles == QueuesKept /\ UNCHANGED taken
Puts(c) == /\ QueuePut(req[c].pipe, MsgOf(c)) /\ UNCHANGED <<taken, ops>>
           /\ phase[c] \in Pending /\ phase'[c] \notin Pending

LEMMA StepEffect ==
  ASSUME TypeInv, AnswerInv, PlaceInv, [Next]_vars
  PROVE  Idles \/ \E c \in Clients : Puts(c) \/ TakesHead(c)
<1> DEFINE Goal == Idles \/ \E c \in Clients : Puts(c) \/ TakesHead(c)
<1> DEFINE Still == UNCHANGED <<localPipes, incoming, inRing, outRing, outgoing,
                                loop, taken>>
<1>1. ASSUME NEW c \in Clients, LocalWrite(c) PROVE Puts(c)
  <2>1. QueuePut(req[c].pipe, MsgOf(c))
    BY <1>1, QueueAfterLocalWrite
  <2> QED BY <1>1, <2>1
    DEF LocalWrite, Puts, Pending, TypeInv, TypeOK, clientVars
<1>2. ASSUME NEW c \in Clients, NEW g \in Gateways, EnqueueWrite(c, g)
      PROVE  Puts(c)
  <2>1. QueuePut(req[c].pipe, MsgOf(c))
    BY <1>2, QueueAfterEnqueue
  <2> QED BY <1>2, <2>1
    DEF EnqueueWrite, AtGateway, Puts, Pending, TypeInv, TypeOK, clientVars
<1>3. ASSUME NEW c \in Clients, LocalRead(c) PROVE TakesHead(c)
  BY <1>3, QueueAfterLocalRead
<1>4. ASSUME NEW c \in Clients, NEW g \in Gateways, ReadPop(c, g)
      PROVE  TakesHead(c)
  BY <1>4, QueueAfterReadPop
<1>5. ASSUME NEW g \in Gateways, ForwardOneWrite(g) PROVE Idles
  <2>1. UNCHANGED taken
    BY <1>5 DEF ForwardOneWrite, ForwardPeek, ForwardFull, ForwardSend,
       ForwardComplete
  <2>2. QueuesKept
    BY <1>5, QueueAfterPeek, QueueAfterSend DEF ForwardOneWrite
  <2> QED BY <2>1, <2>2 DEF Idles
<1>6. ASSUME NEW g \in Gateways, ProxyMove(g) PROVE Idles
  BY <1>6, QueueAfterProxy DEF ProxyMove, Idles
<1>7. ASSUME NEW g \in Gateways, Receive(g) PROVE Idles
  BY <1>7, QueueAfterReceive DEF Receive, Idles
<1>8. ASSUME Still PROVE Idles
  BY <1>8, QueuesIdle DEF Idles
<1>9. ASSUME NEW c \in Clients,
             \/ Client(c) \/ Return(c) \/ RouterReject(c) \/ LocalReadStart(c)
             \/ LocalReadWait(c) \/ Forward(c) \/ ForwardRefused(c) \/ Relay(c)
      PROVE  Still
  BY <1>9 DEF Client, Call, Die, Return, RouterReject, LocalReadStart,
     LocalReadWait, Forward, ForwardRefused, Relay, gatewayVars
<1>10. ASSUME NEW c \in Clients, NEW g \in Gateways,
              \/ ReadStart(c, g) \/ HandlerWait(c, g) \/ WriteFinish(c, g)
              \/ ReadAbandon(c, g) \/ SendReply(c, g) \/ SpuriousWakeup(c, g)
       PROVE  Still
  BY <1>10 DEF ReadStart, HandlerWait, WriteFinish, ReadAbandon, SendReply,
     SpuriousWakeup, gatewayVars
<1>11. ASSUME NEW g \in Gateways,
              \/ ReceiveTerminate(g) \/ Exit(g) \/ Kill(g) \/ ProxyTerminate(g)
       PROVE  Still
  BY <1>11 DEF ReceiveTerminate, Exit, Kill, Close, ProxyTerminate
<1>12. ASSUME UNCHANGED vars PROVE Still
  BY <1>12 DEF vars
<1> HIDE DEF Still
<1> QED
  BY <1>1, <1>2, <1>3, <1>4, <1>5, <1>6, <1>7, <1>8, <1>9, <1>10, <1>11, <1>12
  DEF Next, RouterStep, HandlerStep, ReceiveAll

(***************************************************************************)
(* A payload is put once: what is queued or taken belongs to a write that  *)
(* is past its router or its gateway.                                      *)
(***************************************************************************)
Old == {m \in Msgs : \/ m.k < ops[m.owner]
                     \/ m.k = ops[m.owner] /\ phase[m.owner] \notin Pending}

FreshInv ==
  /\ \A p \in Pipes : ToSet(QueueOf(p)) \subseteq Old
  /\ \A c \in Clients : ToSet(taken[c]) \subseteq Old

LEMMA OldStep ==
  ASSUME TypeInv, [Next]_vars
  PROVE  Old \subseteq Old'
<1> DEFINE Later(d) ==
      \/ /\ ops'[d] = ops[d]
         /\ phase'[d] \in Pending => phase[d] \in Pending
      \/ ops'[d] = ops[d] + 1
<1>1. ASSUME NEW d \in Clients PROVE Later(d)
  <2> USE DEF TypeInv, TypeOK, Pending
  <2>1. ASSUME NEW c \in Clients,
               \/ Return(c) \/ RouterReject(c) \/ LocalWrite(c)
               \/ LocalReadStart(c) \/ LocalReadWait(c) \/ LocalRead(c)
        PROVE  Later(d)
    BY <2>1 DEF Return, RouterReject, LocalWrite, LocalReadStart,
       LocalReadWait, LocalRead, clientVars
  <2>7. ASSUME NEW c \in Clients, Client(c) PROVE Later(d)
    <3>1. ASSUME NEW op \in {"W", "R"}, NEW p \in Pipes, NEW n \in Sizes,
                 Call(c, op, p, n)
          PROVE  Later(d)
      <4>1. CASE c = d
        BY <3>1, <4>1 DEF Call
      <4>2. CASE c # d
        BY <3>1, <4>2 DEF Call
      <4> QED BY <4>1, <4>2
    <3>2. CASE Die(c)
      BY <3>2 DEF Die
    <3> QED BY <2>7, <3>1, <3>2 DEF Client
  <2>2. ASSUME NEW c \in Clients, Forward(c) \/ ForwardRefused(c) \/ Relay(c)
        PROVE  Later(d)
    BY <2>2 DEF Forward, ForwardRefused, Relay, clientVars
  <2>3. ASSUME NEW c \in Clients, NEW g \in Gateways,
               HandlerStep(c, g) \/ SpuriousWakeup(c, g)
        PROVE  Later(d)
    BY <2>3 DEF HandlerStep, SpuriousWakeup, EnqueueWrite, ReadStart,
       HandlerWait, WriteFinish, ReadPop, ReadAbandon, SendReply, AtGateway,
       clientVars
  <2>4. ASSUME NEW g \in Gateways,
               \/ ForwardOneWrite(g) \/ ReceiveAll(g)
               \/ ProxyMove(g) \/ ProxyTerminate(g)
        PROVE  Later(d)
    BY <2>4 DEF ForwardOneWrite, ForwardPeek, ForwardFull, ForwardSend,
       ForwardComplete, ReceiveAll, Receive, ReceiveTerminate, ProxyMove,
       ProxyTerminate, clientVars
  <2>5. ASSUME NEW g \in Gateways, Exit(g) \/ Kill(g) PROVE Later(d)
    BY <2>5 DEF Exit, Kill, Close, clientVars
  <2>6. ASSUME UNCHANGED vars PROVE Later(d)
    BY <2>6 DEF vars
  <2> QED BY <2>1, <2>2, <2>3, <2>4, <2>5, <2>6, <2>7 DEF Next, RouterStep
<1>2. \A d \in Clients : ops[d] \in Nat
  BY DEF TypeInv, TypeOK
<1> SUFFICES ASSUME NEW m \in Old PROVE m \in Old'
  OBVIOUS
<1>3. m \in Msgs /\ m.owner \in Clients /\ m.k \in Nat
  BY DEF Old, Msgs
<1> QED BY <1>1, <1>2, <1>3 DEF Old

LEMMA FreshStep ==
  ASSUME TypeInv, AnswerInv, PlaceInv, FreshInv, [Next]_vars, TypeInv'
  PROVE  FreshInv'
<1>1. Old \subseteq Old'
  BY OldStep
<1>2. \A q \in Pipes : QueueOf(q) \in Seq(Msgs)
  BY QueueType
<1>3. \A c \in Clients : taken[c] \in Seq(Msgs)
  BY DEF TypeInv, TypeOK
<1>4. CASE Idles
  BY <1>1, <1>4 DEF Idles, QueuesKept, FreshInv
<1>5. ASSUME NEW c \in Clients, Puts(c) PROVE FreshInv'
  <2>1. MsgOf(c) \in Msgs
    BY <1>5, MsgOfType DEF Puts, Pending, TypeInv
  <2>2. PICK m \in Msgs : m = MsgOf(c)
    BY <2>1
  <2>3. m \in Old'
    <3>1. m.k = ops[c] /\ m.owner = c
      BY <2>2 DEF MsgOf
    <3> QED BY <1>5, <3>1 DEF Puts, Old
  <2>4. ASSUME NEW q \in Pipes PROVE ToSet(QueueOf(q)') \subseteq Old'
    <3>1. ToSet(Append(QueueOf(q), m)) = ToSet(QueueOf(q)) \cup {m}
      BY <1>2, ToSetAppend
    <3>2. QueueOf(q)' = Append(QueueOf(q), m) \/ QueueOf(q)' = QueueOf(q)
      <4>1. QueueOf(q)' = IF q = req[c].pipe THEN Append(QueueOf(q), MsgOf(c))
                          ELSE QueueOf(q)
        BY <1>5, Zenon DEF Puts, QueuePut
      <4> QED BY ONLY <2>2, <4>1
    <3>3. ToSet(QueueOf(q)) \subseteq Old
      BY DEF FreshInv
    <3> QED BY ONLY <1>1, <2>3, <3>1, <3>2, <3>3
  <2> QED BY <1>1, <1>5, <2>4 DEF FreshInv, Puts
<1>6. ASSUME NEW c \in Clients, TakesHead(c) PROVE FreshInv'
  <2>1. req[c].pipe \in Pipes
    BY DEF TypeInv, TypeOK, Requests
  <2>2. PICK p \in Pipes : p = req[c].pipe
    BY <2>1
  <2>3. QueueOf(p) # << >> /\ QueueOf(p) \in Seq(Msgs)
    BY <1>2, <1>6, <2>2 DEF TakesHead
  <2>4. /\ Head(QueueOf(p)) \in ToSet(QueueOf(p))
        /\ ToSet(Tail(QueueOf(p))) \subseteq ToSet(QueueOf(p))
    BY <2>3, ToSetHeadTail
  <2>5. ASSUME NEW q \in Pipes PROVE ToSet(QueueOf(q)') \subseteq Old'
    <3>1. QueueOf(q)' = IF q = p THEN Tail(QueueOf(q)) ELSE QueueOf(q)
      BY <1>6, <2>2 DEF TakesHead, QueueTaken
    <3> QED BY <1>1, <2>4, <3>1 DEF FreshInv
  <2>6. PICK m \in Msgs : m = Head(QueueOf(p))
    BY <2>3
  <2>7. taken' = [taken EXCEPT ![c] = Append(@, m)]
    BY <1>6, <2>2, <2>6 DEF TakesHead
  <2>8. ASSUME NEW d \in Clients PROVE ToSet(taken'[d]) \subseteq Old'
    <3>1. m \in Old
      BY <2>4, <2>6 DEF FreshInv
    <3>2. ToSet(Append(taken[d], m)) = ToSet(taken[d]) \cup {m}
      BY <1>3, ToSetAppend
    <3>3. taken'[d] = Append(taken[d], m) \/ taken'[d] = taken[d]
      <4>1. taken \in [Clients -> Seq(Msgs)]
        BY DEF TypeInv, TypeOK
      <4> QED BY ONLY <2>7, <4>1, d \in Clients, c \in Clients
    <3>4. ToSet(taken[d]) \subseteq Old
      BY DEF FreshInv
    <3> QED BY ONLY <1>1, <3>1, <3>2, <3>3, <3>4
  <2> QED BY <2>5, <2>8 DEF FreshInv
<1> QED BY <1>4, <1>5, <1>6, StepEffect

(***************************************************************************)
(* The refinement.                                                         *)
(***************************************************************************)
FifoInv == TransportInv /\ PlaceInv /\ FreshInv

LEMMA FifoInvHolds == Spec => []FifoInv
<1>1. Init => PlaceInv
  BY DEF Init, PlaceInv, PlaceOf
<1>2. Init => FreshInv
  <2> SUFFICES ASSUME Init PROVE FreshInv
    OBVIOUS
  <2>1. TypeInv
    BY InitType DEF TypeInv
  <2>2. ToSet(<< >>) = {}
    BY DEF ToSet
  <2>3. \A p \in Pipes : QueueOf(p) = << >>
    BY QueueInit
  <2> QED BY <2>2, <2>3 DEF FreshInv, Init
<1>3. FifoInv /\ [Next]_vars => FifoInv'
  <2> SUFFICES ASSUME FifoInv, [Next]_vars PROVE FifoInv'
    OBVIOUS
  <2>1. TransportInv'
    BY TypeStep, WireStep, AnswerStep DEF FifoInv, TransportInv
  <2>2. PlaceInv'
    BY PlaceStep DEF FifoInv, TransportInv
  <2>3. FreshInv'
    BY <2>1, FreshStep DEF FifoInv, TransportInv
  <2> QED BY <2>1, <2>2, <2>3 DEF FifoInv
<1>4. Init => TransportInv
  BY InitType, WireInit, AnswerInit DEF TransportInv, TypeInv
<1> QED BY <1>1, <1>2, <1>3, <1>4, PTL DEF Spec, FifoInv

LEMMA FifoStep == FifoInv /\ [Next]_vars => [Fifo!FifoNext]_(Fifo!fifoVars)
<1> SUFFICES ASSUME FifoInv, [Next]_vars
             PROVE  [Fifo!FifoNext]_(Fifo!fifoVars)
  OBVIOUS
<1> DEFINE queue == [p \in Pipes |-> QueueOf(p)]
<1>0. /\ TypeInv /\ AnswerInv /\ PlaceInv /\ FreshInv
      /\ \A q \in Pipes : QueueOf(q) \in Seq(Msgs)
  BY QueueType DEF FifoInv, TransportInv
<1>1. CASE Idles
  <2>1. queue' = queue
    BY <1>1 DEF Idles, QueuesKept
  <2> QED BY <1>1, <2>1 DEF Idles, Fifo!fifoVars
<1>2. ASSUME NEW c \in Clients, Puts(c) PROVE Fifo!FifoNext
  <2>1. MsgOf(c) \in Msgs /\ req[c].pipe \in Pipes
    BY <1>0, <1>2, MsgOfType DEF Puts, Pending, TypeInv, TypeOK, Requests
  <2>2. PICK m \in Msgs, p \in Pipes : m = MsgOf(c) /\ p = req[c].pipe
    BY <2>1
  <2>3. m \notin Old
    <3>1. m.k = ops[c] /\ m.owner = c /\ ops[c] \in Nat
      BY <1>0, <2>2 DEF MsgOf, TypeInv, TypeOK
    <3> QED BY <1>2, <3>1 DEF Puts, Old
  <2>4. \A q \in Pipes : QueueOf(q)' = IF q = p THEN Append(QueueOf(q), m)
                                       ELSE QueueOf(q)
    BY <1>2, <2>2 DEF Puts, QueuePut
  <2>5. queue' = [queue EXCEPT ![p] = Append(@, m)]
    BY <2>4
  <2>6. m \in ToSet(queue'[p])
    <3>1. queue'[p] = Append(QueueOf(p), m)
      BY <2>4
    <3>2. ToSet(Append(QueueOf(p), m)) = ToSet(QueueOf(p)) \cup {m}
      BY <1>0, ToSetAppend
    <3> QED BY <3>1, <3>2
  <2>7. /\ \A q \in Pipes : m \notin ToSet(queue[q])
        /\ \A d \in Clients : m \notin ToSet(taken[d])
    BY <1>0, <2>3 DEF FreshInv
  <2>8. Fifo!Put(p, m)
    BY <1>2, <2>5, <2>7 DEF Puts, Fifo!Put, Fifo!Fresh, Fifo!ToSet, ToSet
  <2> QED BY <2>6, <2>8 DEF Fifo!FifoNext, Fifo!ToSet, ToSet
<1>3. ASSUME NEW c \in Clients, TakesHead(c) PROVE Fifo!FifoNext
  <2>1. req[c].pipe \in Pipes
    BY <1>0 DEF TypeInv, TypeOK, Requests
  <2>2. PICK p \in Pipes : p = req[c].pipe
    BY <2>1
  <2>3. /\ QueueOf(p) # << >>
        /\ taken' = [taken EXCEPT ![c] = Append(@, Head(QueueOf(p)))]
        /\ \A q \in Pipes : QueueOf(q)' = IF q = p THEN Tail(QueueOf(q))
                                          ELSE QueueOf(q)
    BY <1>3, <2>2 DEF TakesHead, QueueTaken
  <2>4. queue' = [queue EXCEPT ![p] = Tail(@)]
    BY <2>3
  <2>5. Fifo!Take(c, p)
    BY <2>3, <2>4 DEF Fifo!Take
  <2> QED BY <2>5 DEF Fifo!FifoNext
<1> QED BY <1>0, <1>1, <1>2, <1>3, StepEffect

\* The transport implements the contract that real/remote_pipe_comm.h gives
\* its callers, one FIFO per pipe: every behaviour of router, gateways, rings
\* and proxies, with clients dying, gateways terminating and being killed, is
\* one of PipeFifo, whatever the placement, the clients and the ring size.
THEOREM TransportIsFifo == Spec => ImplementsFifo
<1>1. Init => Fifo!FifoInit
  BY QueueInit DEF Init, Fifo!FifoInit
<1> QED BY <1>1, FifoInvHolds, FifoStep, PTL DEF Spec, ImplementsFifo, Fifo!FifoSpec
=============================================================================
