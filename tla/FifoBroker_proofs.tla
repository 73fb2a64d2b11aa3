------------------------- MODULE FifoBroker_proofs -------------------------
(***************************************************************************)
(* The reference broker implements one FIFO per pipe that destroys what a  *)
(* read of another size finds, for any number of pipes, clients and        *)
(* requests and any payload limit.                                         *)
(***************************************************************************)
EXTENDS FifoBroker, FiniteSetTheorems, SequenceTheorems, TLAPS

USE BrokerAssumption

Requests == [op : {"write", "read"}, pipe : Pipes, size : Sizes]
Phases == {"idle", "sent", "waiting", "woken", "popped", "replied"}

Types ==
  /\ ops \in [Clients -> 0..MaxOps]
  /\ req \in [Clients -> Requests \cup {NoRequest}]
  /\ phase \in [Clients -> Phases]
  /\ messages \in [Pipes -> Seq(Msgs)]
  /\ taken \in [Clients -> Seq(Msgs)]
  /\ lost \subseteq Msgs

\* A request that is still to be served has a number.
Issued == \A c \in Clients : phase[c] = "sent" => ops[c] >= 1

Used(m) == \/ \E p \in Pipes : m \in ToSet(messages[p])
           \/ \E c \in Clients : m \in ToSet(taken[c])
           \/ m \in lost

\* A payload in the broker, taken from it or lost in it belongs to an earlier request of
\* its owner, or to the present one once Write has served it.
Numbered ==
  \A m \in Msgs :
    Used(m) => /\ m.k <= ops[m.owner]
               /\ m.k = ops[m.owner] => phase[m.owner] # "sent" \/ req[m.owner].op = "read"

BrokerInv == Types /\ Issued /\ Numbered

(***************************************************************************)
(* Sequences of payloads as sets.                                          *)
(***************************************************************************)
LEMMA ToSetAppend ==
  ASSUME NEW s \in Seq(Msgs), NEW m \in Msgs
  PROVE  Append(s, m) \in Seq(Msgs) /\ ToSet(Append(s, m)) = ToSet(s) \cup {m}
<1> DEFINE r == Append(s, m)
<1>1. /\ r \in Seq(Msgs) /\ Len(s) \in Nat /\ DOMAIN s = 1..Len(s)
      /\ DOMAIN r = 1..Len(s) + 1 /\ r[Len(s) + 1] = m
      /\ \A i \in 1..Len(s) : r[i] = s[i]
  BY AppendProperties, LenProperties
<1> HIDE DEF r
<1>2. ToSet(r) = ToSet(s) \cup {m}
  BY <1>1 DEF ToSet
<1> QED BY <1>1, <1>2 DEF r

LEMMA ToSetHeadTail ==
  ASSUME NEW s \in Seq(Msgs), s # << >>
  PROVE  /\ Head(s) \in Msgs /\ Head(s) \in ToSet(s)
         /\ Tail(s) \in Seq(Msgs) /\ ToSet(Tail(s)) \subseteq ToSet(s)
<1>1. Len(s) \in Nat /\ Len(s) >= 1 /\ DOMAIN s = 1..Len(s) /\ Head(s) = s[1]
  BY EmptySeq
<1>2. \A i \in 1..Len(Tail(s)) : Tail(s)[i] = s[i + 1] /\ i + 1 \in 1..Len(s)
  BY <1>1
<1>3. Tail(s) \in Seq(Msgs) /\ DOMAIN Tail(s) = 1..Len(Tail(s))
  BY <1>1
<1> QED BY <1>1, <1>2, <1>3 DEF ToSet

LEMMA ToSetEmpty == ToSet(<< >>) = {}
  BY DEF ToSet

LEMMA PayloadType ==
  ASSUME Types, Issued, NEW c \in Clients, phase[c] = "sent", req[c].op = "write"
  PROVE  /\ Payload(c) \in Msgs /\ Payload(c).k = ops[c] /\ Payload(c).owner = c
         /\ req[c].pipe \in Pipes
<1>1. ops[c] \in 1..MaxOps /\ req[c] \in Requests
  BY DEF Types, Issued, Requests, NoRequest
<1> QED BY <1>1 DEF Payload, Msgs, Requests

(***************************************************************************)
(* The invariant.                                                          *)
(***************************************************************************)
LEMMA InitInv == Init => BrokerInv
<1> SUFFICES ASSUME Init PROVE BrokerInv
  OBVIOUS
<1>1. Types /\ Issued
  BY DEF Init, Types, Issued, Phases
<1>2. \A m \in Msgs : ~Used(m)
  BY ToSetEmpty DEF Init, Used
<1> QED BY <1>1, <1>2 DEF BrokerInv, Numbered

\* A step that leaves the payloads, the requests and their numbers alone, and
\* puts no client into the phase in which its write is still to be served.
LEMMA QuietStep ==
  ASSUME BrokerInv, UNCHANGED <<ops, req, messages, taken, lost>>,
         phase' \in [Clients -> Phases],
         \A c \in Clients : phase'[c] = "sent" => phase[c] = "sent"
  PROVE  BrokerInv'
<1>1. Types' /\ Issued'
  BY DEF BrokerInv, Types, Issued
<1>2. \A m \in Msgs : Used(m)' <=> Used(m)
  BY DEF Used
<1>3. \A m \in Msgs : m.owner \in Clients
  BY DEF Msgs
<1> QED BY <1>1, <1>2, <1>3 DEF BrokerInv, Numbered

LEMMA InvStep == BrokerInv /\ [Next]_vars => BrokerInv'
<1> SUFFICES ASSUME BrokerInv, [Next]_vars PROVE BrokerInv'
  OBVIOUS
<1> USE DEF BrokerInv
<1>0. \A m \in Msgs : m.owner \in Clients /\ m.k \in Nat
  BY DEF Msgs
<1>1. ASSUME NEW c \in Clients, NEW op \in {"write", "read"}, NEW p \in Pipes,
            NEW n \in Sizes, Call(c, op, p, n)
     PROVE  BrokerInv'
  <2>1. Types' /\ Issued'
    BY <1>1 DEF Call, Types, Issued, Phases, Requests
  <2>2. \A m \in Msgs : Used(m)' <=> Used(m)
    BY <1>1 DEF Call, Used
  <2>3. \A d \in Clients : ops[d] \in Nat /\ ops'[d] = IF d = c THEN ops[d] + 1 ELSE ops[d]
    BY <1>1 DEF Call, Types
  <2>4. \A d \in Clients \ {c} : phase'[d] = phase[d] /\ req'[d] = req[d]
    BY <1>1 DEF Call, Types
  <2>5. Numbered'
    BY <1>0, <2>2, <2>3, <2>4 DEF Numbered
  <2> QED BY <2>1, <2>5
<1>2. ASSUME NEW c \in Clients, Return(c) PROVE BrokerInv'
  BY <1>2, QuietStep DEF Return, Types, Phases
<1>3. ASSUME NEW c \in Clients, Reject(c) PROVE BrokerInv'
  BY <1>3, QuietStep DEF Reject, Replies, Types, Phases
<1>4. ASSUME NEW c \in Clients, Write(c) PROVE BrokerInv'
  <2> DEFINE q == req[c].pipe
  <2>1. /\ phase[c] = "sent" /\ req[c].op = "write"
        /\ messages' = [messages EXCEPT ![q] = Append(@, Payload(c))]
        /\ UNCHANGED <<ops, req, taken, lost>>
    BY <1>4 DEF Write, Writing
  <2>2. phase' = [d \in Clients |-> IF d = c THEN "replied"
                    ELSE IF d \in Woken(q) THEN "woken" ELSE phase[d]]
    BY <1>4 DEF Write, Wakes
  <2>3. /\ Payload(c) \in Msgs /\ Payload(c).k = ops[c] /\ Payload(c).owner = c
        /\ q \in Pipes
    BY <2>1, PayloadType
  <2>4. messages' \in [Pipes -> Seq(Msgs)]
    BY <2>1, <2>3, ToSetAppend DEF Types
  <2>5. phase' \in [Clients -> Phases]
    BY <2>2 DEF Types, Phases
  <2>6. \A d \in Clients : phase'[d] = "sent" => phase[d] = "sent"
    BY <2>2
  <2>7. Types' /\ Issued'
    BY <2>1, <2>4, <2>5, <2>6 DEF Types, Issued
  <2>8. \A m \in Msgs : Used(m)' => Used(m) \/ m = Payload(c)
    BY <2>1, <2>3, ToSetAppend DEF Used, Types
  <2>9. Numbered'
    BY <1>0, <2>1, <2>2, <2>3, <2>6, <2>8 DEF Numbered, Types
  <2> QED BY <2>7, <2>9
<1>5. ASSUME NEW c \in Clients, ReadWait(c) PROVE BrokerInv'
  BY <1>5, QuietStep DEF ReadWait, Types, Phases
<1>6. ASSUME NEW c \in Clients, ReadPop(c) PROVE BrokerInv'
  <2> DEFINE q == req[c].pipe
  <2>1. /\ messages[q] # << >>
        /\ messages' = [messages EXCEPT ![q] = Tail(messages[q])]
        /\ \/ /\ taken' = [taken EXCEPT ![c] = Append(@, Head(messages[q]))]
              /\ lost' = lost
           \/ taken' = taken /\ lost' = lost \cup {Head(messages[q])}
        /\ phase' = [phase EXCEPT ![c] = "popped"]
        /\ UNCHANGED <<ops, req>>
    BY <1>6 DEF ReadPop, HandedTo
  <2>2. q \in Pipes /\ messages[q] \in Seq(Msgs)
    BY <1>6 DEF ReadPop, Reading, Types, Requests, NoRequest
  <2>3. /\ Head(messages[q]) \in Msgs /\ Head(messages[q]) \in ToSet(messages[q])
        /\ Tail(messages[q]) \in Seq(Msgs)
        /\ ToSet(Tail(messages[q])) \subseteq ToSet(messages[q])
    BY <2>1, <2>2, ToSetHeadTail
  <2>4. /\ Append(taken[c], Head(messages[q])) \in Seq(Msgs)
        /\ ToSet(Append(taken[c], Head(messages[q])))
             = ToSet(taken[c]) \cup {Head(messages[q])}
    BY <2>3, ToSetAppend DEF Types
  <2>5. Types' /\ Issued'
    BY <2>1, <2>2, <2>3, <2>4 DEF Types, Issued, Phases
  <2>6. \A m \in Msgs : Used(m)' => Used(m)
    BY <2>1, <2>2, <2>3, <2>4 DEF Used, Types
  <2>7. Numbered'
    BY <1>0, <2>1, <2>6 DEF Numbered, Types
  <2> QED BY <2>5, <2>7
<1>7. ASSUME NEW c \in Clients, ReadReply(c) PROVE BrokerInv'
  BY <1>7, QuietStep DEF ReadReply, Replies, Types, Phases
<1>8. CASE UNCHANGED vars
  BY <1>8, QuietStep DEF vars, Types
<1> QED
  BY <1>1, <1>2, <1>3, <1>4, <1>5, <1>6, <1>7, <1>8 DEF Next, Broker

(***************************************************************************)
(* Refinement: Write is Put of a fresh payload, ReadPop is Take or Destroy *)
(* by the size of the head, a call asks, and every other step stutters.    *)
(***************************************************************************)
LEMMA InitRefines == Init => Fifo!LossyInit
  BY DEF Init, Fifo!LossyInit, Fifo!FifoInit

LEMMA StepRefines ==
  BrokerInv /\ [Next]_vars => [Fifo!LossyNext]_(Fifo!lossyVars)
<1> SUFFICES ASSUME BrokerInv, [Next]_vars
             PROVE  [Fifo!LossyNext]_(Fifo!lossyVars)
  OBVIOUS
<1> USE DEF BrokerInv
<1>1. ASSUME NEW c \in Clients, Write(c) PROVE Fifo!LossyNext
  <2> DEFINE q == req[c].pipe
  <2>1. /\ phase[c] = "sent" /\ req[c].op = "write"
        /\ messages' = [messages EXCEPT ![q] = Append(@, Payload(c))]
        /\ UNCHANGED <<taken, lost, req>>
    BY <1>1 DEF Write, Writing
  <2>2. /\ Payload(c) \in Msgs /\ Payload(c).k = ops[c] /\ Payload(c).owner = c
        /\ q \in Pipes
    BY <2>1, PayloadType
  <2>3. ~Used(Payload(c))
    BY <2>1, <2>2 DEF Numbered
  <2>4. Fifo!Put(q, Payload(c))
    BY <2>1, <2>2, <2>3 DEF Fifo!Put, Fifo!Fresh, Used, Fifo!ToSet, ToSet
  <2>5. Payload(c) \in ToSet(messages'[q])
    BY <2>1, <2>2, ToSetAppend DEF Types
  <2>6. Fifo!LossyPut(q, Payload(c))
    BY <2>1, <2>3, <2>4 DEF Fifo!LossyPut, Used
  <2> QED BY <2>2, <2>5, <2>6 DEF Fifo!LossyNext, Fifo!ToSet, ToSet
<1>2. ASSUME NEW c \in Clients, ReadPop(c) PROVE Fifo!LossyNext
  <2> DEFINE q == req[c].pipe
  <2>1. q \in Pipes
    BY <1>2 DEF ReadPop, Reading, Types, Requests, NoRequest
  <2>2. /\ messages[q] # << >> /\ req' = req
        /\ messages' = [messages EXCEPT ![q] = Tail(messages[q])]
        /\ HandedTo(c, Head(messages[q]))
    BY <1>2 DEF ReadPop
  <2>3. CASE Head(messages[q]).size = req[c].size
    <3>1. Fifo!Take(c, q) /\ lost' = lost
      BY <2>1, <2>2, <2>3 DEF HandedTo, Fifo!Take, Types
    <3>2. Fifo!LossyTake(c, q)
      BY <2>2, <2>3, <3>1 DEF Fifo!LossyTake
    <3> QED BY <2>1, <3>2 DEF Fifo!LossyNext
  <2>4. CASE Head(messages[q]).size # req[c].size
    <3>1. Fifo!Destroy(c, q)
      BY <2>1, <2>2, <2>4 DEF HandedTo, Fifo!Destroy, Types
    <3> QED BY <2>1, <3>1 DEF Fifo!LossyNext
  <2> QED BY <2>3, <2>4
<1>3. ASSUME UNCHANGED <<messages, taken, lost>> PROVE Fifo!LossyNext
  BY <1>3 DEF Fifo!LossyNext, Fifo!Ask
<1> QED
  BY <1>1, <1>2, <1>3
     DEF Next, Broker, Call, Return, Reject, ReadWait, ReadReply, vars

\* The reference broker is one FIFO per pipe with sized reads: every payload
\* that handle appends is new and leaves its pipe at the head, to one reader
\* that asked for its size, or destroyed by a read of another size
\* (fifo_broker.py:49-52, 85-89), also when a newcomer overtakes a reader
\* that notify has woken.
THEOREM BrokerIsLossyFifo == Spec => ImplementsLossyFifo
<1>1. Init => BrokerInv
  BY InitInv
<1>2. BrokerInv /\ [Next]_vars => BrokerInv'
  BY InvStep
<1>3. Init => Fifo!LossyInit
  BY InitRefines
<1>4. BrokerInv /\ [Next]_vars => [Fifo!LossyNext]_(Fifo!lossyVars)
  BY StepRefines
<1> QED BY <1>1, <1>2, <1>3, <1>4, PTL DEF Spec, ImplementsLossyFifo, Fifo!LossySpec

(***************************************************************************)
(* notify(1) strands no reader.                                            *)
(***************************************************************************)

\* A reader of p asleep in wait_for.
Sleeping(c, p) ==
  /\ phase[c] = "waiting" /\ req[c].op = "read" /\ req[c].pipe = p /\ ~Unsupported(c)

\* Readers of p that will look at the deque again and can take a payload.  A
\* reader whose size is refused is awake, but takes nothing.
AwakeFor(p) == {c \in Clients : Reading(c) /\ req[c].pipe = p}

\* Sleepers are queued once, and there are enough readers awake.
SleepInv ==
  /\ waiters \in [Pipes -> Seq(Clients)]
  /\ \A p \in Pipes : \A i \in 1..Len(waiters[p]) : Sleeping(waiters[p][i], p)
  /\ \A p \in Pipes : \A i, j \in 1..Len(waiters[p]) :
       waiters[p][i] = waiters[p][j] => i = j
  /\ \A p \in Pipes :
       waiters[p] # << >> => Len(messages[p]) <= Cardinality(AwakeFor(p))

LEMMA AwakeFinite ==
  \A p \in Pipes : IsFiniteSet(AwakeFor(p)) /\ Cardinality(AwakeFor(p)) \in Nat
<1> TAKE p \in Pipes
<1>1. AwakeFor(p) \in SUBSET Clients
  BY DEF AwakeFor
<1>2. IsFiniteSet(AwakeFor(p))
  BY <1>1, FS_Subset DEF BrokerAssumption
<1> QED BY <1>2, FS_CardinalityType

\* A step that moves no payload and no sleeper, and sends no reader away.
LEMMA SleepQuiet ==
  ASSUME SleepInv, UNCHANGED <<messages, waiters>>,
         \A d \in Clients : phase[d] = "waiting" => phase'[d] = "waiting" /\ req'[d] = req[d],
         \A d \in Clients : Reading(d) => Reading(d)' /\ req'[d] = req[d]
  PROVE  SleepInv'
<1>1. \A p \in Pipes : \A i \in 1..Len(waiters[p]) : waiters[p][i] \in Clients
  BY DEF SleepInv
<1>2. \A p \in Pipes : \A i \in 1..Len(waiters[p]) : Sleeping(waiters[p][i], p)'
  BY <1>1 DEF SleepInv, Sleeping, Unsupported
<1>3. ASSUME NEW p \in Pipes, waiters[p] # << >>
      PROVE  Len(messages[p]) <= Cardinality(AwakeFor(p)')
  <2>1. AwakeFor(p) \subseteq AwakeFor(p)'
    BY DEF AwakeFor
  <2>2. AwakeFor(p)' \subseteq Clients
    BY DEF AwakeFor
  <2>3. PICK A, B : A = AwakeFor(p) /\ B = AwakeFor(p)'
    OBVIOUS
  <2>4. IsFiniteSet(B) /\ A \in SUBSET B
    BY <2>1, <2>2, <2>3, FS_Subset DEF BrokerAssumption
  <2>5. Cardinality(A) <= Cardinality(B) /\ Cardinality(A) \in Nat /\ Cardinality(B) \in Nat
    BY <2>4, FS_Subset, FS_CardinalityType
  <2> QED BY <1>3, <2>3, <2>5 DEF SleepInv
<1> QED BY <1>2, <1>3 DEF SleepInv

LEMMA SleepStep == BrokerInv /\ SleepInv /\ [Next]_vars => SleepInv'
<1> SUFFICES ASSUME BrokerInv, SleepInv, [Next]_vars PROVE SleepInv'
  OBVIOUS
<1>0. /\ Types
      /\ waiters \in [Pipes -> Seq(Clients)]
      /\ \A p \in Pipes : \A i \in 1..Len(waiters[p]) : /\ Sleeping(waiters[p][i], p)
                                                        /\ waiters[p][i] \in Clients
      /\ \A p \in Pipes : \A i, j \in 1..Len(waiters[p]) :
           waiters[p][i] = waiters[p][j] => i = j
      /\ \A p \in Pipes :
           waiters[p] # << >> => Len(messages[p]) <= Cardinality(AwakeFor(p))
  BY DEF BrokerInv, SleepInv
<1>1. CASE UNCHANGED vars
  BY <1>1, SleepQuiet DEF vars, Reading, Unsupported
<1>2. ASSUME NEW c \in Clients,
             \/ \E op \in {"write", "read"}, p \in Pipes, n \in Sizes : Call(c, op, p, n)
             \/ Return(c) \/ Reject(c) \/ ReadReply(c)
      PROVE  SleepInv'
  <2>1. UNCHANGED <<messages, waiters>>
    BY <1>2 DEF Call, Return, Reject, ReadReply
  <2>2. /\ phase[c] # "waiting" /\ ~Reading(c)
        /\ \A d \in Clients \ {c} : phase'[d] = phase[d] /\ req'[d] = req[d]
    BY <1>0, <1>2 DEF Call, Return, Reject, ReadReply, Replies, Reading, Types
  <2> QED BY <2>1, <2>2, SleepQuiet DEF Reading, Unsupported
<1>3. ASSUME NEW c \in Clients, Write(c) PROVE SleepInv'
  <2>0. PICK q \in Pipes : q = req[c].pipe
    BY <1>3, PayloadType DEF Write, Writing, BrokerInv
  <2>1. /\ phase[c] = "sent" /\ req[c].op = "write" /\ UNCHANGED req
        /\ messages' = [messages EXCEPT ![q] = Append(@, Payload(c))]
        /\ waiters' = [waiters EXCEPT ![q] = Asleep(q)]
        /\ phase' = [d \in Clients |-> IF d = c THEN "replied"
                       ELSE IF d \in Woken(q) THEN "woken" ELSE phase[d]]
    BY <1>3, <2>0 DEF Write, Writing, Wakes
  <2>2. q \in Pipes /\ Payload(c) \in Msgs
    BY <2>1, PayloadType DEF BrokerInv
  <2>3. /\ \A p \in Pipes \ {q} : messages'[p] = messages[p] /\ waiters'[p] = waiters[p]
        /\ waiters'[q] = Asleep(q)
        /\ messages[q] \in Seq(Msgs) /\ Len(messages'[q]) = Len(messages[q]) + 1
        /\ Len(messages[q]) \in Nat
    BY <1>0, <2>1, <2>2 DEF Types
  <2>4. CASE waiters[q] = << >>
    <3>1. Woken(q) = {} /\ waiters'[q] = << >> /\ waiters' = waiters
      BY <1>0, <2>1, <2>2, <2>3, <2>4 DEF Woken, Asleep
    <3>2. \A d \in Clients : d # c => phase'[d] = phase[d]
      BY <2>1, <3>1
    <3>3. \A p \in Pipes : AwakeFor(p)' = AwakeFor(p)
      BY <2>1, <3>2 DEF AwakeFor, Reading, Unsupported
    <3>4. \A p \in Pipes : \A i \in 1..Len(waiters[p]) : Sleeping(waiters[p][i], p)'
      BY <1>0, <2>1, <3>1, <3>2 DEF Sleeping, Unsupported
    <3>5. \A p \in Pipes : waiters'[p] # << >> =>
            Len(messages'[p]) <= Cardinality(AwakeFor(p)')
      BY <1>0, <2>3, <3>1, <3>3
    <3> QED BY <1>0, <3>1, <3>4, <3>5 DEF SleepInv
  <2>5. CASE waiters[q] # << >>
    <3> DEFINE w == waiters[q]
               h == Head(w)
               t == Tail(w)
    <3>1. /\ Woken(q) = {h} /\ waiters'[q] = t
          /\ w \in Seq(Clients) /\ t \in Seq(Clients) /\ h = w[1] /\ 1 \in 1..Len(w)
          /\ \A i \in 1..Len(t) : t[i] = w[i + 1] /\ i + 1 \in 1..Len(w) /\ i + 1 # 1
      <4>1. w \in Seq(Clients) /\ w # << >> /\ Woken(q) = {h} /\ Asleep(q) = t
        BY <1>0, <2>2, <2>5 DEF Woken, Asleep
      <4>2. /\ t \in Seq(Clients) /\ h = w[1] /\ 1 \in 1..Len(w)
            /\ \A i \in 1..Len(t) : t[i] = w[i + 1] /\ i + 1 \in 1..Len(w) /\ i + 1 # 1
        BY <4>1, HeadTailProperties, LenProperties, EmptySeq
      <4> QED BY <2>3, <4>1, <4>2
    <3> HIDE DEF h, t
    <3>2. /\ h \in Clients /\ Sleeping(h, q) /\ h # c /\ phase'[h] = "woken"
      <4>1. h \in Clients /\ Sleeping(h, q)
        BY <1>0, <2>2, <3>1
      <4> QED BY <2>1, <3>1, <4>1 DEF Sleeping
    <3>3. \A d \in Clients : d # c /\ d # h => phase'[d] = phase[d]
      BY <2>1, <3>1
    <3>4. waiters' \in [Pipes -> Seq(Clients)]
      BY <1>0, <2>1, <2>2, <2>3, <3>1
    <3>5. ASSUME NEW p \in Pipes, NEW i \in 1..Len(waiters'[p])
          PROVE  Sleeping(waiters[p][i], p)'
      <4>1. PICK j \in 1..Len(waiters[p]) :
              waiters'[p][i] = waiters[p][j] /\ (p = q => j # 1)
        BY <2>3, <3>1, SMTT(30)
      <4>2. waiters[p][j] \in Clients /\ Sleeping(waiters[p][j], p)
        BY <1>0
      <4>3. waiters[p][j] # h
        <5>1. CASE p = q
          BY <1>0, <2>2, <3>1, <4>1, <5>1
        <5>2. CASE p # q
          BY <3>2, <4>2, <5>2 DEF Sleeping
        <5> QED BY <5>1, <5>2
      <4>4. waiters[p][j] # c
        BY <2>1, <4>2 DEF Sleeping
      <4> QED BY <2>1, <3>3, <4>1, <4>2, <4>3, <4>4 DEF Sleeping, Unsupported
    <3>6. ASSUME NEW p \in Pipes, NEW i \in 1..Len(waiters'[p]), NEW j \in 1..Len(waiters'[p]),
                 waiters'[p][i] = waiters'[p][j]
          PROVE  i = j
      <4>1. CASE p # q
        BY <1>0, <2>3, <3>6, <4>1
      <4>2. CASE p = q
        <5>1. /\ i \in 1..Len(t) /\ j \in 1..Len(t) /\ t[i] = t[j]
              /\ Len(t) \in Nat
          BY <3>1, <3>6, <4>2, LenProperties
        <5>2. w[i + 1] = w[j + 1] /\ i + 1 \in 1..Len(w) /\ j + 1 \in 1..Len(w)
          BY <3>1, <5>1
        <5>3. i + 1 = j + 1
          BY <1>0, <2>2, <5>2
        <5> QED BY <5>1, <5>3
      <4> QED BY <4>1, <4>2
    <3>7. ASSUME NEW p \in Pipes, waiters'[p] # << >>
          PROVE  Len(messages'[p]) <= Cardinality(AwakeFor(p)')
      <4>1. CASE p # q
        <5>1. AwakeFor(p)' = AwakeFor(p)
          BY <2>1, <3>2, <3>3, <4>1 DEF AwakeFor, Reading, Unsupported, Sleeping
        <5> QED BY <1>0, <2>3, <3>7, <4>1, <5>1
      <4>2. CASE p = q
        <5>1. AwakeFor(q)' = AwakeFor(q) \cup {h} /\ h \notin AwakeFor(q)
          BY <2>1, <2>2, <3>2, <3>3 DEF AwakeFor, Reading, Unsupported, Sleeping
        <5>2. PICK A : A = AwakeFor(q)
          OBVIOUS
        <5>3. Cardinality(A \cup {h}) = Cardinality(A) + 1 /\ Cardinality(A) \in Nat
          BY <2>2, <5>1, <5>2, AwakeFinite, FS_AddElement
        <5>4. Len(messages[q]) <= Cardinality(A)
          BY <1>0, <2>2, <2>5, <5>2
        <5> QED BY <2>3, <4>2, <5>1, <5>2, <5>3, <5>4
      <4> QED BY <4>1, <4>2
    <3> QED BY <3>4, <3>5, <3>6, <3>7 DEF SleepInv
  <2> QED BY <2>4, <2>5
<1>4. ASSUME NEW c \in Clients, ReadWait(c) PROVE SleepInv'
  <2>0. PICK q \in Pipes : q = req[c].pipe
    BY <1>0, <1>4 DEF ReadWait, Reading, Types, Requests, NoRequest
  <2>1. /\ Reading(c) /\ messages[q] = << >> /\ UNCHANGED <<req, messages>>
        /\ phase' = [phase EXCEPT ![c] = "waiting"]
        /\ waiters' = [waiters EXCEPT ![q] = Append(@, c)]
    BY <1>4, <2>0 DEF ReadWait
  <2>2. q \in Pipes
    OBVIOUS
  <2>3. /\ phase'[c] = "waiting" /\ \A d \in Clients \ {c} : phase'[d] = phase[d]
    BY <1>0, <2>1 DEF Types
  <2>4. /\ waiters' \in [Pipes -> Seq(Clients)]
        /\ \A p \in Pipes \ {q} : waiters'[p] = waiters[p]
        /\ Len(waiters[q]) \in Nat /\ Len(waiters'[q]) = Len(waiters[q]) + 1
        /\ waiters'[q][Len(waiters[q]) + 1] = c
        /\ \A i \in 1..Len(waiters[q]) : waiters'[q][i] = waiters[q][i]
    <3>1. waiters[q] \in Seq(Clients)
      BY <1>0, <2>2
    <3>2. waiters'[q] = Append(waiters[q], c)
      BY <1>0, <2>1, <2>2
    <3>3. waiters' \in [Pipes -> Seq(Clients)]
          /\ \A p \in Pipes \ {q} : waiters'[p] = waiters[p]
      BY <1>0, <2>1, <2>2, <3>1, AppendProperties
    <3> QED BY <3>1, <3>2, <3>3, AppendProperties, LenProperties
  <2>5. \A p \in Pipes : \A i \in 1..Len(waiters[p]) : waiters[p][i] # c
    BY <1>0, <2>1 DEF Sleeping, Reading
  <2>6. ASSUME NEW p \in Pipes, NEW i \in 1..Len(waiters'[p])
        PROVE  Sleeping(waiters[p][i], p)'
    <3>1. CASE waiters'[p][i] = c /\ p = q
      BY <2>0, <2>1, <2>3, <3>1 DEF Sleeping, Reading, Unsupported
    <3>2. CASE i \in 1..Len(waiters[p]) /\ waiters'[p][i] = waiters[p][i]
      <4>1. /\ waiters[p][i] \in Clients /\ waiters[p][i] # c
            /\ Sleeping(waiters[p][i], p)
        BY <1>0, <2>5, <3>2
      <4> QED BY <2>1, <2>3, <3>2, <4>1 DEF Sleeping, Unsupported
    <3>3. \/ waiters'[p][i] = c /\ p = q
          \/ i \in 1..Len(waiters[p]) /\ waiters'[p][i] = waiters[p][i]
      BY <2>4, <2>6
    <3> QED BY <3>1, <3>2, <3>3
  <2>7. ASSUME NEW p \in Pipes, NEW i \in 1..Len(waiters'[p]), NEW j \in 1..Len(waiters'[p]),
               waiters'[p][i] = waiters'[p][j]
        PROVE  i = j
    <3>1. CASE p # q
      BY <1>0, <2>4, <2>7, <3>1
    <3>2. CASE p = q
      <4>1. \A k \in 1..Len(waiters[q]) : waiters'[q][k] # c
        BY <2>2, <2>4, <2>5
      <4>2. i \in 1..Len(waiters[q]) <=> j \in 1..Len(waiters[q])
        BY <2>4, <2>7, <3>2, <4>1
      <4>3. CASE i \notin 1..Len(waiters[q])
        BY <2>4, <3>2, <4>2, <4>3
      <4>4. CASE i \in 1..Len(waiters[q])
        BY <1>0, <2>2, <2>4, <2>7, <3>2, <4>2, <4>4
      <4> QED BY <4>3, <4>4
    <3> QED BY <3>1, <3>2
  <2>8. ASSUME NEW p \in Pipes, waiters'[p] # << >>
        PROVE  Len(messages'[p]) <= Cardinality(AwakeFor(p)')
    <3>1. CASE p # q
      <4>1. AwakeFor(p)' = AwakeFor(p)
        BY <2>0, <2>1, <2>3, <3>1 DEF AwakeFor, Reading, Unsupported
      <4> QED BY <1>0, <2>1, <2>4, <2>8, <3>1, <4>1
    <3>2. CASE p = q
      <4>1. PICK B : B = AwakeFor(p)'
        OBVIOUS
      <4>2. B \in SUBSET Clients
        BY <4>1 DEF AwakeFor
      <4>3. Cardinality(B) \in Nat
        BY <4>2, FS_Subset, FS_CardinalityType DEF BrokerAssumption
      <4> QED BY <2>1, <3>2, <4>1, <4>3
    <3> QED BY <3>1, <3>2
  <2> QED BY <2>4, <2>6, <2>7, <2>8 DEF SleepInv
<1>5. ASSUME NEW c \in Clients, ReadPop(c) PROVE SleepInv'
  <2>0. PICK q \in Pipes : q = req[c].pipe
    <3>1. req[c].op = "read"
      BY <1>5 DEF ReadPop, Reading
    <3>2. req[c] \in Requests
      BY <1>0, <3>1 DEF Types, NoRequest
    <3> QED BY <3>2 DEF Requests
  <2>1. /\ Reading(c) /\ messages[q] # << >> /\ UNCHANGED <<req, waiters>>
        /\ phase' = [phase EXCEPT ![c] = "popped"]
        /\ messages' = [messages EXCEPT ![q] = Tail(messages[q])]
    BY <1>5, <2>0 DEF ReadPop
  <2>2. q \in Pipes
    OBVIOUS
  <2>3. /\ phase'[c] = "popped" /\ \A d \in Clients \ {c} : phase'[d] = phase[d]
    BY <1>0, <2>1 DEF Types
  <2>4. /\ \A p \in Pipes \ {q} : messages'[p] = messages[p]
        /\ Len(messages[q]) \in Nat /\ Len(messages'[q]) = Len(messages[q]) - 1
    <3>1. messages[q] \in Seq(Msgs) /\ messages'[q] = Tail(messages[q])
          /\ \A p \in Pipes \ {q} : messages'[p] = messages[p]
      BY <1>0, <2>1, <2>2 DEF Types
    <3> QED BY <2>1, <3>1, HeadTailProperties, LenProperties
  <2>5. \A p \in Pipes : \A i \in 1..Len(waiters[p]) : Sleeping(waiters[p][i], p)'
    BY <1>0, <2>1, <2>3 DEF Sleeping, Reading, Unsupported
  <2>6. ASSUME NEW p \in Pipes, waiters[p] # << >>
        PROVE  Len(messages'[p]) <= Cardinality(AwakeFor(p)')
    <3>1. CASE p # q
      <4>1. AwakeFor(p)' = AwakeFor(p)
        BY <2>0, <2>1, <2>3, <3>1 DEF AwakeFor, Reading, Unsupported
      <4> QED BY <1>0, <2>4, <2>6, <3>1, <4>1
    <3>2. CASE p = q
      <4>1. AwakeFor(q)' = AwakeFor(q) \ {c} /\ c \in AwakeFor(q)
        BY <2>0, <2>1, <2>3 DEF AwakeFor, Reading, Unsupported
      <4>2. PICK A : A = AwakeFor(q)
        OBVIOUS
      <4>3. Cardinality(A \ {c}) = Cardinality(A) - 1 /\ Cardinality(A) \in Nat
        BY <2>2, <4>1, <4>2, AwakeFinite, FS_RemoveElement
      <4>4. Len(messages[q]) <= Cardinality(A)
        BY <1>0, <2>2, <2>6, <3>2, <4>2
      <4> QED BY <2>4, <3>2, <4>1, <4>2, <4>3, <4>4
    <3> QED BY <3>1, <3>2
  <2> QED BY <1>0, <2>1, <2>5, <2>6 DEF SleepInv
<1> QED BY <1>1, <1>2, <1>3, <1>4, <1>5 DEF Next, Broker

\* A reader sleeps only while the readers that are awake can take every
\* payload there is: notify(1) (fifo_broker.py) never leaves a payload and a
\* sleeper behind, also when newcomers overtake and requests are refused.
THEOREM NoReaderStranded == Spec => []NoStrandedReader
<1>1. Init => SleepInv
  BY DEF Init, SleepInv
<1>2. SleepInv => NoStrandedReader
  BY DEF SleepInv, NoStrandedReader, AwakeFor
<1> QED BY <1>1, <1>2, InitInv, InvStep, SleepStep, PTL DEF Spec
=============================================================================
