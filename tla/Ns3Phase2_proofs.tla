-------------------------- MODULE Ns3Phase2_proofs --------------------------
(***************************************************************************)
(* The replay for every topology with fixed routes, every trace and any    *)
(* sizes, rates and queue lengths: no acknowledgement leaves early, and a  *)
(* replay that fails has lost a datagram or was given a bad input.         *)
(***************************************************************************)
EXTENDS Ns3Phase2, FiniteSetTheorems, TLAPS

-----------------------------------------------------------------------------
(* The inductive invariant.                                                *)

PacketSet ==
  {p \in [trace : Traces, fragment : Nat, ack : BOOLEAN] :
     p.fragment < Fragments(p.trace, p.ack)}
Directions ==
  [transmitted : SUBSET Nat, received : SUBSET Nat, finish : Int, arrival : Int]

NetType ==
  /\ bench \in Benches /\ now \in Nat
  /\ status \in {"reading", "running", "done", "failed"}
  /\ sends \subseteq [at : Nat, trace : Traces, ack : BOOLEAN]
  /\ queue \in [Devices -> Seq(PacketSet)] /\ due \in [Devices -> Nat]
  /\ flight \subseteq [at : Nat, node : NodeIds, packet : PacketSet]
  /\ direction \in [Traces -> [BOOLEAN -> Directions]]
  /\ status = "running" => Accepted
  /\ status = "reading" =>
       /\ now = 0 /\ sends = {} /\ flight = {} /\ scheduled = {}
       /\ \A d \in Devices : queue[d] = << >>
       /\ direction = [t \in Traces |-> [ack \in BOOLEAN |-> NoDirection]]

\* No event lies in the past.
TimeInv ==
  /\ \A s \in sends : now <= s.at
  /\ \A f \in flight : now <= f.at
  /\ \A d \in Devices : queue[d] # << >> => now <= due[d]

\* Where a packet is.
Queued(d, p) == \E i \in 1..Len(queue[d]) : queue[d][i] = p
Flies(p) == \E f \in flight : f.packet = p
Carried(p) == Flies(p) \/ \E d \in Devices : Queued(d, p)

\* Trace t may be answered at time at.
Answerable(t, at) ==
  /\ direction[t][FALSE].arrival >= 0
  /\ at >= AckStart(t, direction[t][FALSE].arrival)

\* A request that has not been sent has not arrived, and nothing of an
\* answer exists before the trace may be answered.
AckInv ==
  /\ \A s \in sends : s.ack => Answerable(s.trace, s.at)
  /\ \A s \in sends : ~s.ack =>
       /\ s.at = StartTime(s.trace)
       /\ direction[s.trace][FALSE].arrival < 0
       /\ \A p \in PacketSet : p.trace = s.trace /\ ~p.ack => ~Carried(p)
  /\ \A p \in PacketSet : p.ack /\ Carried(p) => Answerable(p.trace, now)
  /\ \A t \in Traces : direction[t][TRUE].finish >= 0 => Answerable(t, now)

\* The direction has been handed to the network, or was local.
Sent(t, ack) ==
  /\ status \in {"running", "done"}
  /\ \A s \in sends : ~(s.trace = t /\ s.ack = ack)
  /\ ack => t \in scheduled

\* Datagram p on its way to be counted as transmitted, and as received.
Leaves(p) ==
  \/ p \in dropped \/ direction[p.trace][p.ack].finish >= 0
  \/ p.fragment \in direction[p.trace][p.ack].transmitted
  \/ \E d \in Devices : d[1] = Source(p.trace, p.ack) /\ Queued(d, p)
Arrives(p) ==
  \/ p \in dropped \/ direction[p.trace][p.ack].arrival >= 0
  \/ p.fragment \in direction[p.trace][p.ack].received
  \/ Carried(p)

\* The datagrams that one direction has counted.
Counts(t, ack) ==
  LET state == direction[t][ack]
      all == 0..(Fragments(t, ack) - 1)
  IN  /\ state.transmitted \subseteq all /\ (state.transmitted = all => state.finish >= 0)
      /\ state.received \subseteq all /\ (state.received = all => state.arrival >= 0)

\* No datagram disappears without a trace, and a direction that has counted
\* all of them is complete.
FlowInv ==
  /\ \A t \in Traces, ack \in BOOLEAN : Sent(t, ack) /\ IsLocal(t, ack) => IsComplete(t, ack)
  /\ \A p \in PacketSet :
       Sent(p.trace, p.ack) /\ ~IsLocal(p.trace, p.ack) => Leaves(p) /\ Arrives(p)
  /\ \A t \in Traces, ack \in BOOLEAN : Counts(t, ack)
  /\ \A t \in Traces :
       direction[t][FALSE].arrival >= 0 /\ IsSpecial(bench[t]) => t \in scheduled

\* Datagram p has left its source and is on its way, and the source knows it.
Underway(p) ==
  Flies(p) \/ \E d \in Devices : d[1] # Source(p.trace, p.ack) /\ Queued(d, p)
Left(p) ==
  \/ direction[p.trace][p.ack].finish >= 0
  \/ p.fragment \in direction[p.trace][p.ack].transmitted

\* The times of one direction: it arrives after it was sent, and a request
\* arrives after the start of its record.
Paced(t, ack) ==
  LET state == direction[t][ack]
  IN  /\ state.finish >= 0 \/ state.received \subseteq state.transmitted
      /\ state.arrival < 0 => state.finish <= now
      /\ state.arrival >= 0 => 0 <= state.finish /\ state.finish <= state.arrival
      /\ state.arrival >= 0 /\ ~ack => StartTime(t) < state.arrival

\* Nothing of a request is in the network before the start of its record, and
\* what has left its source was counted there.
PaceInv ==
  /\ \A p \in PacketSet : ~p.ack /\ Carried(p) => StartTime(p.trace) <= now
  /\ \A f \in flight : ~f.packet.ack => StartTime(f.packet.trace) < f.at
  /\ \A p \in PacketSet : Underway(p) => Left(p)
  /\ \A t \in Traces, ack \in BOOLEAN : Paced(t, ack)

Ns3Inv == NetType /\ TimeInv /\ AckInv /\ FlowInv /\ PaceInv /\ FailureExplained

-----------------------------------------------------------------------------
(* Arithmetic.                                                             *)

LEMMA MaxOfTwo == \A a \in Int, b \in Int : Max({a, b}) = IF a >= b THEN a ELSE b
BY DEF Max

LEMMA MinOfTwo == \A a \in Int, b \in Int : Min({a, b}) = IF a <= b THEN a ELSE b
BY DEF Min

LEMMA Ceiling ==
  ASSUME NEW a \in Nat, NEW b \in Nat \ {0}
  PROVE  CeilDivide(a, b) \in Nat /\ \A k \in Nat : k < CeilDivide(a, b) => k * b < a
<1>1. (a + b - 1) \div b \in Nat
  OBVIOUS
<1>2. \A k \in Nat : k < (a + b - 1) \div b => k * b < a
  OBVIOUS
<1> QED BY <1>1, <1>2 DEF CeilDivide

LEMMA Quotient == \A a \in Nat, b \in Nat \ {0} : a \div b \in Nat
OBVIOUS

LEMMA Product == \A a \in Nat, b \in Nat : a * b \in Nat
OBVIOUS

\* The constants as single facts.
LEMMA Constants ==
  /\ cycle_ns \in Nat \ {0} /\ flit_bytes \in Nat \ {0} /\ max_datagram_bytes \in Nat \ {0}
  /\ queue_packets \in Nat \ {0} /\ link_delay_ns \in Nat \ {0} /\ link_rate \in Nat \ {0}
  /\ header_bytes \in Nat /\ Nodes \in Nat \ {0}
BY Ns3Assumption

-----------------------------------------------------------------------------
(* The trace.                                                              *)

LEMMA TraceFields ==
  ASSUME bench \in Benches, NEW t \in Traces
  PROVE  /\ bench[t].source_cycle \in Nat /\ bench[t].destination_cycle \in Nat
         /\ bench[t].source \in Nat /\ bench[t].destination \in Nat /\ bench[t].flits \in Nat
<1>1. bench \in Seq(BenchRecord)
  BY Ns3Assumption
<1>2. bench[t] \in BenchRecord
  BY <1>1 DEF Traces
<1> QED BY <1>2 DEF BenchRecord

LEMMA TraceFacts ==
  ASSUME bench \in Benches, NEW t \in Traces, NEW ack \in BOOLEAN
  PROVE  /\ Bytes(t, ack) \in Nat /\ Fragments(t, ack) \in Nat \ {0}
         /\ StartTime(t) \in Nat
         /\ \A a \in Int : AckStart(t, a) \in Int /\ AckStart(t, a) >= a
         /\ \A k \in Nat : k < Fragments(t, ack) => FragmentBytes(Bytes(t, ack), k) \in Nat
<1>1. PICK B : B = Bytes(t, ack)
  OBVIOUS
<1>2. B \in Nat
  BY <1>1, TraceFields, Constants, Product DEF Bytes
<1>3. PICK q \in Nat : /\ q = CeilDivide(B, max_datagram_bytes)
                       /\ \A k \in Nat : k < q => k * max_datagram_bytes < B
  BY <1>2, Constants, Ceiling
<1>4. Fragments(t, ack) = IF 1 >= q THEN 1 ELSE q
  BY <1>1, <1>3, MaxOfTwo DEF Fragments, FragmentCount
<1>5. StartTime(t) \in Nat
  BY TraceFields, Constants, Product DEF StartTime
<1>6. \A a \in Int : AckStart(t, a) \in Int /\ AckStart(t, a) >= a
  <2>1. PICK c \in Nat : c = bench[t].destination_cycle * cycle_ns
    BY TraceFields, Constants, Product
  <2> QED BY <2>1, MaxOfTwo DEF AckStart
<1>7. ASSUME NEW k \in Nat, k < Fragments(t, ack) PROVE FragmentBytes(B, k) \in Nat
  <2>1. PICK x \in Nat : x = k * max_datagram_bytes
    BY Constants, Product
  <2>2. x <= B
    <3>1. CASE k < q
      BY <1>2, <1>3, <2>1, <3>1
    <3>2. CASE k = 0
      BY <1>2, <2>1, <3>2, Constants
    <3> QED BY <1>4, <1>7, <3>1, <3>2
  <2>3. B - x \in Nat /\ max_datagram_bytes \in Nat
    BY <1>2, <2>2, Constants
  <2> QED BY <2>1, <2>3, MinOfTwo DEF FragmentBytes
<1> QED BY <1>1, <1>2, <1>4, <1>5, <1>6, <1>7

LEMMA TransmitTakes ==
  ASSUME bench \in Benches, NEW p \in PacketSet
  PROVE  TransmitTime(p) \in Nat
<1>1. /\ p.trace \in Traces /\ p.ack \in BOOLEAN /\ p.fragment \in Nat
      /\ p.fragment < Fragments(p.trace, p.ack)
  BY DEF PacketSet
<1>2. PICK n \in Nat : n = FragmentBytes(Bytes(p.trace, p.ack), p.fragment)
  BY <1>1, TraceFacts
<1>3. n + header_bytes \in Nat
  BY Constants
<1> QED BY <1>2, <1>3, Constants, Quotient DEF TransmitTime

LEMMA Ends ==
  ASSUME bench \in Benches, Accepted, NEW t \in Traces, NEW ack \in BOOLEAN
  PROVE  Source(t, ack) \in NodeIds /\ Destination(t, ack) \in NodeIds
<1>1. bench[t].source \in NodeIds /\ bench[t].destination \in NodeIds
  BY DEF Accepted
<1>2. 0 \in NodeIds
  BY Constants DEF NodeIds
<1> QED BY <1>1, <1>2 DEF Source, Destination, RoutingDestination

LEMMA FirstDevice ==
  ASSUME NEW n \in NodeIds, NEW d \in NodeIds, n # d
  PROVE  <<n, NextHop[n][d]>> \in Devices
BY Ns3Assumption DEF Devices

\* What depends on the input alone.
LEMMA FixedInput ==
  ASSUME UNCHANGED input
  PROVE  /\ bench' = bench /\ Traces' = Traces /\ PacketSet' = PacketSet
         /\ Accepted' = Accepted
         /\ \A t, ack : /\ Fragments(t, ack)' = Fragments(t, ack)
                        /\ Source(t, ack)' = Source(t, ack)
                        /\ Destination(t, ack)' = Destination(t, ack)
                        /\ IsLocal(t, ack)' = IsLocal(t, ack)
         /\ \A t, a : AckStart(t, a)' = AckStart(t, a)
         /\ \A t : StartTime(t)' = StartTime(t) /\ Unrouted(t)' = Unrouted(t)
<1>1. bench' = bench /\ localize_cross_worker_network' = localize_cross_worker_network
  BY DEF input
<1>2. Traces' = Traces
  BY <1>1 DEF Traces
<1>3. \A t, ack : Fragments(t, ack)' = Fragments(t, ack)
  BY <1>1, Zenon DEF Fragments, Bytes
<1>4. \A t, ack : /\ Source(t, ack)' = Source(t, ack)
                  /\ Destination(t, ack)' = Destination(t, ack)
  BY <1>1, Zenon DEF Source, Destination, RoutingDestination
<1>5. \A t, ack : IsLocal(t, ack)' = IsLocal(t, ack)
  BY <1>4 DEF IsLocal
<1>6. \A t, a : AckStart(t, a)' = AckStart(t, a)
  BY <1>1, Zenon DEF AckStart
<1>7. \A t : StartTime(t)' = StartTime(t) /\ Unrouted(t)' = Unrouted(t)
  BY <1>1, Zenon DEF StartTime, Unrouted
<1>8. PacketSet' = PacketSet
  BY <1>2, <1>3 DEF PacketSet
<1>9. Accepted' = Accepted
  BY <1>1, <1>2 DEF Accepted
<1> QED BY <1>1, <1>2, <1>3, <1>4, <1>5, <1>6, <1>7, <1>8, <1>9

-----------------------------------------------------------------------------
(* A device queue with tail drop, and the other effects of a step.         *)

LEMMA Prefix ==
  ASSUME NEW S, NEW s \in Seq(S), NEW n \in Nat, n <= Len(s)
  PROVE  /\ SubSeq(s, 1, n) \in Seq(S) /\ Len(SubSeq(s, 1, n)) = n
         /\ \A i \in 1..n : SubSeq(s, 1, n)[i] = s[i]
OBVIOUS

\* Sequence r is the part of all, which is ps behind q, that a queue keeps.
Keeps(S, q, ps, all, kept, r) ==
  /\ r \in Seq(S) /\ r # << >> /\ Head(all) \in S
  /\ \A i \in 1..Len(r) : \/ \E j \in 1..Len(q) : r[i] = q[j]
                          \/ \E j \in 1..Len(ps) : r[i] = ps[j]
  /\ \A j \in 1..Len(q) : \/ \E i \in 1..Len(r) : r[i] = q[j]
                          \/ \E k \in (kept + 1)..Len(all) : all[k] = q[j]
  /\ \A j \in 1..Len(ps) : \/ \E i \in 1..Len(r) : r[i] = ps[j]
                           \/ \E k \in (kept + 1)..Len(all) : all[k] = ps[j]

LEMMA TailDrop ==
  ASSUME NEW S, NEW q \in Seq(S), NEW ps \in Seq(S), ps # << >>,
         NEW all, all = q \o ps, NEW kept \in Nat,
         kept <= Len(all), kept # 0, NEW r, r = SubSeq(all, 1, kept)
  PROVE  Keeps(S, q, ps, all, kept, r)
<1>1. PICK m \in Nat, n \in Nat : m = Len(q) /\ n = Len(ps)
  OBVIOUS
<1>2. /\ all \in Seq(S) /\ Len(all) = m + n
      /\ \A i \in 1..m : all[i] = q[i]
      /\ \A i \in 1..n : all[m + i] = ps[i]
  BY <1>1
<1>3. /\ r \in Seq(S) /\ Len(r) = kept
      /\ \A i \in 1..kept : r[i] = all[i]
  <2>1. PICK s \in Seq(S) : s = all
    BY <1>2
  <2>2. r = SubSeq(s, 1, kept) /\ kept <= Len(s)
    BY <2>1
  <2> QED BY ONLY <2>1, <2>2, Prefix, kept \in Nat
<1>4. Head(all) \in S /\ r # << >>
  <2>1. PICK s \in Seq(S) : s = all
    BY <1>2
  <2>2. Len(s) # 0 /\ Len(r) # 0
    BY <1>3, <2>1
  <2>3. Head(s) \in S
    BY ONLY <2>2, s \in Seq(S)
  <2>4. r # << >>
    BY ONLY <1>3, <2>2
  <2> QED BY ONLY <2>1, <2>3, <2>4
<1>5. \A i \in 1..(m + n) : i \in 1..m \/ i - m \in 1..n
  OBVIOUS
<1>6. \A i \in 1..(m + n) : i \in 1..kept \/ i \in (kept + 1)..(m + n)
  OBVIOUS
<1>7. \A i \in 1..kept : \/ \E j \in 1..m : r[i] = q[j]
                         \/ \E j \in 1..n : r[i] = ps[j]
  <2> TAKE i \in 1..kept
  <2>1. i \in 1..(m + n)
    BY <1>2
  <2>2. CASE i \in 1..m
    BY <1>2, <1>3, <2>2
  <2>3. CASE i - m \in 1..n
    <3>1. all[m + (i - m)] = ps[i - m] /\ m + (i - m) = i
      BY <1>2, <2>3
    <3> QED BY <1>3, <2>3, <3>1
  <2> QED BY <1>5, <2>1, <2>2, <2>3
<1>8. \A k \in 1..(m + n) : \/ \E i \in 1..kept : r[i] = all[k]
                            \/ \E i \in (kept + 1)..(m + n) : all[i] = all[k]
  BY <1>3, <1>6
<1>9. \A j \in 1..m : j \in 1..(m + n) /\ all[j] = q[j]
  BY <1>2
<1>10. \A j \in 1..n : m + j \in 1..(m + n) /\ all[m + j] = ps[j]
  BY <1>2
<1>11. \A j \in 1..m : \/ \E i \in 1..kept : r[i] = q[j]
                       \/ \E k \in (kept + 1)..(m + n) : all[k] = q[j]
  BY ONLY <1>8, <1>9, Zenon
<1>12. \A j \in 1..n : \/ \E i \in 1..kept : r[i] = ps[j]
                       \/ \E k \in (kept + 1)..(m + n) : all[k] = ps[j]
  <2> TAKE j \in 1..n
  <2>1. PICK i : i = m + j /\ i \in 1..(m + n) /\ all[i] = ps[j]
    BY ONLY <1>10, j \in 1..n, Zenon
  <2> QED BY ONLY <1>8, <2>1, Zenon
<1>13. Len(q) = m /\ Len(ps) = n /\ Len(r) = kept /\ Len(all) = m + n
  BY <1>1, <1>2, <1>3
<1> QED BY ONLY <1>3, <1>4, <1>7, <1>11, <1>12, <1>13 DEF Keeps

LEMMA EnqueueFacts ==
  ASSUME NetType, NEW d \in Devices, NEW ps \in Seq(PacketSet), ps # << >>,
         now' \in Nat, Enqueue(d, ps)
  PROVE  /\ queue' \in [Devices -> Seq(PacketSet)] /\ due' \in [Devices -> Nat]
         /\ \A e \in Devices : queue'[e] # << >> =>
              (queue[e] # << >> /\ due'[e] = due[e]) \/ now' <= due'[e]
         /\ \A e \in Devices : \A p : Queued(e, p)' => Queued(e, p) \/ \E i \in 1..Len(ps) : ps[i] = p
         /\ \A e \in Devices \ {d} : \A p : Queued(e, p)' => Queued(e, p)
         /\ \A e \in Devices : \A p : Queued(e, p) => Queued(e, p)' \/ p \in dropped'
         /\ \A i \in 1..Len(ps) : Queued(d, ps[i])' \/ ps[i] \in dropped'
         /\ dropped \subseteq dropped'
<1>1. PICK q \in Seq(PacketSet) : q = queue[d]
  BY DEF NetType
<1>2. PICK all : all = q \o ps
  OBVIOUS
<1>3. PICK kept : kept = Min({Len(all), 1 + queue_packets})
  OBVIOUS
<1>4. PICK r : r = SubSeq(all, 1, kept)
  OBVIOUS
<1>5. /\ queue' = [queue EXCEPT ![d] = r]
      /\ due' = [due EXCEPT ![d] = IF q = << >> THEN now' + TransmitTime(Head(all)) ELSE @]
      /\ dropped' = dropped \cup {all[k] : k \in (kept + 1)..Len(all)}
  BY <1>1, <1>2, <1>3, <1>4, Zenon DEF Enqueue
<1>6. kept \in Nat /\ kept <= Len(all) /\ kept # 0
  <2>1. Len(all) \in Nat /\ Len(all) # 0
    BY <1>2
  <2>2. 1 + queue_packets \in Nat \ {0}
    BY Constants
  <2>3. kept = IF Len(all) <= 1 + queue_packets THEN Len(all) ELSE 1 + queue_packets
    BY ONLY <1>3, <2>1, <2>2, MinOfTwo
  <2> QED BY ONLY <2>1, <2>2, <2>3
<1>7. /\ r \in Seq(PacketSet) /\ r # << >> /\ Head(all) \in PacketSet
      /\ \A i \in 1..Len(r) : \/ \E j \in 1..Len(q) : r[i] = q[j]
                              \/ \E j \in 1..Len(ps) : r[i] = ps[j]
      /\ \A j \in 1..Len(q) : \/ \E i \in 1..Len(r) : r[i] = q[j]
                              \/ \E k \in (kept + 1)..Len(all) : all[k] = q[j]
      /\ \A j \in 1..Len(ps) : \/ \E i \in 1..Len(r) : r[i] = ps[j]
                               \/ \E k \in (kept + 1)..Len(all) : all[k] = ps[j]
  <2>1. Keeps(PacketSet, q, ps, all, kept, r)
    BY <1>2, <1>4, <1>6, TailDrop, Zenon
  <2> QED BY ONLY <2>1 DEF Keeps
<1>8. PICK x \in Nat : x = TransmitTime(Head(all))
  BY <1>7, TransmitTakes DEF NetType
<1>9. queue' \in [Devices -> Seq(PacketSet)] /\ due' \in [Devices -> Nat]
  <2>1. queue' \in [Devices -> Seq(PacketSet)]
    BY <1>5, <1>7 DEF NetType
  <2>2. now' + x \in Nat
    BY <1>8
  <2>3. due' \in [Devices -> Nat]
    BY <1>5, <1>8, <2>2 DEF NetType
  <2> QED BY <2>1, <2>3
<1>10. \A e \in Devices : queue'[e] = IF e = d THEN r ELSE queue[e]
  BY <1>5 DEF NetType
<1>11. \A e \in Devices : due'[e] = IF e = d /\ q = << >> THEN now' + x ELSE due[e]
  BY <1>5, <1>8 DEF NetType
<1>12. ASSUME NEW e \in Devices, queue'[e] # << >>
       PROVE  (queue[e] # << >> /\ due'[e] = due[e]) \/ now' <= due'[e]
  <2>1. now' <= now' + x
    BY <1>8
  <2> QED BY <1>1, <1>10, <1>11, <1>12, <2>1
<1>13. \A k \in (kept + 1)..Len(all) : all[k] \in dropped'
  BY <1>5
<1>14. ASSUME NEW e \in Devices, NEW p, Queued(e, p)'
       PROVE  Queued(e, p) \/ \E i \in 1..Len(ps) : ps[i] = p
  <2>1. PICK i \in 1..Len(queue'[e]) : queue'[e][i] = p
    BY <1>14 DEF Queued
  <2>2. CASE e = d
    <3>1. i \in 1..Len(r) /\ r[i] = p
      BY <1>10, <2>1, <2>2
    <3> QED BY <1>1, <1>7, <2>2, <3>1 DEF Queued
  <2>3. CASE e # d
    BY <1>10, <2>1, <2>3 DEF Queued
  <2> QED BY <2>2, <2>3
<1>15. ASSUME NEW e \in Devices, NEW p, Queued(e, p)
       PROVE  Queued(e, p)' \/ p \in dropped'
  <2>1. PICK i \in 1..Len(queue[e]) : queue[e][i] = p
    BY <1>15 DEF Queued
  <2>2. CASE e = d
    <3>1. i \in 1..Len(q) /\ q[i] = p
      BY <1>1, <2>1, <2>2
    <3>2. CASE \E j \in 1..Len(r) : r[j] = q[i]
      BY <1>10, <2>2, <3>1, <3>2 DEF Queued
    <3>3. CASE \E k \in (kept + 1)..Len(all) : all[k] = q[i]
      BY <1>13, <3>1, <3>3
    <3> QED BY <1>7, <3>1, <3>2, <3>3
  <2>3. CASE e # d
    BY <1>10, <2>1, <2>3 DEF Queued
  <2> QED BY <2>2, <2>3
<1>16. ASSUME NEW j \in 1..Len(ps)
       PROVE  Queued(d, ps[j])' \/ ps[j] \in dropped'
  <2>1. CASE \E i \in 1..Len(r) : r[i] = ps[j]
    BY <1>10, <2>1 DEF Queued
  <2>2. CASE \E k \in (kept + 1)..Len(all) : all[k] = ps[j]
    BY <1>13, <2>2
  <2> QED BY <1>7, <2>1, <2>2
<1>17. dropped \subseteq dropped'
  BY <1>5
<1>18. \A e \in Devices \ {d} : \A p : Queued(e, p)' => Queued(e, p)
  BY <1>10 DEF Queued
<1> QED BY <1>9, <1>12, <1>14, <1>15, <1>16, <1>17, <1>18

\* The request of trace t is complete, or a datagram of an answer arrived.
LEMMA CompletedFacts ==
  ASSUME NetType, NEW t \in Traces, NEW ack \in BOOLEAN, NEW arrival \in Nat,
         NEW others, others \subseteq sends, now' \in Nat, Completed(t, ack, arrival, others)
  PROVE  /\ sends' \subseteq [at : Nat, trace : Traces, ack : BOOLEAN]
         /\ others \subseteq sends'
         /\ \A s \in sends' :
              \/ s \in others
              \/ /\ s.ack /\ s.trace = t /\ ~ack
                 /\ s.at >= now' /\ s.at >= AckStart(t, arrival)
         /\ scheduled \subseteq scheduled'
         /\ \A u \in scheduled' : u \in scheduled \/ (u = t /\ \E s \in sends' : s.trace = t /\ s.ack)
         /\ ~ack /\ IsSpecial(bench[t]) => t \in scheduled'
<1>1. CASE ~(~ack /\ IsSpecial(bench[t]))
  <2>1. sends' = others /\ scheduled' = scheduled
    BY <1>1 DEF Completed
  <2> QED BY <1>1, <2>1 DEF NetType
<1>2. CASE ~ack /\ IsSpecial(bench[t])
  <2>1. PICK a \in Int : a = AckStart(t, arrival)
    BY TraceFacts DEF NetType
  <2>2. PICK at : at = Max({now', AckStart(t, arrival)})
    OBVIOUS
  <2>3. at \in Nat /\ at >= now' /\ at >= a
    <3>1. at = IF now' >= a THEN now' ELSE a
      BY <2>1, <2>2, MaxOfTwo
    <3> QED BY <3>1
  <2>4. PICK new : new = [at |-> at, trace |-> t, ack |-> TRUE]
    OBVIOUS
  <2>5. new \in [at : Nat, trace : Traces, ack : BOOLEAN] /\ new.at = at /\ new.trace = t /\ new.ack
    BY <2>3, <2>4
  <2>6. /\ scheduled' = scheduled \cup {t}
        /\ sends' = others \cup (IF t \in scheduled THEN {} ELSE {new})
    BY <1>2, <2>2, <2>4 DEF Completed, ScheduleAcknowledgement
  <2>7. sends' \subseteq [at : Nat, trace : Traces, ack : BOOLEAN]
    BY <2>5, <2>6 DEF NetType
  <2>8. \A u \in scheduled' : u \in scheduled \/ (u = t /\ \E s \in sends' : s.trace = t /\ s.ack)
    BY <2>5, <2>6
  <2> QED BY <1>2, <2>1, <2>3, <2>5, <2>6, <2>7, <2>8
<1> QED BY <1>1, <1>2

LEMMA DirectionUpdated ==
  ASSUME direction \in [Traces -> [BOOLEAN -> Directions]],
         NEW t \in Traces, NEW ack \in BOOLEAN, NEW r \in Directions,
         direction' = [direction EXCEPT ![t][ack] = r]
  PROVE  /\ direction' \in [Traces -> [BOOLEAN -> Directions]]
         /\ \A u \in Traces, a \in BOOLEAN :
              direction'[u][a] = IF u = t /\ a = ack THEN r ELSE direction[u][a]
OBVIOUS

\* The events that remain are not in the past.
LEMMA EventTime ==
  ASSUME NetType, NEW at, IsNext(at)
  PROVE  /\ status = "running" /\ Accepted
         /\ \A s \in sends : at <= s.at
         /\ \A f \in flight : at <= f.at
         /\ \A d \in Devices : queue[d] # << >> => at <= due[d]
BY DEF NetType, IsNext, DueTimes

-----------------------------------------------------------------------------
(* What a step must do to keep AckInv and FlowInv.                         *)

\* A request that has arrived keeps its arrival.
ArrivalKept ==
  \A t \in Traces :
    direction[t][FALSE].arrival >= 0 => direction'[t][FALSE].arrival = direction[t][FALSE].arrival

LEMMA AnswerableKept ==
  ASSUME NetType, UNCHANGED input, ArrivalKept, NEW t \in Traces, NEW a \in Int, NEW b \in Int,
         a <= b, Answerable(t, a)
  PROVE  direction'[t][FALSE].arrival >= 0 /\ b >= AckStart(t, direction'[t][FALSE].arrival)
<1>1. PICK x \in Int : x = direction[t][FALSE].arrival
  BY DEF NetType, Directions
<1>2. direction'[t][FALSE].arrival = x /\ x >= 0 /\ a >= AckStart(t, x)
  BY <1>1 DEF Answerable, ArrivalKept
<1>3. AckStart(t, x) \in Int
  BY <1>1, TraceFacts DEF NetType
<1> QED BY <1>2, <1>3

LEMMA AckKept ==
  ASSUME NetType, AckInv, UNCHANGED input, now' \in Nat, now <= now', ArrivalKept,
         sends' \subseteq [at : Nat, trace : Traces, ack : BOOLEAN],
         \A s \in sends' : s \in sends \/ (s.ack /\ Answerable(s.trace, s.at)'),
         \A s \in sends' : s \in sends /\ ~s.ack => direction'[s.trace][FALSE].arrival < 0,
         \A p \in PacketSet : Carried(p)' =>
           \/ Carried(p)
           \/ p.ack /\ Answerable(p.trace, now')
           \/ ~p.ack /\ \A s \in sends' : ~(s.trace = p.trace /\ ~s.ack),
         \A t \in Traces : direction'[t][TRUE].finish >= 0 =>
           direction[t][TRUE].finish >= 0 \/ Answerable(t, now')
  PROVE  AckInv'
<1>1. \A t \in Traces : \A a \in Int, b \in Int : a <= b /\ Answerable(t, a) =>
        direction'[t][FALSE].arrival >= 0 /\ b >= AckStart(t, direction'[t][FALSE].arrival)
  BY AnswerableKept
<1>2. \A t \in Traces : \A x : AckStart(t, x)' = AckStart(t, x)
  BY FixedInput
<1>3. Traces' = Traces /\ PacketSet' = PacketSet /\ \A t : StartTime(t)' = StartTime(t)
  BY FixedInput
<1>4. now \in Int /\ now' \in Int
  BY DEF NetType
<1>5. ASSUME NEW s \in sends', s.ack
      PROVE  Answerable(s.trace, s.at)'
  <2>1. CASE s \in sends
    <3>1. s.trace \in Traces /\ s.at \in Int /\ Answerable(s.trace, s.at) /\ s.at <= s.at
      BY <1>5, <2>1 DEF AckInv, NetType
    <3>2. /\ direction'[s.trace][FALSE].arrival >= 0
          /\ s.at >= AckStart(s.trace, direction'[s.trace][FALSE].arrival)
      BY <1>1, <3>1
    <3> QED BY <1>2, <3>1, <3>2 DEF Answerable
  <2> QED BY <2>1
<1>6. ASSUME NEW s \in sends', ~s.ack
      PROVE  /\ s.at = StartTime(s.trace) /\ direction'[s.trace][FALSE].arrival < 0
             /\ \A p \in PacketSet : p.trace = s.trace /\ ~p.ack => ~Carried(p)'
  <2>1. s \in sends
    BY <1>6
  <2> QED BY <1>6, <2>1 DEF AckInv
<1>7. ASSUME NEW p \in PacketSet, p.ack, Carried(p)'
      PROVE  /\ direction'[p.trace][FALSE].arrival >= 0
             /\ now' >= AckStart(p.trace, direction'[p.trace][FALSE].arrival)
  <2>1. p.trace \in Traces
    BY DEF PacketSet
  <2>2. CASE Carried(p)
    <3>1. Answerable(p.trace, now)
      BY <1>7, <2>2 DEF AckInv
    <3> QED BY <1>1, <1>4, <2>1, <3>1
  <2>3. CASE Answerable(p.trace, now')
    <3>1. now' <= now'
      BY <1>4
    <3> QED BY <1>1, <1>4, <2>1, <2>3, <3>1
  <2> QED BY <1>7, <2>2, <2>3
<1>8. ASSUME NEW t \in Traces, direction'[t][TRUE].finish >= 0
      PROVE  /\ direction'[t][FALSE].arrival >= 0
             /\ now' >= AckStart(t, direction'[t][FALSE].arrival)
  <2>1. CASE direction[t][TRUE].finish >= 0
    <3>1. Answerable(t, now)
      BY <2>1 DEF AckInv
    <3> QED BY <1>1, <1>4, <3>1
  <2>2. CASE Answerable(t, now')
    <3>1. now' <= now'
      BY <1>4
    <3> QED BY <1>1, <1>4, <2>2, <3>1
  <2> QED BY <1>8, <2>1, <2>2
<1>9. \A p \in PacketSet : p.trace \in Traces
  BY DEF PacketSet
<1>10. \A p \in PacketSet : p.ack /\ Carried(p)' => Answerable(p.trace, now)'
  BY <1>2, <1>7, <1>9 DEF Answerable
<1>11. \A t \in Traces : direction'[t][TRUE].finish >= 0 => Answerable(t, now)'
  BY <1>2, <1>8 DEF Answerable
<1> QED BY <1>3, <1>5, <1>6, <1>10, <1>11 DEF AckInv

\* Counted datagrams and times are never taken back.
Monotone ==
  /\ dropped \subseteq dropped'
  /\ \A t \in Traces, ack \in BOOLEAN :
       /\ direction[t][ack].finish >= 0 => direction'[t][ack].finish >= 0
       /\ direction[t][ack].arrival >= 0 => direction'[t][ack].arrival >= 0
       /\ direction[t][ack].transmitted \subseteq direction'[t][ack].transmitted
       /\ direction[t][ack].received \subseteq direction'[t][ack].received

LEMMA FlowKept ==
  ASSUME NetType, FlowInv, UNCHANGED input, Monotone,
         \A t \in Traces, ack \in BOOLEAN :
           Sent(t, ack)' /\ ~Sent(t, ack) /\ IsLocal(t, ack) => IsComplete(t, ack)',
         \A p \in PacketSet :
           Sent(p.trace, p.ack)' /\ ~Sent(p.trace, p.ack) /\ ~IsLocal(p.trace, p.ack) =>
             \E d \in Devices : /\ d[1] = Source(p.trace, p.ack)
                                /\ Queued(d, p)' \/ p \in dropped',
         \A p \in PacketSet : \A d \in Devices : Queued(d, p) =>
           \/ Queued(d, p)' \/ p \in dropped'
           \/ /\ Flies(p)'
              /\ \/ d[1] # Source(p.trace, p.ack)
                 \/ direction'[p.trace][p.ack].finish >= 0
                 \/ p.fragment \in direction'[p.trace][p.ack].transmitted,
         \A p \in PacketSet : Flies(p) =>
           \/ Carried(p)' \/ p \in dropped'
           \/ direction'[p.trace][p.ack].arrival >= 0
           \/ p.fragment \in direction'[p.trace][p.ack].received,
         \A t \in Traces, ack \in BOOLEAN : Counts(t, ack)',
         \A t \in Traces : direction'[t][FALSE].arrival >= 0 /\ IsSpecial(bench[t]) => t \in scheduled'
  PROVE  FlowInv'
<1>1. /\ Traces' = Traces /\ PacketSet' = PacketSet /\ bench' = bench
      /\ \A t, ack : IsLocal(t, ack)' = IsLocal(t, ack) /\ Source(t, ack)' = Source(t, ack)
  BY FixedInput
<1>2. \A t \in Traces, ack \in BOOLEAN :
        Sent(t, ack)' /\ IsLocal(t, ack) => IsComplete(t, ack)'
  BY DEF FlowInv, IsComplete, Monotone
<1>3. ASSUME NEW p \in PacketSet, Sent(p.trace, p.ack)', ~IsLocal(p.trace, p.ack)
      PROVE  Leaves(p)' /\ Arrives(p)'
  <2>1. p.trace \in Traces /\ p.ack \in BOOLEAN
    BY DEF PacketSet
  <2>2. CASE ~Sent(p.trace, p.ack)
    <3>1. PICK d \in Devices : /\ d[1] = Source(p.trace, p.ack)
                               /\ Queued(d, p)' \/ p \in dropped'
      BY <1>3, <2>2
    <3> QED BY <1>1, <3>1 DEF Leaves, Arrives, Carried
  <2>3. CASE Sent(p.trace, p.ack)
    <3>1. Leaves(p) /\ Arrives(p)
      BY <1>3, <2>3 DEF FlowInv
    <3>2. Leaves(p)'
      <4>1. CASE \E d \in Devices : d[1] = Source(p.trace, p.ack) /\ Queued(d, p)
        BY <1>1, <4>1 DEF Leaves
      <4>2. CASE \/ p \in dropped \/ direction[p.trace][p.ack].finish >= 0
                 \/ p.fragment \in direction[p.trace][p.ack].transmitted
        BY <2>1, <4>2 DEF Leaves, Monotone
      <4> QED BY <3>1, <4>1, <4>2 DEF Leaves
    <3>3. Arrives(p)'
      <4>1. CASE Flies(p)
        BY <4>1 DEF Arrives
      <4>2. CASE \E d \in Devices : Queued(d, p)
        BY <4>2 DEF Arrives, Carried
      <4>3. CASE \/ p \in dropped \/ direction[p.trace][p.ack].arrival >= 0
                 \/ p.fragment \in direction[p.trace][p.ack].received
        BY <2>1, <4>3 DEF Arrives, Monotone
      <4> QED BY <3>1, <4>1, <4>2, <4>3 DEF Arrives, Carried
    <3> QED BY <3>2, <3>3
  <2> QED BY <2>2, <2>3
<1> QED BY <1>1, <1>2, <1>3 DEF FlowInv

LEMMA PacedKept ==
  ASSUME NetType, UNCHANGED input, now' \in Nat, now <= now',
         NEW t \in Traces, NEW ack \in BOOLEAN, Paced(t, ack),
         direction'[t][ack] = direction[t][ack]
  PROVE  Paced(t, ack)'
<1>1. PICK state \in Directions : state = direction[t][ack]
  BY DEF NetType
<1>2. state.finish \in Int /\ state.arrival \in Int /\ now \in Nat
  BY <1>1 DEF Directions, NetType
<1>3. /\ state.finish >= 0 \/ state.received \subseteq state.transmitted
      /\ state.arrival < 0 => state.finish <= now
      /\ state.arrival >= 0 => 0 <= state.finish /\ state.finish <= state.arrival
      /\ state.arrival >= 0 /\ ~ack => StartTime(t) < state.arrival
  BY <1>1 DEF Paced
<1>4. state.arrival < 0 => state.finish <= now'
  BY <1>2, <1>3
<1>5. state = direction'[t][ack] /\ StartTime(t)' = StartTime(t)
  BY <1>1, FixedInput
<1> QED BY <1>3, <1>4, <1>5 DEF Paced

LEMMA PaceKept ==
  ASSUME NetType, PaceInv, UNCHANGED input, now' \in Nat, now <= now', Monotone,
         \A p \in PacketSet : Carried(p)' => Carried(p) \/ p.ack \/ StartTime(p.trace) <= now',
         \A f \in flight' : f \in flight \/ f.packet.ack \/ StartTime(f.packet.trace) < f.at,
         \A p \in PacketSet : Underway(p)' => Underway(p) \/ Left(p)',
         \A t \in Traces, ack \in BOOLEAN : Paced(t, ack)'
  PROVE  PaceInv'
<1>1. /\ Traces' = Traces /\ PacketSet' = PacketSet /\ bench \in Benches
      /\ \A t : StartTime(t)' = StartTime(t)
  BY FixedInput DEF NetType
<1>2. \A p \in PacketSet : p.trace \in Traces /\ p.ack \in BOOLEAN
  BY DEF PacketSet
<1>3. ASSUME NEW p \in PacketSet, ~p.ack, Carried(p)'
      PROVE  StartTime(p.trace) <= now'
  <2>1. CASE Carried(p)
    <3>1. PICK a \in Nat, b \in Nat, c \in Nat : a = StartTime(p.trace) /\ b = now /\ c = now'
      BY <1>1, <1>2, TraceFacts DEF NetType
    <3>2. a <= b /\ b <= c
      BY <1>3, <2>1, <3>1 DEF PaceInv
    <3> QED BY <3>1, <3>2
  <2> QED BY <1>3, <2>1
<1>4. \A f \in flight' : ~f.packet.ack => StartTime(f.packet.trace) < f.at
  BY DEF PaceInv
<1>5. \A p \in PacketSet : Left(p) => Left(p)'
  BY <1>2 DEF Left, Monotone
<1>6. \A p \in PacketSet : Underway(p)' => Left(p)'
  BY <1>5 DEF PaceInv
<1> QED BY <1>1, <1>3, <1>4, <1>6 DEF PaceInv

-----------------------------------------------------------------------------
(* SendDirection.                                                          *)

LEMMA TagFields ==
  \A t, k, ack : /\ TraceFragmentTag(t, k, ack).trace = t
                 /\ TraceFragmentTag(t, k, ack).fragment = k
                 /\ TraceFragmentTag(t, k, ack).ack = ack
BY DEF TraceFragmentTag

LEMMA DatagramFacts ==
  ASSUME bench \in Benches, NEW t \in Traces, NEW ack \in BOOLEAN
  PROVE  /\ Datagrams(t, ack) \in Seq(PacketSet) /\ Datagrams(t, ack) # << >>
         /\ \A i \in 1..Len(Datagrams(t, ack)) :
              Datagrams(t, ack)[i].trace = t /\ Datagrams(t, ack)[i].ack = ack
         /\ \A p \in PacketSet : p.trace = t /\ p.ack = ack =>
              \E i \in 1..Len(Datagrams(t, ack)) : Datagrams(t, ack)[i] = p
<1>1. PICK n \in Nat \ {0} : n = Fragments(t, ack)
  BY TraceFacts
<1>2. PICK ds : ds = Datagrams(t, ack)
  OBVIOUS
<1>3. ds = [k \in 1..n |-> TraceFragmentTag(t, k - 1, ack)]
  BY <1>1, <1>2 DEF Datagrams
<1>4. \A k \in 1..n : TraceFragmentTag(t, k - 1, ack) \in PacketSet
  <2> TAKE k \in 1..n
  <2>1. k - 1 \in Nat /\ k - 1 < n
    OBVIOUS
  <2>2. TraceFragmentTag(t, k - 1, ack) \in [trace : Traces, fragment : Nat, ack : BOOLEAN]
    BY <2>1 DEF TraceFragmentTag
  <2> QED BY <1>1, <2>1, <2>2, TagFields DEF PacketSet
<1>5. ds \in [1..n -> PacketSet]
  BY <1>3, <1>4
<1>6. ds \in Seq(PacketSet) /\ Len(ds) = n /\ ds # << >>
  BY <1>5
<1>7. \A i \in 1..n : ds[i].trace = t /\ ds[i].ack = ack
  BY <1>3, TagFields
<1>8. ASSUME NEW p \in PacketSet, p.trace = t, p.ack = ack
      PROVE  \E i \in 1..n : ds[i] = p
  <2>1. PICK k \in Nat : k = p.fragment /\ k < n
    BY <1>1, <1>8 DEF PacketSet
  <2>2. p = TraceFragmentTag(t, k, ack)
    BY <1>8, <2>1 DEF PacketSet, TraceFragmentTag
  <2>3. k + 1 \in 1..n /\ (k + 1) - 1 = k
    BY <2>1
  <2>4. ds[k + 1] = p
    BY <1>3, <2>2, <2>3
  <2> QED BY <2>3, <2>4
<1> QED BY <1>2, <1>6, <1>7, <1>8

\* A request is scheduled once.
LEMMA OneRequest ==
  ASSUME NetType, AckInv, NEW s \in sends, NEW u \in sends, ~s.ack, ~u.ack, s.trace = u.trace
  PROVE  s = u
<1>1. s.at = u.at /\ s.ack = FALSE /\ u.ack = FALSE
  BY DEF AckInv, NetType
<1>2. /\ s = [at |-> s.at, trace |-> s.trace, ack |-> s.ack]
      /\ u = [at |-> u.at, trace |-> u.trace, ack |-> u.ack]
  BY DEF NetType
<1> QED BY <1>1, <1>2

LEMMA SendStep ==
  ASSUME Ns3Inv, NEW s \in sends, SendDirection(s)
  PROVE  NetType' /\ TimeInv' /\ AckInv' /\ FlowInv' /\ PaceInv'
<1> USE DEF Ns3Inv
<1>1. /\ IsNext(s.at) /\ ~IsLocal(s.trace, s.ack) /\ now' = s.at /\ sends' = sends \ {s}
      /\ UNCHANGED <<input, flight, direction, scheduled, status, delayInfo>>
  BY DEF SendDirection
<1>2. /\ s.at \in Nat /\ s.trace \in Traces /\ s.ack \in BOOLEAN /\ bench \in Benches
      /\ now <= s.at
  BY DEF NetType, TimeInv
<1>3. /\ status = "running" /\ Accepted
      /\ \A u \in sends : s.at <= u.at
      /\ \A f \in flight : s.at <= f.at
      /\ \A d \in Devices : queue[d] # << >> => s.at <= due[d]
  BY <1>1, EventTime
<1>4. PICK n : n = Source(s.trace, s.ack)
  OBVIOUS
<1>5. PICK m : m = Destination(s.trace, s.ack)
  OBVIOUS
<1>6. n \in NodeIds /\ m \in NodeIds /\ n # m
  BY <1>1, <1>2, <1>3, <1>4, <1>5, Ends DEF IsLocal
<1>7. PICK dev \in Devices : dev = <<n, NextHop[n][m]>>
  BY <1>6, FirstDevice
<1>8. PICK ps \in Seq(PacketSet) :
        /\ ps = Datagrams(s.trace, s.ack) /\ ps # << >>
        /\ \A i \in 1..Len(ps) : ps[i].trace = s.trace /\ ps[i].ack = s.ack
        /\ \A p \in PacketSet : p.trace = s.trace /\ p.ack = s.ack =>
             \E i \in 1..Len(ps) : ps[i] = p
  BY <1>2, DatagramFacts
<1>9. Enqueue(dev, ps)
  BY <1>4, <1>5, <1>7, <1>8 DEF SendDirection
<1>10. /\ queue' \in [Devices -> Seq(PacketSet)] /\ due' \in [Devices -> Nat]
       /\ \A e \in Devices : queue'[e] # << >> =>
            (queue[e] # << >> /\ due'[e] = due[e]) \/ now' <= due'[e]
       /\ \A e \in Devices : \A p : Queued(e, p)' => Queued(e, p) \/ \E i \in 1..Len(ps) : ps[i] = p
       /\ \A e \in Devices \ {dev} : \A p : Queued(e, p)' => Queued(e, p)
       /\ \A e \in Devices : \A p : Queued(e, p) => Queued(e, p)' \/ p \in dropped'
       /\ \A i \in 1..Len(ps) : Queued(dev, ps[i])' \/ ps[i] \in dropped'
       /\ dropped \subseteq dropped'
  BY <1>1, <1>2, <1>8, <1>9, EnqueueFacts
<1>11. \A p : Flies(p)' <=> Flies(p)
  BY <1>1 DEF Flies
<1>12. NetType'
  BY <1>1, <1>2, <1>3, <1>10, FixedInput DEF NetType
<1>13. TimeInv'
  BY <1>1, <1>3, <1>10 DEF TimeInv
<1>14. \A e \in Devices : \A p : Queued(e, p)' =>
         Queued(e, p) \/ (p.trace = s.trace /\ p.ack = s.ack)
  <2>1. \A i \in 1..Len(ps) : ps[i].trace = s.trace /\ ps[i].ack = s.ack
    BY ONLY <1>8
  <2>2. \A e \in Devices : \A p : Queued(e, p)' =>
          Queued(e, p) \/ \E i \in 1..Len(ps) : ps[i] = p
    BY ONLY <1>10
  <2> QED BY ONLY <2>1, <2>2
<1>15. \A p \in PacketSet : Carried(p)' => Carried(p) \/ (p.trace = s.trace /\ p.ack = s.ack)
  BY ONLY <1>11, <1>14, Zenon DEF Carried
<1>16. AckInv'
  <2>2. CASE s.ack
    <3>1. Answerable(s.trace, now')
      BY <1>1, <2>2 DEF AckInv
    <3>2. \A p \in PacketSet : Carried(p)' => Carried(p) \/ (p.ack /\ Answerable(p.trace, now'))
      BY <1>15, <2>2, <3>1
    <3> QED BY <1>1, <1>2, <3>2, AckKept DEF ArrivalKept, NetType, AckInv
  <2>3. CASE ~s.ack
    <3>1. \A u \in sends' : ~(u.trace = s.trace /\ ~u.ack)
      BY <1>1, <2>3, OneRequest
    <3>2. \A p \in PacketSet : Carried(p)' =>
            Carried(p) \/ (~p.ack /\ \A u \in sends' : ~(u.trace = p.trace /\ ~u.ack))
      BY <1>15, <2>3, <3>1
    <3> QED BY <1>1, <1>2, <3>2, AckKept DEF ArrivalKept, NetType, AckInv
  <2> QED BY <2>2, <2>3
<1>17. FlowInv'
  <2>1. \A t, ack : Sent(t, ack)' /\ ~Sent(t, ack) => t = s.trace /\ ack = s.ack
    BY <1>1, <1>3 DEF Sent
  <2>2. ASSUME NEW p \in PacketSet, Sent(p.trace, p.ack)', ~Sent(p.trace, p.ack)
        PROVE  \E d \in Devices : /\ d[1] = Source(p.trace, p.ack)
                                  /\ Queued(d, p)' \/ p \in dropped'
    <3>1. p.trace = s.trace /\ p.ack = s.ack
      BY <2>1, <2>2
    <3>2. Queued(dev, p)' \/ p \in dropped'
      BY <1>8, <1>10, <3>1
    <3>3. dev[1] = Source(p.trace, p.ack)
      BY <1>4, <1>7, <3>1
    <3> QED BY <3>2, <3>3
  <2>3. Monotone
    BY <1>1, <1>10 DEF Monotone
  <2>4. \A p \in PacketSet : Flies(p) => Carried(p)'
    BY <1>11 DEF Carried
  <2>5. \A t \in Traces, ack \in BOOLEAN : Counts(t, ack)'
    BY <1>1, FixedInput DEF FlowInv, Counts
  <2>6. \A t \in Traces : direction'[t][FALSE].arrival >= 0 /\ IsSpecial(bench[t]) => t \in scheduled'
    BY <1>1 DEF FlowInv
  <2>7. \A t \in Traces, ack \in BOOLEAN :
          Sent(t, ack)' /\ ~Sent(t, ack) /\ IsLocal(t, ack) => IsComplete(t, ack)'
    BY <1>1, <2>1
  <2> QED BY <1>1, <1>10, <2>2, <2>3, <2>4, <2>5, <2>6, <2>7, FlowKept
<1>18. PaceInv'
  <2>1. Monotone
    BY <1>1, <1>10 DEF Monotone
  <2>2. \A p \in PacketSet : Carried(p)' => Carried(p) \/ p.ack \/ StartTime(p.trace) <= now'
    <3>1. ~s.ack => StartTime(s.trace) <= now'
      <4>1. PICK a \in Nat : a = StartTime(s.trace)
        BY <1>2, TraceFacts
      <4>2. ~s.ack => now' = a
        BY <1>1, <4>1 DEF AckInv
      <4> QED BY <4>1, <4>2
    <3> QED BY <1>15, <3>1
  <2>3. \A p \in PacketSet : Underway(p)' => Underway(p)
    <3>1. dev[1] = Source(s.trace, s.ack)
      BY <1>4, <1>7
    <3>2. \A t, ack : Source(t, ack)' = Source(t, ack)
      BY <1>1, FixedInput
    <3>3. ASSUME NEW p \in PacketSet, NEW e \in Devices, e[1] # Source(p.trace, p.ack), Queued(e, p)'
          PROVE  Queued(e, p)
      <4>1. CASE e = dev
        BY <1>14, <3>1, <3>3, <4>1
      <4>2. CASE e # dev
        BY <1>10, <3>3, <4>2
      <4> QED BY <4>1, <4>2
    <3> QED BY <1>11, <3>2, <3>3 DEF Underway
  <2>4. \A t \in Traces, ack \in BOOLEAN : Paced(t, ack)'
    BY <1>1, <1>2, PacedKept DEF PaceInv
  <2> QED BY <1>1, <1>2, <2>1, <2>2, <2>3, <2>4, PaceKept
<1> QED BY <1>12, <1>13, <1>16, <1>17, <1>18

-----------------------------------------------------------------------------
(* TransmitEnd.                                                            *)

\* A set of datagrams that is as large as all of them is all of them.
LEMMA FullSet ==
  ASSUME NEW n \in Nat, NEW S, S \subseteq 0..(n - 1)
  PROVE  IsFiniteSet(S) /\ (S = 0..(n - 1) <=> Cardinality(S) = n)
<1>1. IsFiniteSet(0..(n - 1)) /\ Cardinality(0..(n - 1)) = n
  BY FS_Interval
<1> QED BY <1>1, FS_Subset

LEMMA DequeueFacts ==
  ASSUME NEW S, NEW q \in Seq(S), q # << >>
  PROVE  /\ Head(q) \in S /\ Tail(q) \in Seq(S)
         /\ \A i \in 1..Len(Tail(q)) : \E j \in 1..Len(q) : Tail(q)[i] = q[j]
         /\ \A j \in 1..Len(q) : q[j] = Head(q) \/ \E i \in 1..Len(Tail(q)) : Tail(q)[i] = q[j]
<1>1. PICK n \in Nat : n = Len(q)
  OBVIOUS
<1>2. PICK r : r = Tail(q)
  OBVIOUS
<1>3. /\ r \in Seq(S) /\ Len(r) = n - 1 /\ n # 0 /\ \A i \in 1..(n - 1) : r[i] = q[i + 1]
      /\ Head(q) \in S /\ Head(q) = q[1]
  BY <1>1, <1>2
<1>4. \A i \in 1..(n - 1) : i + 1 \in 1..n
  BY <1>1
<1>5. \A j \in 1..n : j = 1 \/ (j - 1 \in 1..(n - 1) /\ (j - 1) + 1 = j)
  BY <1>1
<1>6. \A j \in 1..n : q[j] = Head(q) \/ \E i \in 1..(n - 1) : r[i] = q[j]
  <2> TAKE j \in 1..n
  <2>1. CASE j = 1
    BY <1>3, <2>1
  <2>2. CASE j - 1 \in 1..(n - 1) /\ (j - 1) + 1 = j
    <3>1. r[j - 1] = q[j]
      BY <1>3, <2>2
    <3> QED BY <2>2, <3>1
  <2> QED BY <1>5, <2>1, <2>2
<1>7. \A i \in 1..(n - 1) : \E j \in 1..n : r[i] = q[j]
  BY ONLY <1>3, <1>4, Zenon
<1>8. Len(r) = n - 1 /\ Head(q) \in S /\ r \in Seq(S)
  BY ONLY <1>3
<1> QED BY ONLY <1>1, <1>2, <1>6, <1>7, <1>8, Zenon

LEMMA TransmitStep ==
  ASSUME Ns3Inv, NEW d \in Devices, TransmitEnd(d)
  PROVE  NetType' /\ TimeInv' /\ AckInv' /\ FlowInv' /\ PaceInv'
<1> USE DEF Ns3Inv
<1>1. PICK q \in Seq(PacketSet) : q = queue[d]
  BY DEF NetType
<1>2. PICK p : p = Head(q)
  OBVIOUS
<1>3. PICK rest : rest = Tail(q)
  OBVIOUS
<1>4. PICK new : new = [at |-> now' + link_delay_ns, node |-> d[2], packet |-> p]
  OBVIOUS
<1>5. /\ q # << >> /\ IsNext(due[d]) /\ now' = due[d]
      /\ OnTransmitEnd(d[1], p)
      /\ flight' = flight \cup {new}
      /\ queue' = [queue EXCEPT ![d] = rest]
      /\ due' = [due EXCEPT ![d] = IF rest = << >> THEN 0 ELSE now' + TransmitTime(Head(rest))]
      /\ UNCHANGED <<input, sends, scheduled, dropped, status, delayInfo>>
  BY <1>1, <1>2, <1>3, <1>4, Zenon DEF TransmitEnd
<1>6. /\ now' \in Nat /\ bench \in Benches /\ now <= now'
      /\ direction \in [Traces -> [BOOLEAN -> Directions]]
  BY <1>1, <1>5 DEF NetType, TimeInv
<1>7. /\ status = "running" /\ Accepted
      /\ \A s \in sends : now' <= s.at
      /\ \A f \in flight : now' <= f.at
      /\ \A e \in Devices : queue[e] # << >> => now' <= due[e]
  BY <1>5, EventTime
<1>8. /\ p \in PacketSet /\ rest \in Seq(PacketSet)
      /\ \A i \in 1..Len(rest) : \E j \in 1..Len(q) : rest[i] = q[j]
      /\ \A j \in 1..Len(q) : q[j] = p \/ \E i \in 1..Len(rest) : rest[i] = q[j]
  BY <1>2, <1>3, <1>5, DequeueFacts
<1>9. p.trace \in Traces /\ p.ack \in BOOLEAN /\ p.fragment \in Nat
      /\ p.fragment < Fragments(p.trace, p.ack)
  BY <1>8 DEF PacketSet
<1>10. new \in [at : Nat, node : NodeIds, packet : PacketSet]
       /\ new.packet = p /\ now' <= new.at
  <2>1. d[2] \in NodeIds
    BY DEF Devices
  <2>2. PICK w \in Nat : w = now'
    BY <1>6
  <2>3. w + link_delay_ns \in Nat /\ w <= w + link_delay_ns
    BY Constants
  <2> QED BY <1>4, <1>8, <2>1, <2>2, <2>3
<1>11. \A e \in Devices : queue'[e] = IF e = d THEN rest ELSE queue[e]
  BY <1>5 DEF NetType
<1>12. queue' \in [Devices -> Seq(PacketSet)]
  BY <1>5, <1>8 DEF NetType
<1>13. PICK x \in Nat : x = IF rest = << >> THEN 0 ELSE now' + TransmitTime(Head(rest))
  <2>1. CASE rest = << >>
    BY <2>1
  <2>2. CASE rest # << >>
    <3>1. Head(rest) \in PacketSet
      BY <1>8, <2>2
    <3>2. TransmitTime(Head(rest)) \in Nat
      BY <1>6, <3>1, TransmitTakes
    <3> QED BY <1>6, <2>2, <3>2
  <2> QED BY <2>1, <2>2
<1>14. rest # << >> => now' <= x
  <2>1. ASSUME rest # << >> PROVE now' <= x
    <3>1. Head(rest) \in PacketSet
      BY <1>8, <2>1
    <3>2. TransmitTime(Head(rest)) \in Nat
      BY <1>6, <3>1, TransmitTakes
    <3> QED BY <1>6, <1>13, <2>1, <3>2
  <2> QED BY <2>1
<1>15. due' \in [Devices -> Nat] /\ \A e \in Devices : due'[e] = IF e = d THEN x ELSE due[e]
  BY <1>5, <1>13 DEF NetType
<1>16. \A e \in Devices : \A y : Queued(e, y)' => Queued(e, y)
  BY <1>1, <1>8, <1>11, SMTT(30) DEF Queued
<1>17. \A e \in Devices : \A y : Queued(e, y) => Queued(e, y)' \/ (e = d /\ y = p)
  BY <1>1, <1>8, <1>11, SMTT(30) DEF Queued
<1>18. \A y : Flies(y)' <=> Flies(y) \/ y = p
  BY <1>5, <1>10 DEF Flies
<1>19. Queued(d, p)
  BY <1>1, <1>2, <1>5 DEF Queued
\* The direction of the packet.
<1>20. PICK state \in Directions : state = direction[p.trace][p.ack]
  BY <1>6, <1>9
<1>21. PICK F \in Nat : F = Fragments(p.trace, p.ack)
  BY <1>6, <1>9, TraceFacts
<1>22. PICK r \in Directions :
         /\ \A t \in Traces, ack \in BOOLEAN :
              direction'[t][ack] = IF t = p.trace /\ ack = p.ack THEN r ELSE direction[t][ack]
         /\ direction' \in [Traces -> [BOOLEAN -> Directions]]
         /\ r.received = state.received /\ r.arrival = state.arrival
         /\ state.transmitted \subseteq r.transmitted
         /\ state.finish >= 0 => r.finish = state.finish
         /\ d[1] = Source(p.trace, p.ack) => r.finish >= 0 \/ p.fragment \in r.transmitted
         /\ r.transmitted \subseteq 0..(F - 1)
         /\ r.transmitted = 0..(F - 1) => r.finish >= 0
         /\ r.finish = state.finish \/ r.finish = now'
  <2>1. /\ state.transmitted \subseteq 0..(F - 1) /\ state.transmitted \subseteq Nat
        /\ state.transmitted = 0..(F - 1) => state.finish >= 0
    <3>1. Counts(p.trace, p.ack)
      BY <1>9 DEF FlowInv
    <3> QED BY <1>20, <1>21, <3>1 DEF Counts, Directions
  <2>2. CASE d[1] # Source(p.trace, p.ack) \/ state.finish >= 0
    <3>1. direction' = direction
      BY <1>5, <1>20, <2>2, Zenon DEF OnTransmitEnd
    <3> QED BY <1>6, <1>20, <2>1, <2>2, <3>1
  <2>3. CASE d[1] = Source(p.trace, p.ack) /\ ~(state.finish >= 0)
    <3>1. PICK T : T = state.transmitted \cup {p.fragment}
      OBVIOUS
    <3>2. PICK g : g = IF Cardinality(T) = F THEN now' ELSE state.finish
      OBVIOUS
    <3>3. g \in Int
      BY <1>6, <1>20, <3>2 DEF Directions
    <3>4. T \subseteq 0..(F - 1) /\ T \in SUBSET Nat
      BY <1>9, <1>21, <2>1, <3>1
    <3>5. T = 0..(F - 1) => g >= 0
      BY <1>6, <3>2, <3>4, FullSet
    <3>6. PICK r : r = [state EXCEPT !.transmitted = T, !.finish = g]
      OBVIOUS
    <3>7. direction' = [direction EXCEPT ![p.trace][p.ack] = r]
      <4>1. ~(d[1] # Source(p.trace, p.ack) \/ direction[p.trace][p.ack].finish >= 0)
        BY <1>20, <2>3
      <4>2. direction' = [direction EXCEPT ![p.trace][p.ack] =
              [direction[p.trace][p.ack] EXCEPT
                 !.transmitted = direction[p.trace][p.ack].transmitted \cup {p.fragment},
                 !.finish = IF Cardinality(direction[p.trace][p.ack].transmitted \cup {p.fragment})
                                 = Fragments(p.trace, p.ack)
                            THEN now' ELSE direction[p.trace][p.ack].finish]]
        BY <1>5, <4>1, Zenon DEF OnTransmitEnd
      <4>3. g = IF Cardinality(direction[p.trace][p.ack].transmitted \cup {p.fragment})
                     = Fragments(p.trace, p.ack)
                THEN now' ELSE direction[p.trace][p.ack].finish
        BY <1>20, <1>21, <3>1, <3>2
      <4>4. direction' = [direction EXCEPT ![p.trace][p.ack] =
              [direction[p.trace][p.ack] EXCEPT
                 !.transmitted = direction[p.trace][p.ack].transmitted \cup {p.fragment}, !.finish = g]]
        BY <4>2, <4>3, Zenon
      <4> QED BY <1>20, <3>1, <3>6, <4>4, Zenon
    <3>8. /\ r \in Directions /\ r.transmitted = T /\ r.finish = g
          /\ r.received = state.received /\ r.arrival = state.arrival
      BY <1>20, <3>3, <3>4, <3>6 DEF Directions
    <3>9. /\ direction' \in [Traces -> [BOOLEAN -> Directions]]
          /\ \A t \in Traces, ack \in BOOLEAN :
               direction'[t][ack] = IF t = p.trace /\ ack = p.ack THEN r ELSE direction[t][ack]
      BY <1>6, <1>9, <3>7, <3>8, DirectionUpdated
    <3> QED BY <2>3, <3>1, <3>2, <3>4, <3>5, <3>8, <3>9
  <2> QED BY <2>2, <2>3
<1>23. NetType'
  BY <1>5, <1>6, <1>7, <1>10, <1>12, <1>15, <1>22, FixedInput DEF NetType
<1>24. TimeInv'
  BY <1>5, <1>7, <1>10, <1>11, <1>14, <1>15 DEF TimeInv
<1>25. \A y \in PacketSet : Carried(y)' => Carried(y)
  BY <1>16, <1>18, <1>19 DEF Carried
<1>26. \A t \in Traces, ack \in BOOLEAN :
         /\ direction'[t][ack].arrival = direction[t][ack].arrival
         /\ direction'[t][ack].received = direction[t][ack].received
  BY <1>20, <1>22
<1>27. AckInv'
  <2>1. \A t \in Traces : direction'[t][TRUE].finish >= 0 =>
          direction[t][TRUE].finish >= 0 \/ Answerable(t, now')
    <3> TAKE t \in Traces
    <3>1. CASE t = p.trace /\ p.ack
      <4>1. Answerable(t, now)
        BY <1>8, <1>19, <3>1 DEF AckInv, Carried
      <4>2. PICK a \in Int : a = AckStart(t, direction[t][FALSE].arrival)
        <5>1. PICK z \in Int : z = direction[t][FALSE].arrival
          BY <1>6 DEF Directions
        <5>2. AckStart(t, z) \in Int
          BY <1>6, <5>1, TraceFacts
        <5> QED BY <5>1, <5>2
      <4>3. PICK v \in Nat, w \in Nat : v = now /\ w = now' /\ v <= w
        BY <1>6 DEF NetType
      <4>4. direction[t][FALSE].arrival >= 0 /\ v >= a
        BY <4>1, <4>2, <4>3 DEF Answerable
      <4>5. w >= a
        BY <4>3, <4>4
      <4> QED BY <4>2, <4>3, <4>4, <4>5 DEF Answerable
    <3>2. CASE ~(t = p.trace /\ p.ack)
      BY <1>9, <1>22, <3>2
    <3> QED BY <3>1, <3>2
  <2>2. ArrivalKept
    BY <1>26 DEF ArrivalKept
  <2>3. sends' \subseteq [at : Nat, trace : Traces, ack : BOOLEAN]
    BY <1>5 DEF NetType
  <2>4. \A s \in sends' : s \in sends /\ ~s.ack => direction'[s.trace][FALSE].arrival < 0
    BY <1>26, <2>3 DEF AckInv
  <2> QED BY <1>5, <1>6, <1>25, <2>1, <2>2, <2>3, <2>4, AckKept
<1>28. FlowInv'
  <2>1. Monotone
    BY <1>5, <1>20, <1>22, <1>26 DEF Monotone
  <2>2. \A t, ack : Sent(t, ack)' => Sent(t, ack)
    BY <1>5 DEF Sent
  <2>3. ASSUME NEW y \in PacketSet, NEW e \in Devices, Queued(e, y)
        PROVE  \/ Queued(e, y)'
               \/ /\ Flies(y)'
                  /\ \/ e[1] # Source(y.trace, y.ack)
                     \/ direction'[y.trace][y.ack].finish >= 0
                     \/ y.fragment \in direction'[y.trace][y.ack].transmitted
    BY <1>9, <1>17, <1>18, <1>22, <2>3
  <2>4. \A y \in PacketSet : Flies(y) => Carried(y)'
    BY <1>18 DEF Carried
  <2>5. ASSUME NEW t \in Traces, NEW ack \in BOOLEAN
        PROVE  Counts(t, ack)'
    <3>1. Counts(t, ack)
      BY DEF FlowInv
    <3>2. Fragments(t, ack)' = Fragments(t, ack)
      BY <1>5, FixedInput
    <3>3. CASE t = p.trace /\ ack = p.ack
      BY <1>20, <1>21, <1>22, <1>26, <3>1, <3>2, <3>3 DEF Counts
    <3>4. CASE ~(t = p.trace /\ ack = p.ack)
      <4>1. direction'[t][ack] = direction[t][ack]
        BY <1>22, <3>4
      <4> QED BY <3>1, <3>2, <4>1 DEF Counts
    <3> QED BY <3>3, <3>4
  <2>6. \A t \in Traces : direction'[t][FALSE].arrival >= 0 /\ IsSpecial(bench[t]) => t \in scheduled'
    BY <1>5, <1>26 DEF FlowInv
  <2> QED BY <1>5, <2>1, <2>2, <2>3, <2>4, <2>5, <2>6, FlowKept
<1>29. PaceInv'
  <2>1. Monotone
    BY <1>5, <1>20, <1>22, <1>26 DEF Monotone
  <2>2. ASSUME NEW f \in flight', f \notin flight, ~f.packet.ack
        PROVE  StartTime(f.packet.trace) < f.at
    <3>1. f = new /\ f.packet = p /\ ~p.ack /\ f.at = now' + link_delay_ns
      BY <1>4, <1>5, <1>10, <2>2
    <3>2. PICK a \in Nat, b \in Nat, c \in Nat : a = StartTime(p.trace) /\ b = now /\ c = now'
      BY <1>6, <1>9, TraceFacts DEF NetType
    <3>3. a <= b
      BY <1>8, <1>19, <3>1, <3>2 DEF PaceInv, Carried
    <3>4. b <= c /\ f.at = c + link_delay_ns
      BY <1>6, <3>1, <3>2
    <3>5. a < f.at
      BY <3>3, <3>4, Constants
    <3> QED BY <3>1, <3>2, <3>5
  <2>3. ASSUME NEW y \in PacketSet, Underway(y)'
        PROVE  Underway(y) \/ Left(y)'
    <3>1. \A t, ack : Source(t, ack)' = Source(t, ack)
      BY <1>5, FixedInput
    <3>2. CASE y = p /\ d[1] = Source(p.trace, p.ack)
      BY <1>9, <1>22, <3>2 DEF Left
    <3>3. CASE y = p /\ d[1] # Source(p.trace, p.ack)
      BY <1>19, <3>3 DEF Underway
    <3>4. CASE y # p
      BY <1>16, <1>18, <2>3, <3>1, <3>4 DEF Underway
    <3> QED BY <3>2, <3>3, <3>4
  <2>4. ASSUME NEW t \in Traces, NEW ack \in BOOLEAN
        PROVE  Paced(t, ack)'
    <3>1. Paced(t, ack)
      BY DEF PaceInv
    <3>2. CASE ~(t = p.trace /\ ack = p.ack)
      BY <1>5, <1>6, <1>22, <3>1, <3>2, PacedKept
    <3>3. CASE t = p.trace /\ ack = p.ack
      <4>1. /\ state.finish >= 0 \/ state.received \subseteq state.transmitted
            /\ state.arrival < 0 => state.finish <= now
            /\ state.arrival >= 0 => 0 <= state.finish /\ state.finish <= state.arrival
            /\ state.arrival >= 0 /\ ~ack => StartTime(t) < state.arrival
        BY <1>20, <3>1, <3>3 DEF Paced
      <4>2. /\ state.finish \in Int /\ state.arrival \in Int /\ now \in Nat
            /\ r.finish \in Int /\ r.arrival = state.arrival
        BY <1>20, <1>22 DEF Directions, NetType
      <4>3. r.finish >= 0 \/ r.received \subseteq r.transmitted
        BY <1>22, <4>1
      <4>4. state.finish >= 0 => r.finish = state.finish
        BY <1>22
      <4>5. r.finish = state.finish \/ r.finish = now'
        BY <1>22
      <4>6. r.arrival < 0 => r.finish <= now'
        BY <1>6, <4>1, <4>2, <4>5
      <4>7. r.arrival >= 0 => 0 <= r.finish /\ r.finish <= r.arrival
        BY <4>1, <4>2, <4>4
      <4>8. r.arrival >= 0 /\ ~ack => StartTime(t) < r.arrival
        BY <4>1, <4>2
      <4>9. direction'[t][ack] = r /\ StartTime(t)' = StartTime(t)
        BY <1>5, <1>22, <3>3, FixedInput
      <4> QED BY <4>3, <4>6, <4>7, <4>8, <4>9 DEF Paced
    <3> QED BY <3>2, <3>3
  <2> QED BY <1>5, <1>6, <1>25, <2>1, <2>2, <2>3, <2>4, PaceKept
<1> QED BY <1>23, <1>24, <1>27, <1>28, <1>29

-----------------------------------------------------------------------------
(* Forward and OnReceive.                                                  *)

LEMMA Singleton ==
  ASSUME NEW S, NEW x \in S
  PROVE  <<x>> \in Seq(S) /\ <<x>> # << >> /\ Len(<<x>>) = 1 /\ <<x>>[1] = x
OBVIOUS

LEMMA ForwardStep ==
  ASSUME Ns3Inv, NEW f \in flight, Forward(f)
  PROVE  NetType' /\ TimeInv' /\ AckInv' /\ FlowInv' /\ PaceInv'
<1> USE DEF Ns3Inv
<1>1. /\ f.at \in Nat /\ f.node \in NodeIds /\ f.packet \in PacketSet /\ bench \in Benches
      /\ now <= f.at
  BY DEF NetType, TimeInv
<1>2. PICK p \in PacketSet : p = f.packet
  BY <1>1
<1>3. p.trace \in Traces /\ p.ack \in BOOLEAN
  BY DEF PacketSet
<1>4. PICK target : target = Destination(p.trace, p.ack)
  OBVIOUS
<1>5. /\ IsNext(f.at) /\ f.node # target /\ now' = f.at /\ flight' = flight \ {f}
      /\ Enqueue(<<f.node, NextHop[f.node][target]>>, <<p>>)
      /\ UNCHANGED <<input, sends, direction, scheduled, status, delayInfo>>
  BY <1>2, <1>4 DEF Forward
<1>6. /\ status = "running" /\ Accepted
      /\ \A s \in sends : f.at <= s.at
      /\ \A g \in flight : f.at <= g.at
      /\ \A d \in Devices : queue[d] # << >> => f.at <= due[d]
  BY <1>5, EventTime
<1>7. PICK dev \in Devices : dev = <<f.node, NextHop[f.node][target]>>
  BY <1>1, <1>3, <1>4, <1>5, <1>6, Ends, FirstDevice
<1>8. PICK ps \in Seq(PacketSet) : ps = <<p>> /\ ps # << >> /\ Len(ps) = 1 /\ ps[1] = p
  BY Singleton
<1>9. /\ queue' \in [Devices -> Seq(PacketSet)] /\ due' \in [Devices -> Nat]
      /\ \A e \in Devices : queue'[e] # << >> =>
           (queue[e] # << >> /\ due'[e] = due[e]) \/ now' <= due'[e]
      /\ \A e \in Devices : \A y : Queued(e, y)' => Queued(e, y) \/ \E i \in 1..Len(ps) : ps[i] = y
      /\ \A e \in Devices : \A y : Queued(e, y) => Queued(e, y)' \/ y \in dropped'
      /\ \A i \in 1..Len(ps) : Queued(dev, ps[i])' \/ ps[i] \in dropped'
      /\ dropped \subseteq dropped'
  BY <1>1, <1>5, <1>7, <1>8, EnqueueFacts
<1>10. /\ \A e \in Devices : \A y : Queued(e, y)' => Queued(e, y) \/ y = p
       /\ Queued(dev, p)' \/ p \in dropped'
  BY <1>8, <1>9
<1>11. \A y : Flies(y)' => Flies(y)
  BY <1>5 DEF Flies
<1>12. \A y : Flies(y) => Flies(y)' \/ y = p
  BY <1>2, <1>5 DEF Flies
<1>13. Flies(p)
  BY <1>2 DEF Flies
<1>14. NetType'
  BY <1>1, <1>5, <1>6, <1>9, FixedInput DEF NetType
<1>15. TimeInv'
  BY <1>5, <1>6, <1>9 DEF TimeInv
<1>16. AckInv'
  <2>1. \A y \in PacketSet : Carried(y)' => Carried(y)
    BY <1>10, <1>11, <1>13 DEF Carried
  <2> QED BY <1>1, <1>5, <2>1, AckKept DEF ArrivalKept, NetType, AckInv
<1>17. FlowInv'
  <2>1. Monotone
    BY <1>5, <1>9 DEF Monotone
  <2>2. \A t, ack : Sent(t, ack)' => Sent(t, ack)
    BY <1>5 DEF Sent
  <2>3. \A y \in PacketSet : Flies(y) => Carried(y)' \/ y \in dropped'
    BY <1>10, <1>12 DEF Carried
  <2>4. \A t \in Traces, ack \in BOOLEAN : Counts(t, ack)'
    BY <1>5, FixedInput DEF FlowInv, Counts
  <2>5. \A t \in Traces : direction'[t][FALSE].arrival >= 0 /\ IsSpecial(bench[t]) => t \in scheduled'
    BY <1>5 DEF FlowInv
  <2> QED BY <1>5, <1>9, <2>1, <2>2, <2>3, <2>4, <2>5, FlowKept
<1>18. PaceInv'
  <2>1. Monotone
    BY <1>5, <1>9 DEF Monotone
  <2>2. \A y \in PacketSet : Carried(y)' => Carried(y)
    BY <1>10, <1>11, <1>13 DEF Carried
  <2>3. \A t, ack : Source(t, ack)' = Source(t, ack)
    BY <1>5, FixedInput
  <2>4. \A y \in PacketSet : Underway(y)' => Underway(y)
    BY <1>10, <1>11, <1>13, <2>3 DEF Underway
  <2>5. \A t \in Traces, ack \in BOOLEAN : Paced(t, ack)'
    BY <1>1, <1>5, PacedKept DEF PaceInv
  <2> QED BY <1>1, <1>5, <2>1, <2>2, <2>4, <2>5, PaceKept
<1> QED BY <1>14, <1>15, <1>16, <1>17, <1>18

LEMMA ReceiveStep ==
  ASSUME Ns3Inv, NEW f \in flight, OnReceive(f)
  PROVE  NetType' /\ TimeInv' /\ AckInv' /\ FlowInv' /\ PaceInv'
<1> USE DEF Ns3Inv
<1>1. /\ f.at \in Nat /\ f.packet \in PacketSet /\ bench \in Benches /\ now <= f.at
      /\ direction \in [Traces -> [BOOLEAN -> Directions]]
  BY DEF NetType, TimeInv
<1>2. PICK p \in PacketSet : p = f.packet
  BY <1>1
<1>3. PICK t \in Traces, ack \in BOOLEAN : t = p.trace /\ ack = p.ack
  BY DEF PacketSet
<1>4. PICK F \in Nat : F = Fragments(t, ack) /\ p.fragment \in 0..(F - 1) /\ p.fragment \in Nat
  BY <1>1, <1>3, TraceFacts DEF PacketSet
<1>5. PICK state \in Directions : state = direction[t][ack]
  BY <1>1
<1>6. PICK R : R = state.received \cup {p.fragment}
  OBVIOUS
<1>7. PICK complete \in BOOLEAN : complete <=> state.arrival < 0 /\ Cardinality(R) = F
  OBVIOUS
<1>8. /\ IsNext(f.at) /\ now' = f.at /\ flight' = flight \ {f}
      /\ UNCHANGED <<input, queue, due, dropped, status, delayInfo>>
  BY DEF OnReceive
<1>9. complete <=> direction[t][ack].arrival < 0 /\ AllReceived(p, direction[t][ack].received \cup {p.fragment})
  BY <1>3, <1>4, <1>5, <1>6, <1>7 DEF AllReceived
<1>10. IF complete THEN Completed(t, ack, now', sends) ELSE UNCHANGED <<sends, scheduled>>
  BY <1>2, <1>3, <1>9, Zenon DEF OnReceive
<1>11. PICK x : x = IF complete THEN now' ELSE state.arrival
  OBVIOUS
<1>12. PICK r : r = [state EXCEPT !.received = R, !.arrival = x]
  OBVIOUS
<1>13. direction' = IF ~(state.arrival < 0) THEN direction
                    ELSE [direction EXCEPT ![t][ack] = r]
  <2>1. direction' = IF ~(direction[p.trace][p.ack].arrival < 0) THEN direction
          ELSE [direction EXCEPT ![p.trace][p.ack] =
                  [direction[p.trace][p.ack] EXCEPT
                     !.received = direction[p.trace][p.ack].received \cup {p.fragment},
                     !.arrival = IF /\ direction[p.trace][p.ack].arrival < 0
                                    /\ AllReceived(p, direction[p.trace][p.ack].received \cup {p.fragment})
                                 THEN now' ELSE direction[p.trace][p.ack].arrival]]
    BY <1>2, Zenon DEF OnReceive
  <2>2. x = IF /\ direction[p.trace][p.ack].arrival < 0
               /\ AllReceived(p, direction[p.trace][p.ack].received \cup {p.fragment})
            THEN now' ELSE direction[p.trace][p.ack].arrival
    BY <1>3, <1>5, <1>9, <1>11
  <2>3. direction' = IF ~(direction[p.trace][p.ack].arrival < 0) THEN direction
          ELSE [direction EXCEPT ![p.trace][p.ack] =
                  [direction[p.trace][p.ack] EXCEPT
                     !.received = direction[p.trace][p.ack].received \cup {p.fragment},
                     !.arrival = x]]
    BY <2>1, <2>2, Zenon
  <2> QED BY <1>3, <1>5, <1>6, <1>12, <2>3, Zenon
<1>14. /\ status = "running" /\ Accepted
       /\ \A s \in sends : f.at <= s.at
       /\ \A g \in flight : f.at <= g.at
       /\ \A d \in Devices : queue[d] # << >> => f.at <= due[d]
  BY <1>8, EventTime
<1>15. /\ state.received \subseteq 0..(F - 1) /\ state.arrival \in Int
       /\ state.received = 0..(F - 1) => state.arrival >= 0
       /\ state.transmitted \subseteq 0..(F - 1)
       /\ state.transmitted = 0..(F - 1) => state.finish >= 0
  <2>1. Counts(t, ack)
    BY DEF FlowInv
  <2> QED BY <1>4, <1>5, <2>1 DEF Counts, Directions
<1>16. R \subseteq 0..(F - 1) /\ R \in SUBSET Nat /\ (Cardinality(R) = F \/ R # 0..(F - 1))
  <2>1. R \subseteq 0..(F - 1)
    BY <1>4, <1>6, <1>15
  <2> QED BY <2>1, FullSet
\* The direction of the packet afterwards.
<1>17. PICK w \in Directions :
         /\ \A u \in Traces, a \in BOOLEAN :
              direction'[u][a] = IF u = t /\ a = ack THEN w ELSE direction[u][a]
         /\ direction' \in [Traces -> [BOOLEAN -> Directions]]
         /\ w.transmitted = state.transmitted /\ w.finish = state.finish
         /\ state.received \subseteq w.received /\ w.received \subseteq 0..(F - 1)
         /\ w.received = 0..(F - 1) => w.arrival >= 0
         /\ w.arrival >= 0 \/ p.fragment \in w.received
         /\ state.arrival >= 0 => w.arrival = state.arrival
         /\ complete => w.arrival = now'
         /\ ~complete => w.arrival = state.arrival
         /\ w.received \subseteq R
  <2>1. CASE ~(state.arrival < 0)
    <3>1. direction' = direction /\ ~complete /\ state.arrival >= 0
      BY <1>7, <1>13, <1>15, <2>1
    <3> QED BY <1>1, <1>5, <1>6, <1>15, <3>1
  <2>2. CASE state.arrival < 0
    <3>1. x \in Int
      BY <1>1, <1>8, <1>11, <1>15
    <3>2. /\ r \in Directions /\ r.received = R /\ r.arrival = x
          /\ r.transmitted = state.transmitted /\ r.finish = state.finish
      BY <1>12, <1>16, <3>1 DEF Directions
    <3>3. /\ direction' \in [Traces -> [BOOLEAN -> Directions]]
          /\ \A u \in Traces, a \in BOOLEAN :
               direction'[u][a] = IF u = t /\ a = ack THEN r ELSE direction[u][a]
      BY <1>1, <1>13, <2>2, <3>2, DirectionUpdated
    <3>4. R = 0..(F - 1) => x >= 0
      BY <1>1, <1>7, <1>8, <1>11, <1>16, <2>2
    <3>5. p.fragment \in R /\ state.received \subseteq R
      BY <1>6
    <3>6. complete => x = now'
      BY <1>11
    <3>7. ~complete => x = state.arrival
      BY <1>11
    <3>8. ~(state.arrival >= 0)
      BY <1>15, <2>2
    <3> QED BY <1>16, <3>2, <3>3, <3>4, <3>5, <3>6, <3>7, <3>8
  <2> QED BY <1>15, <2>1, <2>2
\* The answer that may be scheduled.
<1>18. /\ sends' \subseteq [at : Nat, trace : Traces, ack : BOOLEAN]
       /\ sends \subseteq sends'
       /\ \A s \in sends' :
            \/ s \in sends
            \/ /\ complete /\ s.ack /\ s.trace = t /\ ~ack
               /\ s.at >= now' /\ s.at >= AckStart(t, now')
       /\ scheduled \subseteq scheduled'
       /\ \A u \in scheduled' : u \in scheduled \/ (u = t /\ \E s \in sends' : s.trace = t /\ s.ack)
       /\ complete /\ ~ack /\ IsSpecial(bench[t]) => t \in scheduled'
  <2>1. CASE complete
    <3>1. PICK y \in Nat : y = now'
      BY <1>1, <1>8
    <3>2. Completed(t, ack, y, sends)
      BY <1>10, <2>1, <3>1
    <3> QED BY <1>1, <1>8, <2>1, <3>1, <3>2, CompletedFacts
  <2>2. CASE ~complete
    BY <1>10, <2>2 DEF NetType
  <2> QED BY <2>1, <2>2
<1>19. \A y : Flies(y)' => Flies(y)
  BY <1>8 DEF Flies
<1>20. \A y : Flies(y) => Flies(y)' \/ y = p
  BY <1>2, <1>8 DEF Flies
<1>21. \A d \in Devices : \A y : Queued(d, y)' <=> Queued(d, y)
  BY <1>8 DEF Queued
<1>22. Carried(p)
  BY <1>2 DEF Flies, Carried
<1>23. NetType'
  BY <1>1, <1>8, <1>14, <1>17, <1>18, FixedInput DEF NetType
<1>24. TimeInv'
  BY <1>8, <1>14, <1>18 DEF TimeInv
<1>25. AckInv'
  <2>1. ArrivalKept
    BY <1>5, <1>17 DEF ArrivalKept
  <2>2. ASSUME NEW s \in sends', s \notin sends
        PROVE  s.ack /\ Answerable(s.trace, s.at)'
    <3>1. complete /\ s.ack /\ s.trace = t /\ ack = FALSE /\ s.at >= AckStart(t, now')
      BY <1>18, <2>2
    <3>2. direction'[t][FALSE].arrival = now' /\ now' >= 0
      <4>1. direction'[t][FALSE] = w
        BY <1>17, <3>1
      <4>2. w.arrival = now'
        BY <1>17, <3>1
      <4>3. now' >= 0
        BY <1>1, <1>8
      <4> QED BY <4>1, <4>2, <4>3
    <3>3. \A y : AckStart(t, y)' = AckStart(t, y)
      BY <1>8, FixedInput
    <3>4. direction'[s.trace][FALSE].arrival = now'
      BY <3>1, <3>2
    <3> QED BY <3>1, <3>2, <3>3, <3>4 DEF Answerable
  <2>3. ASSUME NEW s \in sends', s \in sends, ~s.ack
        PROVE  direction'[s.trace][FALSE].arrival < 0
    <3>1. s.trace \in Traces /\ direction[s.trace][FALSE].arrival < 0
      BY <2>3 DEF NetType, AckInv
    <3>2. ~(s.trace = t /\ ack = FALSE)
      BY <1>3, <1>22, <2>3 DEF AckInv
    <3> QED BY <1>17, <3>1, <3>2
  <2>4. \A y \in PacketSet : Carried(y)' => Carried(y)
    BY <1>19, <1>21 DEF Carried
  <2>5. \A u \in Traces : direction'[u][TRUE].finish = direction[u][TRUE].finish
    BY <1>5, <1>17
  <2> QED BY <1>1, <1>8, <1>18, <2>1, <2>2, <2>3, <2>4, <2>5, AckKept
<1>26. FlowInv'
  <2>1. Monotone
    <3>1. \A u \in Traces, a \in BOOLEAN :
            /\ direction[u][a].finish >= 0 => direction'[u][a].finish >= 0
            /\ direction[u][a].arrival >= 0 => direction'[u][a].arrival >= 0
            /\ direction[u][a].transmitted \subseteq direction'[u][a].transmitted
            /\ direction[u][a].received \subseteq direction'[u][a].received
      BY <1>5, <1>17
    <3> QED BY <1>8, <3>1 DEF Monotone
  <2>2. \A u \in Traces, a \in BOOLEAN : Sent(u, a)' => Sent(u, a)
    BY <1>8, <1>18 DEF Sent
  <2>3. \A y \in PacketSet : Flies(y) =>
          \/ Carried(y)' \/ direction'[y.trace][y.ack].arrival >= 0
          \/ y.fragment \in direction'[y.trace][y.ack].received
    BY <1>3, <1>17, <1>20 DEF Carried
  <2>4. ASSUME NEW u \in Traces, NEW a \in BOOLEAN
        PROVE  Counts(u, a)'
    <3>1. Fragments(u, a)' = Fragments(u, a)
      BY <1>8, FixedInput
    <3>2. CASE u = t /\ a = ack
      BY <1>4, <1>15, <1>17, <3>1, <3>2 DEF Counts
    <3>3. CASE ~(u = t /\ a = ack)
      <4>1. direction'[u][a] = direction[u][a] /\ Counts(u, a)
        BY <1>17, <3>3 DEF FlowInv
      <4> QED BY <3>1, <4>1 DEF Counts
    <3> QED BY <3>2, <3>3
  <2>5. \A u \in Traces : direction'[u][FALSE].arrival >= 0 /\ IsSpecial(bench[u]) => u \in scheduled'
    BY <1>5, <1>17, <1>18 DEF FlowInv
  <2>6. \A y \in PacketSet : y.trace \in Traces /\ y.ack \in BOOLEAN
    BY DEF PacketSet
  <2> QED BY <1>8, <1>21, <2>1, <2>2, <2>3, <2>4, <2>5, <2>6, FlowKept
<1>27. PaceInv'
  <2>1. Monotone
    <3>1. \A u \in Traces, a \in BOOLEAN :
            /\ direction[u][a].finish >= 0 => direction'[u][a].finish >= 0
            /\ direction[u][a].arrival >= 0 => direction'[u][a].arrival >= 0
            /\ direction[u][a].transmitted \subseteq direction'[u][a].transmitted
            /\ direction[u][a].received \subseteq direction'[u][a].received
      BY <1>5, <1>17
    <3> QED BY <1>8, <3>1 DEF Monotone
  <2>2. \A y \in PacketSet : Carried(y)' => Carried(y)
    BY <1>19, <1>21 DEF Carried
  <2>3. \A u, a : Source(u, a)' = Source(u, a)
    BY <1>8, FixedInput
  <2>4. \A y \in PacketSet : Underway(y)' => Underway(y)
    BY <1>19, <1>21, <2>3 DEF Underway
  <2>5. now' \in Nat /\ now <= now' /\ flight' \subseteq flight
    BY <1>1, <1>8
  <2>6. ASSUME NEW u \in Traces, NEW a \in BOOLEAN
        PROVE  Paced(u, a)'
    <3>1. Paced(u, a)
      BY DEF PaceInv
    <3>2. CASE ~(u = t /\ a = ack)
      BY <1>8, <1>17, <2>5, <3>1, <3>2, PacedKept
    <3>3. CASE u = t /\ a = ack
      <4>1. /\ state.finish >= 0 \/ state.received \subseteq state.transmitted
            /\ state.arrival < 0 => state.finish <= now
            /\ state.arrival >= 0 => 0 <= state.finish /\ state.finish <= state.arrival
            /\ state.arrival >= 0 /\ ~ack => StartTime(t) < state.arrival
        BY <1>5, <3>1, <3>3 DEF Paced
      <4>2. /\ state.finish \in Int /\ state.arrival \in Int /\ now \in Nat
            /\ w.finish = state.finish /\ w.arrival \in Int
        BY <1>5, <1>17 DEF Directions, NetType
      <4>3. state.finish >= 0 \/ R \subseteq state.transmitted
        <5>1. Left(p)
          BY <1>2 DEF PaceInv, Underway, Flies
        <5>2. state.finish >= 0 \/ p.fragment \in state.transmitted
          BY <1>3, <1>5, <5>1 DEF Left
        <5> QED BY <1>6, <4>1, <5>2
      <4>4. w.finish >= 0 \/ w.received \subseteq w.transmitted
        BY <1>17, <4>3
      <4>5. StartTime(t)' = StartTime(t) /\ direction'[u][a] = w
        BY <1>8, <1>17, <3>3, FixedInput
      <4>6. CASE ~complete
        <5>1. w.arrival = state.arrival
          BY <1>17, <4>6
        <5>2. w.arrival < 0 => w.finish <= now'
          BY <2>5, <4>1, <4>2, <5>1
        <5>3. w.arrival >= 0 => 0 <= w.finish /\ w.finish <= w.arrival
          BY <4>1, <4>2, <5>1
        <5>4. w.arrival >= 0 /\ ~ack => StartTime(t) < w.arrival
          BY <4>1, <4>2, <5>1
        <5> QED BY <3>3, <4>4, <4>5, <5>2, <5>3, <5>4 DEF Paced
      <4>7. CASE complete
        <5>1. w.arrival = now' /\ state.arrival < 0 /\ Cardinality(R) = F
          BY <1>7, <1>17, <4>7
        <5>2. R = 0..(F - 1)
          BY <1>4, <1>16, <5>1, FullSet
        <5>3. state.finish >= 0
          BY <1>15, <4>3, <5>2
        <5>4. ~(w.arrival < 0) /\ 0 <= w.finish /\ w.finish <= w.arrival
          BY <2>5, <4>1, <4>2, <5>1, <5>3
        <5>5. ~ack => StartTime(t) < w.arrival
          BY <1>2, <1>3, <1>8, <5>1 DEF PaceInv
        <5> QED BY <3>3, <4>4, <4>5, <5>4, <5>5 DEF Paced
      <4> QED BY <4>6, <4>7
    <3> QED BY <3>2, <3>3
  <2> QED BY <1>8, <2>1, <2>2, <2>4, <2>5, <2>6, PaceKept
<1> QED BY <1>23, <1>24, <1>25, <1>26, <1>27

-----------------------------------------------------------------------------
(* SendLocal.                                                              *)

\* A direction that is sent and received at time x.
EndsAt(state, x) == [state EXCEPT !.finish = x, !.arrival = x]

LEMMA EndsSet ==
  ASSUME NEW state \in Directions, NEW x \in Nat, NEW r, r = EndsAt(state, x)
  PROVE  /\ r \in Directions /\ r.finish = x /\ r.arrival = x
         /\ r.transmitted = state.transmitted /\ r.received = state.received
<1>1. x \in Int
  OBVIOUS
<1> QED BY <1>1 DEF Directions, EndsAt

LEMMA LocalStep ==
  ASSUME Ns3Inv, NEW s \in sends, SendLocal(s)
  PROVE  NetType' /\ TimeInv' /\ AckInv' /\ FlowInv' /\ PaceInv'
<1> USE DEF Ns3Inv
<1>1. /\ s.at \in Nat /\ s.trace \in Traces /\ s.ack \in BOOLEAN /\ bench \in Benches
      /\ now <= s.at /\ direction \in [Traces -> [BOOLEAN -> Directions]]
  BY DEF NetType, TimeInv
<1>2. PICK t \in Traces, ack \in BOOLEAN : t = s.trace /\ ack = s.ack
  BY <1>1
<1>3. PICK x \in Nat : x = s.at + cycle_ns
  BY <1>1, Constants
<1>4. PICK state \in Directions : state = direction[t][ack]
  BY <1>1
<1>5. PICK r : r = EndsAt(state, x)
  OBVIOUS
<1>6. PICK others : others = sends \ {s}
  OBVIOUS
<1>7. /\ IsNext(s.at) /\ IsLocal(t, ack) /\ now' = s.at
      /\ direction' = [direction EXCEPT ![t][ack] = r]
      /\ Completed(t, ack, x, others)
      /\ UNCHANGED <<input, network, status, delayInfo>>
  BY <1>2, <1>3, <1>4, <1>5, <1>6, Zenon DEF SendLocal, EndsAt
<1>8. /\ r \in Directions /\ r.finish = x /\ r.arrival = x
      /\ r.transmitted = state.transmitted /\ r.received = state.received
  BY <1>5, EndsSet
<1>9. /\ direction' \in [Traces -> [BOOLEAN -> Directions]]
      /\ \A u \in Traces, a \in BOOLEAN :
           direction'[u][a] = IF u = t /\ a = ack THEN r ELSE direction[u][a]
  BY <1>1, <1>7, <1>8, DirectionUpdated
<1>10. /\ status = "running" /\ Accepted
       /\ \A u \in sends : s.at <= u.at
       /\ \A f \in flight : s.at <= f.at
       /\ \A d \in Devices : queue[d] # << >> => s.at <= due[d]
  BY <1>7, EventTime
<1>11. /\ sends' \subseteq [at : Nat, trace : Traces, ack : BOOLEAN]
       /\ others \subseteq sends'
       /\ \A u \in sends' :
            \/ u \in others
            \/ /\ u.ack /\ u.trace = t /\ ~ack
               /\ u.at >= now' /\ u.at >= AckStart(t, x)
       /\ scheduled \subseteq scheduled'
       /\ \A u \in scheduled' : u \in scheduled \/ (u = t /\ \E v \in sends' : v.trace = t /\ v.ack)
       /\ ~ack /\ IsSpecial(bench[t]) => t \in scheduled'
  <2>1. others \subseteq sends /\ now' \in Nat
    BY <1>1, <1>6, <1>7
  <2> QED BY <1>7, <2>1, CompletedFacts
<1>12. queue' = queue /\ due' = due /\ flight' = flight /\ dropped' = dropped /\ status' = status
  BY <1>7 DEF network
<1>13. \A y : /\ Flies(y)' <=> Flies(y)
              /\ \A d \in Devices : Queued(d, y)' <=> Queued(d, y)
  BY <1>12 DEF Flies, Queued
<1>14. \A y : Carried(y)' <=> Carried(y)
  BY <1>13 DEF Carried
<1>15. NetType'
  BY <1>1, <1>7, <1>9, <1>10, <1>11, <1>12, FixedInput DEF NetType
<1>16. TimeInv'
  BY <1>6, <1>7, <1>10, <1>11, <1>12 DEF TimeInv
<1>17. AckInv'
  <2>1. ArrivalKept
    <3>1. ~ack => direction[t][FALSE].arrival < 0
      BY <1>2 DEF AckInv
    <3>2. \A u \in Traces : ~(u = t /\ ~ack) => direction'[u][FALSE] = direction[u][FALSE]
      BY <1>9
    <3>3. \A u \in Traces : direction[u][FALSE].arrival \in Int
      BY <1>1 DEF Directions
    <3>4. ASSUME NEW u \in Traces, direction[u][FALSE].arrival >= 0
          PROVE  direction'[u][FALSE].arrival = direction[u][FALSE].arrival
      <4>1. ~(u = t /\ ~ack)
        <5>1. PICK y \in Int : y = direction[u][FALSE].arrival
          BY <3>3
        <5>2. ~(y < 0)
          <6>1. y >= 0
            BY <3>4, <5>1, Zenon
          <6> QED BY <6>1
        <5> QED BY <3>1, <5>1, <5>2, Zenon
      <4> QED BY <3>2, <4>1
    <3> QED BY <3>4 DEF ArrivalKept
  <2>2. ASSUME NEW u \in sends', u \notin sends
        PROVE  u.ack /\ Answerable(u.trace, u.at)'
    <3>1. u.ack /\ u.trace = t /\ ack = FALSE /\ u.at >= AckStart(t, x)
      BY <1>6, <1>11, <2>2
    <3>2. direction'[t][FALSE] = r
      BY <1>9, <3>1
    <3>3. direction'[u.trace][FALSE].arrival = x /\ x >= 0
      BY <1>8, <3>1, <3>2
    <3>4. \A y : AckStart(t, y)' = AckStart(t, y)
      BY <1>7, FixedInput
    <3> QED BY <3>1, <3>3, <3>4 DEF Answerable
  <2>3. ASSUME NEW u \in sends', u \in sends, ~u.ack
        PROVE  direction'[u.trace][FALSE].arrival < 0
    <3>1. u.trace \in Traces /\ direction[u.trace][FALSE].arrival < 0 /\ u # s
      BY <1>6, <1>11, <2>3 DEF NetType, AckInv
    <3>2. ~(u.trace = t /\ ack = FALSE)
      BY <1>2, <2>3, <3>1, OneRequest
    <3> QED BY <1>9, <3>1, <3>2
  <2>4. ASSUME NEW u \in Traces, direction'[u][TRUE].finish >= 0
        PROVE  direction[u][TRUE].finish >= 0 \/ Answerable(u, now')
    <3>1. CASE u = t /\ ack = TRUE
      BY <1>2, <1>7, <3>1 DEF AckInv
    <3>2. CASE ~(u = t /\ ack = TRUE)
      BY <1>9, <2>4, <3>2
    <3> QED BY <3>1, <3>2
  <2>5. now' \in Nat /\ now <= now'
    BY <1>1, <1>7
  <2> QED BY <1>7, <1>11, <1>14, <2>1, <2>2, <2>3, <2>4, <2>5, AckKept
<1>18. FlowInv'
  <2>1. Monotone
    <3>1. \A u \in Traces, a \in BOOLEAN :
            /\ direction[u][a].finish >= 0 => direction'[u][a].finish >= 0
            /\ direction[u][a].arrival >= 0 => direction'[u][a].arrival >= 0
            /\ direction[u][a].transmitted \subseteq direction'[u][a].transmitted
            /\ direction[u][a].received \subseteq direction'[u][a].received
      BY <1>4, <1>8, <1>9
    <3> QED BY <1>12, <3>1 DEF Monotone
  <2>2. ASSUME NEW u \in Traces, NEW a \in BOOLEAN, Sent(u, a)', ~Sent(u, a)
        PROVE  u = t /\ a = ack
    <3>1. CASE \E v \in sends : v.trace = u /\ v.ack = a
      <4>1. PICK v \in sends : v.trace = u /\ v.ack = a
        BY <3>1
      <4>2. v \notin others
        BY <1>11, <2>2, <4>1 DEF Sent
      <4> QED BY <1>2, <1>6, <4>1, <4>2
    <3>2. CASE a /\ u \notin scheduled
      <4>1. \E v \in sends' : v.trace = u /\ v.ack
        BY <1>11, <2>2, <3>2 DEF Sent
      <4>2. PICK v \in sends' : v.trace = u /\ v.ack
        BY <4>1
      <4>3. v.ack = a
        BY <1>11, <3>2, <4>2
      <4> QED BY <2>2, <4>2, <4>3 DEF Sent
    <3> QED BY <1>10, <2>2, <3>1, <3>2 DEF Sent
  <2>3. IsComplete(t, ack)'
    BY <1>8, <1>9 DEF IsComplete
  <2>4. \A y \in PacketSet : y.trace \in Traces /\ y.ack \in BOOLEAN
    BY DEF PacketSet
  <2>5. ASSUME NEW u \in Traces, NEW a \in BOOLEAN
        PROVE  Counts(u, a)'
    <3>1. Fragments(u, a)' = Fragments(u, a) /\ Counts(u, a)
      BY <1>7, FixedInput DEF FlowInv
    <3>2. CASE u = t /\ a = ack
      BY <1>4, <1>8, <1>9, <3>1, <3>2 DEF Counts
    <3>3. CASE ~(u = t /\ a = ack)
      <4>1. direction'[u][a] = direction[u][a]
        BY <1>9, <3>3
      <4> QED BY <3>1, <4>1 DEF Counts
    <3> QED BY <3>2, <3>3
  <2>6. \A u \in Traces : direction'[u][FALSE].arrival >= 0 /\ IsSpecial(bench[u]) => u \in scheduled'
    BY <1>9, <1>11 DEF FlowInv
  <2>7. \A u \in Traces, a \in BOOLEAN :
          Sent(u, a)' /\ ~Sent(u, a) /\ IsLocal(u, a) => IsComplete(u, a)'
    BY <2>2, <2>3
  <2>8. \A y \in PacketSet :
          ~(Sent(y.trace, y.ack)' /\ ~Sent(y.trace, y.ack) /\ ~IsLocal(y.trace, y.ack))
    BY <1>7, <2>2, <2>4
  <2>9. \A y \in PacketSet : \A d \in Devices : Queued(d, y) => Queued(d, y)'
    BY <1>13
  <2>10. \A y \in PacketSet : Flies(y) => Carried(y)'
    BY <1>13 DEF Carried
  <2> QED BY <1>7, <2>1, <2>5, <2>6, <2>7, <2>8, <2>9, <2>10, FlowKept
<1>19. PaceInv'
  <2>1. Monotone
    <3>1. \A u \in Traces, a \in BOOLEAN :
            /\ direction[u][a].finish >= 0 => direction'[u][a].finish >= 0
            /\ direction[u][a].arrival >= 0 => direction'[u][a].arrival >= 0
            /\ direction[u][a].transmitted \subseteq direction'[u][a].transmitted
            /\ direction[u][a].received \subseteq direction'[u][a].received
      BY <1>4, <1>8, <1>9
    <3> QED BY <1>12, <3>1 DEF Monotone
  <2>2. \A u, a : Source(u, a)' = Source(u, a)
    BY <1>7, FixedInput
  <2>3. \A y \in PacketSet : Underway(y)' => Underway(y)
    BY <1>13, <2>2 DEF Underway
  <2>4. now' \in Nat /\ now <= now'
    BY <1>1, <1>7
  <2>5. ASSUME NEW u \in Traces, NEW a \in BOOLEAN
        PROVE  Paced(u, a)'
    <3>1. Paced(u, a)
      BY DEF PaceInv
    <3>2. CASE ~(u = t /\ a = ack)
      BY <1>7, <1>9, <2>4, <3>1, <3>2, PacedKept
    <3>3. CASE u = t /\ a = ack
      <4>1. direction'[u][a] = r /\ StartTime(t)' = StartTime(t)
        BY <1>7, <1>9, <3>3, FixedInput
      <4>2. r.finish >= 0 /\ ~(r.arrival < 0) /\ 0 <= r.finish /\ r.finish <= r.arrival
        BY <1>8
      <4>3. ~ack => StartTime(t) < r.arrival
        <5>1. ~ack => s.at = StartTime(t)
          BY <1>2 DEF AckInv
        <5>2. s.at < x
          BY <1>1, <1>3, Constants
        <5> QED BY <1>8, <5>1, <5>2
      <4> QED BY <3>3, <4>1, <4>2, <4>3 DEF Paced
    <3> QED BY <3>2, <3>3
  <2> QED BY <1>7, <1>12, <1>14, <2>1, <2>3, <2>4, <2>5, PaceKept
<1> QED BY <1>15, <1>16, <1>17, <1>18, <1>19

-----------------------------------------------------------------------------
(* The steps that leave the network alone.                                 *)

\* Nothing has been counted.
LEMMA NothingCounted ==
  ASSUME bench \in Benches, NEW t \in Traces, NEW ack \in BOOLEAN, direction[t][ack] = NoDirection
  PROVE  Counts(t, ack)
<1>1. PICK F \in Nat \ {0} : F = Fragments(t, ack)
  BY TraceFacts
<1>2. 0 \in 0..(F - 1)
  OBVIOUS
<1>3. direction[t][ack].transmitted = {} /\ direction[t][ack].received = {}
  BY DEF NoDirection
<1> QED BY <1>1, <1>2, <1>3 DEF Counts

LEMMA InitStep ==
  ASSUME Init
  PROVE  Ns3Inv
<1>1. /\ bench \in Benches /\ now = 0 /\ sends = {} /\ flight = {} /\ scheduled = {}
      /\ status = "reading"
      /\ queue = [d \in Devices |-> << >>] /\ due = [d \in Devices |-> 0]
  BY DEF Init
<1>2. direction = [t \in Traces |-> [ack \in BOOLEAN |-> NoDirection]]
  BY DEF Init, Traces
<1>3. NoDirection \in Directions /\ NoDirection.finish = -1 /\ NoDirection.arrival = -1
  BY DEF NoDirection, Directions
<1>4. << >> \in Seq(PacketSet)
  OBVIOUS
<1>5. queue \in [Devices -> Seq(PacketSet)] /\ due \in [Devices -> Nat]
  BY <1>1, <1>4
<1>6. \A t \in Traces, ack \in BOOLEAN : direction[t][ack] = NoDirection
  BY <1>2
<1>7. NetType
  BY <1>1, <1>2, <1>3, <1>5 DEF NetType
<1>8. TimeInv
  BY <1>1 DEF TimeInv
<1>9. \A p : ~Carried(p)
  BY <1>1 DEF Carried, Flies, Queued
<1>10. \A t \in Traces, ack \in BOOLEAN :
         ~(direction[t][ack].finish >= 0) /\ ~(direction[t][ack].arrival >= 0)
  BY <1>3, <1>6
<1>11. AckInv
  BY <1>1, <1>9, <1>10 DEF AckInv
<1>12. \A t \in Traces, ack \in BOOLEAN : Counts(t, ack)
  BY <1>1, <1>6, NothingCounted
<1>13. \A t, ack : ~Sent(t, ack)
  BY <1>1 DEF Sent
<1>14. FlowInv
  BY <1>10, <1>12, <1>13 DEF FlowInv
<1>15. FailureExplained
  BY <1>1 DEF FailureExplained
<1>16. \A t \in Traces, ack \in BOOLEAN : Paced(t, ack)
  <2>1. NoDirection.received = {} /\ NoDirection.transmitted = {} /\ -1 <= now
    BY <1>1 DEF NoDirection
  <2> QED BY <1>3, <1>6, <1>10, <2>1 DEF Paced
<1>17. PaceInv
  <2>1. \A p : ~Underway(p)
    BY <1>9 DEF Underway, Carried
  <2> QED BY <1>1, <1>9, <1>16, <2>1 DEF PaceInv
<1> QED BY <1>7, <1>8, <1>11, <1>14, <1>15, <1>17 DEF Ns3Inv

LEMMA ScheduleStep ==
  ASSUME Ns3Inv, Schedule
  PROVE  NetType' /\ TimeInv' /\ AckInv' /\ FlowInv' /\ PaceInv'
<1> USE DEF Ns3Inv
<1>1. /\ status = "reading" /\ Accepted /\ status' = "running"
      /\ sends' = {[at |-> StartTime(t), trace |-> t, ack |-> FALSE] : t \in Traces}
      /\ UNCHANGED <<input, now, network, direction, scheduled, delayInfo>>
  BY DEF Schedule
<1>2. queue' = queue /\ due' = due /\ flight' = flight /\ dropped' = dropped
  BY <1>1 DEF network
<1>3. /\ now = 0 /\ flight = {} /\ scheduled = {} /\ bench \in Benches
      /\ \A d \in Devices : queue[d] = << >>
      /\ direction = [t \in Traces |-> [ack \in BOOLEAN |-> NoDirection]]
  BY <1>1 DEF NetType
<1>4. \A t \in Traces : StartTime(t) \in Nat
  BY <1>3, TraceFacts
<1>5. /\ sends' \subseteq [at : Nat, trace : Traces, ack : BOOLEAN]
      /\ \A s \in sends' : s.trace \in Traces /\ s.ack = FALSE /\ s.at = StartTime(s.trace)
      /\ \A t \in Traces : \E s \in sends' : s.trace = t /\ s.ack = FALSE
  <2> DEFINE new(t) == [at |-> StartTime(t), trace |-> t, ack |-> FALSE]
  <2>1. \A t \in Traces : /\ new(t) \in [at : Nat, trace : Traces, ack : BOOLEAN]
                          /\ new(t).trace = t /\ new(t).ack = FALSE /\ new(t).at = StartTime(t)
    BY <1>4
  <2>2. \A s : s \in sends' <=> \E t \in Traces : s = new(t)
    BY <1>1
  <2> HIDE DEF new
  <2> QED BY <2>1, <2>2
<1>6. /\ Traces' = Traces /\ PacketSet' = PacketSet /\ \A t : StartTime(t)' = StartTime(t)
      /\ bench' = bench /\ Accepted'
  BY <1>1, FixedInput
<1>7. NetType'
  BY <1>1, <1>2, <1>5, <1>6 DEF NetType
<1>8. TimeInv'
  BY <1>1, <1>2, <1>3, <1>4, <1>5 DEF TimeInv
<1>9. \A p : ~Carried(p)'
  BY <1>2, <1>3 DEF Carried, Flies, Queued
<1>10. NoDirection.finish = -1 /\ NoDirection.arrival = -1
  BY DEF NoDirection
<1>11. \A t \in Traces, ack \in BOOLEAN : direction'[t][ack] = NoDirection
  BY <1>1, <1>3
<1>12. \A t \in Traces, ack \in BOOLEAN :
         direction'[t][ack].finish < 0 /\ direction'[t][ack].arrival < 0
  BY <1>10, <1>11
<1>13. \A t \in Traces, ack \in BOOLEAN :
         ~(direction'[t][ack].finish >= 0) /\ ~(direction'[t][ack].arrival >= 0)
  BY <1>10, <1>11
<1>14. AckInv'
  BY <1>5, <1>6, <1>9, <1>12, <1>13 DEF AckInv
<1>15. \A t \in Traces, ack \in BOOLEAN : Counts(t, ack)'
  <2>1. \A t \in Traces, ack \in BOOLEAN : Counts(t, ack)
    BY DEF FlowInv
  <2>2. \A t, ack : Fragments(t, ack)' = Fragments(t, ack)
    BY <1>1, FixedInput
  <2> QED BY <1>1, <2>1, <2>2 DEF Counts
<1>16. \A t \in Traces, ack \in BOOLEAN : ~Sent(t, ack)'
  <2> TAKE t \in Traces, ack \in BOOLEAN
  <2>1. CASE ack
    BY <1>1, <1>3, <2>1 DEF Sent
  <2>2. CASE ack = FALSE
    BY <1>5, <2>2 DEF Sent
  <2> QED BY <2>1, <2>2
<1>17. \A p \in PacketSet : p.trace \in Traces /\ p.ack \in BOOLEAN
  BY DEF PacketSet
<1>18. FlowInv'
  BY <1>6, <1>13, <1>15, <1>16, <1>17 DEF FlowInv
<1>19. PaceInv'
  <2>1. Monotone
    BY <1>1, <1>2 DEF Monotone
  <2>2. \A t \in Traces, ack \in BOOLEAN : Paced(t, ack)'
    BY <1>1, <1>3, PacedKept DEF PaceInv
  <2>3. \A p : ~Underway(p)'
    BY <1>9 DEF Underway, Carried
  <2> QED BY <1>1, <1>2, <1>3, <1>9, <2>1, <2>2, <2>3, PaceKept
<1> QED BY <1>7, <1>8, <1>14, <1>18, <1>19

LEMMA QuietStep ==
  ASSUME Ns3Inv, UNCHANGED <<input, now, sends, network, direction, scheduled>>,
         status' = status \/ status' = "failed" \/ (status = "running" /\ status' = "done")
  PROVE  NetType' /\ TimeInv' /\ AckInv' /\ FlowInv' /\ PaceInv'
<1> USE DEF Ns3Inv
<1>1. /\ queue' = queue /\ due' = due /\ flight' = flight /\ dropped' = dropped
      /\ now' = now /\ sends' = sends /\ direction' = direction /\ scheduled' = scheduled
      /\ UNCHANGED input
  BY DEF network
<1>2. Traces' = Traces /\ PacketSet' = PacketSet /\ bench' = bench /\ Accepted' = Accepted
  BY <1>1, FixedInput
<1>3. NetType'
  BY <1>1, <1>2 DEF NetType
<1>4. TimeInv'
  BY <1>1 DEF TimeInv
<1>5. \A y : /\ Flies(y)' <=> Flies(y)
             /\ \A d \in Devices : Queued(d, y)' <=> Queued(d, y)
  BY <1>1 DEF Flies, Queued
<1>6. \A y \in PacketSet : Carried(y)' => Carried(y)
  BY <1>5 DEF Carried
<1>7. AckInv'
  <2>1. ArrivalKept /\ now' \in Nat /\ now <= now'
    BY <1>1 DEF ArrivalKept, NetType
  <2>2. /\ sends' \subseteq [at : Nat, trace : Traces, ack : BOOLEAN]
        /\ \A s \in sends' : s \in sends /\ ~s.ack => direction'[s.trace][FALSE].arrival < 0
    BY <1>1 DEF NetType, AckInv
  <2> QED BY <1>1, <1>6, <2>1, <2>2, AckKept
<1>8. FlowInv'
  <2>1. Monotone
    BY <1>1 DEF Monotone
  <2>2. \A t, ack : Sent(t, ack)' => Sent(t, ack)
    BY <1>1 DEF Sent
  <2>3. \A y \in PacketSet : Flies(y) => Carried(y)'
    BY <1>5 DEF Carried
  <2>4. \A t \in Traces, ack \in BOOLEAN : Counts(t, ack)'
    BY <1>1, FixedInput DEF FlowInv, Counts
  <2>5. \A t \in Traces : direction'[t][FALSE].arrival >= 0 /\ IsSpecial(bench[t]) => t \in scheduled'
    BY <1>1 DEF FlowInv
  <2> QED BY <1>1, <1>5, <2>1, <2>2, <2>3, <2>4, <2>5, FlowKept
<1>9. PaceInv'
  <2>1. Monotone
    BY <1>1 DEF Monotone
  <2>2. now' \in Nat /\ now <= now'
    BY <1>1 DEF NetType
  <2>3. \A t, ack : Source(t, ack)' = Source(t, ack)
    BY <1>1, FixedInput
  <2>4. \A y \in PacketSet : Underway(y)' => Underway(y)
    BY <1>5, <2>3 DEF Underway
  <2>5. \A t \in Traces, ack \in BOOLEAN : Paced(t, ack)'
    BY <1>1, <2>2, PacedKept DEF PaceInv
  <2> QED BY <1>1, <1>6, <2>1, <2>2, <2>4, <2>5, PaceKept
<1> QED BY <1>3, <1>4, <1>7, <1>8, <1>9

-----------------------------------------------------------------------------
(* A network that has drained without a drop has completed everything.     *)

LEMMA DrainedDirection ==
  ASSUME Ns3Inv, \A p : ~Carried(p), dropped = {},
         NEW t \in Traces, NEW ack \in BOOLEAN, Sent(t, ack)
  PROVE  IsComplete(t, ack)
<1> USE DEF Ns3Inv
<1>1. CASE IsLocal(t, ack)
  BY <1>1 DEF FlowInv
<1>2. CASE ~IsLocal(t, ack)
  <2>1. PICK F \in Nat : F = Fragments(t, ack)
    BY TraceFacts DEF NetType
  <2>2. Counts(t, ack)
    BY DEF FlowInv
  <2>3. ASSUME NEW k \in 0..(F - 1)
        PROVE  /\ direction[t][ack].finish >= 0 \/ k \in direction[t][ack].transmitted
               /\ direction[t][ack].arrival >= 0 \/ k \in direction[t][ack].received
    <3>1. PICK p : p = TraceFragmentTag(t, k, ack)
      OBVIOUS
    <3>2. p.trace = t /\ p.fragment = k /\ p.ack = ack
      BY <3>1, TagFields
    <3>3. p \in PacketSet
      <4>1. k \in Nat /\ k < F
        OBVIOUS
      <4>2. p \in [trace : Traces, fragment : Nat, ack : BOOLEAN]
        BY <3>1, <4>1 DEF TraceFragmentTag
      <4> QED BY <2>1, <3>2, <4>1, <4>2 DEF PacketSet
    <3>4. Leaves(p) /\ Arrives(p)
      BY <1>2, <3>2, <3>3 DEF FlowInv
    <3> QED BY <3>2, <3>4 DEF Leaves, Arrives, Carried
  <2>4. direction[t][ack].finish >= 0
    BY <2>1, <2>2, <2>3 DEF Counts
  <2>5. direction[t][ack].arrival >= 0
    BY <2>1, <2>2, <2>3 DEF Counts
  <2> QED BY <2>4, <2>5 DEF IsComplete
<1> QED BY <1>1, <1>2

LEMMA DrainedComplete ==
  ASSUME Ns3Inv, Drained, dropped = {}
  PROVE  AllComplete
<1> USE DEF Ns3Inv
<1>1. /\ status = "running" /\ sends = {} /\ flight = {}
      /\ \A d \in Devices : queue[d] = << >>
  BY DEF Drained, DueTimes
<1>2. \A p : ~Carried(p)
  BY <1>1 DEF Carried, Flies, Queued
<1>3. \A t \in Traces, ack \in BOOLEAN : Sent(t, ack) => IsComplete(t, ack)
  BY <1>2, DrainedDirection
<1>4. ASSUME NEW t \in Traces
      PROVE  IsComplete(t, FALSE) /\ (IsSpecial(bench[t]) => IsComplete(t, TRUE))
  <2>1. Sent(t, FALSE)
    BY <1>1 DEF Sent
  <2>2. IsComplete(t, FALSE)
    BY <1>3, <2>1
  <2>3. ASSUME IsSpecial(bench[t]) PROVE IsComplete(t, TRUE)
    <3>1. t \in scheduled
      BY <2>2, <2>3 DEF IsComplete, FlowInv
    <3>2. Sent(t, TRUE)
      BY <1>1, <3>1 DEF Sent
    <3> QED BY <1>3, <3>2
  <2> QED BY <2>2, <2>3
<1> QED BY <1>4 DEF AllComplete

-----------------------------------------------------------------------------
(* One step, and what an answer under way says.                            *)

\* Whether a record has a route does not change.
LEMMA SameRoutes ==
  ASSUME UNCHANGED input
  PROVE  \A t, ack : Unreachable(t, ack)' = Unreachable(t, ack)
<1>1. bench' = bench
  BY DEF input
<1> QED BY <1>1 DEF Unreachable, IsLocal, Source, Destination, RoutingDestination

LEMMA Ns3Step ==
  ASSUME Ns3Inv, [Next]_vars
  PROVE  Ns3Inv'
<1>1. CASE Reject
  <2>1. status' = "failed" /\ ~Accepted /\ UNCHANGED <<input, now, sends, network, direction, scheduled>>
    BY <1>1 DEF Reject
  <2>2. FailureExplained'
    BY <2>1, FixedInput DEF FailureExplained
  <2> QED BY <2>1, <2>2, QuietStep DEF Ns3Inv
<1>2. CASE Schedule
  <2>1. status' = "running"
    BY <1>2 DEF Schedule
  <2> QED BY <1>2, <2>1, ScheduleStep DEF Ns3Inv, FailureExplained
<1>3. CASE Incomplete
  <2>1. /\ status' = "failed" /\ UNCHANGED <<input, now, sends, network, direction, scheduled>>
        /\ Drained /\ ~AllComplete
    BY <1>3 DEF Incomplete
  <2>2. dropped # {} /\ dropped' = dropped
    BY <2>1, DrainedComplete DEF network
  <2> QED BY <2>1, <2>2, QuietStep DEF Ns3Inv, FailureExplained
<1>4. CASE WriteDelayInfo
  <2>1. /\ UNCHANGED <<input, now, sends, network, direction, scheduled>> /\ status = "running"
        /\ status' = IF {t \in Traces : Unrouted(t)} = {} THEN "done" ELSE "failed"
    BY <1>4 DEF WriteDelayInfo, Drained
  <2>2. Traces' = Traces /\ \A t : Unrouted(t)' = Unrouted(t)
    BY <2>1, FixedInput
  <2>3. FailureExplained'
    BY <2>1, <2>2 DEF FailureExplained
  <2> QED BY <2>1, <2>3, QuietStep DEF Ns3Inv
<1>5. CASE UNCHANGED vars
  <2>1. /\ UNCHANGED <<input, now, sends, network, direction, scheduled>>
        /\ status' = status /\ dropped' = dropped
    BY <1>5 DEF vars, input, network
  <2>2. FailureExplained'
    BY <2>1, SameRoutes, FixedInput DEF FailureExplained, Ns3Inv
  <2> QED BY <2>1, <2>2, QuietStep DEF Ns3Inv
<1>9. CASE \E s \in sends : SendFails(s)
  <2>1. PICK s \in sends : SendFails(s)
    BY <1>9
  <2>2. /\ status' = "failed" /\ UNCHANGED <<input, now, sends, network, direction, scheduled>>
        /\ Unreachable(s.trace, s.ack)
    BY <2>1 DEF SendFails
  <2>3. s.trace \in Traces /\ s.ack \in BOOLEAN
    BY DEF Ns3Inv, NetType
  <2>4. Traces' = Traces /\ Unreachable(s.trace, s.ack)'
    BY <2>2, SameRoutes, FixedInput
  <2>5. FailureExplained'
    BY <2>3, <2>4 DEF FailureExplained
  <2> QED BY <2>2, <2>5, QuietStep DEF Ns3Inv
<1>6. CASE \E s \in sends : SendLocal(s) \/ SendDirection(s)
  <2>1. PICK s \in sends : SendLocal(s) \/ SendDirection(s)
    BY <1>6
  <2>2. status' = "running"
    BY <2>1 DEF SendLocal, SendDirection, IsNext
  <2> QED BY <2>1, <2>2, LocalStep, SendStep DEF Ns3Inv, FailureExplained
<1>7. CASE \E d \in Devices : TransmitEnd(d)
  <2>1. PICK d \in Devices : TransmitEnd(d)
    BY <1>7
  <2>2. status' = "running"
    BY <2>1 DEF TransmitEnd, IsNext
  <2> QED BY <2>1, <2>2, TransmitStep DEF Ns3Inv, FailureExplained
<1>8. CASE \E f \in flight : Forward(f) \/ OnReceive(f)
  <2>1. PICK f \in flight : Forward(f) \/ OnReceive(f)
    BY <1>8
  <2>2. status' = "running"
    BY <2>1 DEF Forward, OnReceive, IsNext
  <2> QED BY <2>1, <2>2, ForwardStep, ReceiveStep DEF Ns3Inv, FailureExplained
<1> QED BY <1>1, <1>2, <1>3, <1>4, <1>5, <1>6, <1>7, <1>8, <1>9 DEF Next, Ended

LEMMA NoEarlyAnswer ==
  ASSUME Ns3Inv
  PROVE  AckNeverEarly
<1> USE DEF Ns3Inv
<1> SUFFICES ASSUME NEW t \in Traces,
                    AckPackets(t) # {} \/ direction[t][TRUE].finish >= 0
             PROVE  Answerable(t, now)
  BY DEF AckNeverEarly, Answerable
<1>1. CASE direction[t][TRUE].finish >= 0
  BY <1>1 DEF AckInv
<1>2. CASE AckPackets(t) # {}
  <2>1. PICK p : /\ p.trace = t /\ p.ack
                 /\ \/ \E f \in flight : f.packet = p
                    \/ \E d \in Devices : p \in ToSet(queue[d])
    BY <1>2, Zenon DEF AckPackets
  <2>2. CASE \E f \in flight : f.packet = p
    <3>1. p \in PacketSet /\ Carried(p)
      BY <2>2 DEF NetType, Carried, Flies
    <3> QED BY <2>1, <3>1 DEF AckInv
  <2>3. CASE \E d \in Devices : p \in ToSet(queue[d])
    <3>1. PICK d \in Devices : p \in ToSet(queue[d])
      BY <2>3
    <3>2. PICK q \in Seq(PacketSet) : q = queue[d]
      BY DEF NetType
    <3>3. PICK i \in DOMAIN q : q[i] = p
      BY <3>1, <3>2, Zenon DEF ToSet
    <3>4. i \in 1..Len(q) /\ p \in PacketSet
      BY <3>3
    <3>5. Carried(p)
      BY <3>2, <3>3, <3>4 DEF Carried, Queued
    <3> QED BY <2>1, <3>4, <3>5 DEF AckInv
  <2> QED BY <2>1, <2>2, <2>3
<1> QED BY <1>1, <1>2

-----------------------------------------------------------------------------
(* What the delay file says.                                               *)

LEMMA CeilingOrder ==
  ASSUME NEW a \in Int, NEW b \in Int, a <= b
  PROVE  /\ CeilNanosecondsToCycles(a) \in Nat /\ CeilNanosecondsToCycles(b) \in Nat
         /\ CeilNanosecondsToCycles(a) <= CeilNanosecondsToCycles(b)
         /\ a > 0 => CeilNanosecondsToCycles(a) > 0
<1>1. PICK c \in Nat \ {0} : c = cycle_ns
  BY Constants
<1>2. /\ a > 0 => (a + c - 1) \div c \in Nat /\ (a + c - 1) \div c > 0
      /\ b > 0 => (b + c - 1) \div c \in Nat
  BY SMTT(30)
<1>3. a > 0 => (a + c - 1) \div c <= (b + c - 1) \div c
  BY SMTT(30)
<1> QED BY <1>1, <1>2, <1>3 DEF CeilNanosecondsToCycles, CeilDivide

\* A replay that has ended well is complete and has written a line for every
\* record.
LinesInv ==
  status = "done" =>
    AllComplete /\ delayInfo.lines = [t \in Traces |-> DelayLine(t)]

LEMMA LinesFixed ==
  ASSUME UNCHANGED <<input, direction>>
  PROVE  /\ Traces' = Traces /\ AllComplete' = AllComplete
         /\ \A t : DelayLine(t)' = DelayLine(t)
<1>1. /\ bench' = bench /\ direction' = direction
      /\ localize_cross_worker_network' = localize_cross_worker_network
  BY DEF input
<1>2. Traces' = Traces
  BY <1>1 DEF Traces
<1>3. AllComplete' = AllComplete
  BY <1>1, <1>2 DEF AllComplete, IsComplete, IsSpecial
<1>4. \A t : /\ IsLocalizedCrossWorker(t)' = IsLocalizedCrossWorker(t)
             /\ IsSpecial(bench[t])' = IsSpecial(bench[t])
             /\ StartTime(t)' = StartTime(t)
  BY <1>1, Zenon DEF IsLocalizedCrossWorker, IsSpecial, StartTime
<1>5. \A t : /\ SourceDelay(t)' = SourceDelay(t)
             /\ DestinationDelay(t)' = DestinationDelay(t)
  BY <1>1, <1>4, Zenon DEF SourceDelay, DestinationDelay
<1>6. \A t, ack : /\ AckDelay(t, direction[t][ack].finish)' = AckDelay(t, direction[t][ack].finish)
                  /\ AckDelay(t, direction[t][ack].arrival)' = AckDelay(t, direction[t][ack].arrival)
  BY <1>1, Zenon DEF AckDelay, AckStart
<1>7. \A t : Delays(t)' = Delays(t)
  BY <1>4, <1>5, <1>6, Zenon DEF Delays
<1>8. \A t : DelayLine(t)' = DelayLine(t)
  BY <1>1, <1>7, Zenon DEF DelayLine
<1> QED BY <1>2, <1>3, <1>8

LEMMA LinesStep ==
  ASSUME Ns3Inv, LinesInv, [Next]_vars
  PROVE  LinesInv'
<1> SUFFICES ASSUME status' = "done"
             PROVE  AllComplete' /\ delayInfo.lines' = [t \in Traces' |-> DelayLine(t)']
  BY DEF LinesInv
<1>1. CASE WriteDelayInfo
  <2>1. PICK unrouted : unrouted = {t \in Traces : Unrouted(t)}
    OBVIOUS
  <2>2. PICK last : last = IF unrouted = {} THEN Len(bench) ELSE Min(unrouted) - 1
    OBVIOUS
  <2>3. /\ AllComplete /\ UNCHANGED <<input, direction>>
        /\ delayInfo' = [written |-> TRUE, lines |-> [t \in 1..last |-> DelayLine(t)]]
        /\ status' = IF unrouted = {} THEN "done" ELSE "failed"
    BY <1>1, <2>1, <2>2, Zenon DEF WriteDelayInfo
  <2>4. unrouted = {} /\ last = Len(bench)
    BY <2>2, <2>3
  <2>5. bench \in Seq(BenchRecord)
    BY Ns3Assumption DEF Ns3Inv, NetType
  <2>6. 1..last = Traces
    BY <2>4, <2>5 DEF Traces
  <2>7. delayInfo.lines' = [t \in Traces |-> DelayLine(t)]
    BY <2>3, <2>6
  <2> QED BY <2>3, <2>7, LinesFixed
<1>2. CASE UNCHANGED vars
  <2>1. /\ status = "done" /\ delayInfo' = delayInfo /\ UNCHANGED <<input, direction>>
    BY <1>2 DEF vars, input
  <2> QED BY <2>1, LinesFixed DEF LinesInv
<1>3. ~Reject /\ ~Schedule /\ ~Incomplete
  BY DEF Reject, Schedule, Incomplete
<1>4. \A s \in sends : ~SendLocal(s) /\ ~SendFails(s) /\ ~SendDirection(s)
  BY DEF SendLocal, SendFails, SendDirection, IsNext
<1>5. \A d \in Devices : ~TransmitEnd(d)
  BY DEF TransmitEnd, IsNext
<1>6. \A f \in flight : ~Forward(f) /\ ~OnReceive(f)
  BY DEF Forward, OnReceive, IsNext
<1> QED BY <1>1, <1>2, <1>3, <1>4, <1>5, <1>6 DEF Next, Ended

\* The forward delays of a complete record, and those of its answer.
LEMMA DelayOrder ==
  ASSUME Ns3Inv, AllComplete, NEW t \in Traces
  PROVE  /\ SourceDelay(t) <= DestinationDelay(t) /\ DestinationDelay(t) > 0
         /\ IsSpecial(bench[t]) =>
              AckDelay(t, direction[t][TRUE].finish) <= AckDelay(t, direction[t][TRUE].arrival)
<1> USE DEF Ns3Inv
<1>1. PICK f \in Int, a \in Int : f = direction[t][FALSE].finish /\ a = direction[t][FALSE].arrival
  BY DEF NetType, Directions
<1>2. PICK start \in Nat : start = StartTime(t)
  BY TraceFacts DEF NetType
<1>3. a >= 0 /\ f <= a /\ start < a
  <2>1. Paced(t, FALSE)
    BY DEF PaceInv
  <2>2. a >= 0
    BY <1>1 DEF AllComplete, IsComplete
  <2> QED BY <1>1, <1>2, <2>1, <2>2 DEF Paced
<1>4. SourceDelay(t) <= DestinationDelay(t) /\ DestinationDelay(t) > 0
  <2>1. f - start \in Int /\ a - start \in Int /\ f - start <= a - start /\ a - start > 0
    BY <1>3
  <2>2. /\ CeilNanosecondsToCycles(f - start) <= CeilNanosecondsToCycles(a - start)
        /\ CeilNanosecondsToCycles(a - start) > 0
    <3>1. CeilNanosecondsToCycles(f - start) <= CeilNanosecondsToCycles(a - start)
      BY <2>1, CeilingOrder
    <3>2. a - start <= a - start
      BY <2>1
    <3>3. CeilNanosecondsToCycles(a - start) > 0
      BY <2>1, <3>2, CeilingOrder
    <3> QED BY <3>1, <3>3
  <2> QED BY <1>1, <1>2, <2>2, Zenon DEF SourceDelay, DestinationDelay
<1>5. ASSUME IsSpecial(bench[t])
      PROVE  AckDelay(t, direction[t][TRUE].finish) <= AckDelay(t, direction[t][TRUE].arrival)
  <2>1. PICK g \in Int, b \in Int : g = direction[t][TRUE].finish /\ b = direction[t][TRUE].arrival
    BY DEF NetType, Directions
  <2>2. PICK s \in Int : s = AckStart(t, a)
    BY <1>3, TraceFacts DEF NetType
  <2>3. g <= b
    <3>1. Paced(t, TRUE)
      BY DEF PaceInv
    <3>2. b >= 0
      BY <1>5, <2>1 DEF AllComplete, IsComplete
    <3> QED BY <2>1, <3>1, <3>2 DEF Paced
  <2>4. g - s \in Int /\ b - s \in Int /\ g - s <= b - s
    BY <2>3
  <2>5. CeilNanosecondsToCycles(g - s) <= CeilNanosecondsToCycles(b - s)
    BY <2>4, CeilingOrder
  <2> QED BY <1>1, <2>1, <2>2, <2>5 DEF AckDelay
<1> QED BY <1>4, <1>5

-----------------------------------------------------------------------------
(* The theorems.                                                           *)

\* Whatever the topology, the trace, the sizes and the rates: while an
\* acknowledgement is on its way or has been sent, its request has arrived in
\* full and its sender has reached the cycle of the record, so WriteDelayInfo
\* never derives a delay from an answer that ScheduleAcknowledgement should
\* have held back.
THEOREM AnswersAreNeverEarly == Spec => []AckNeverEarly
<1>1. Init => Ns3Inv
  BY InitStep
<1>2. Ns3Inv /\ [Next]_vars => Ns3Inv'
  BY Ns3Step
<1>3. Ns3Inv => AckNeverEarly
  BY NoEarlyAnswer
<1> QED BY <1>1, <1>2, <1>3, PTL DEF Spec

\* The replay throws for a reason only: the trace was rejected, a queue
\* dropped a datagram, a record has no route in the topology or is outside
\* the worker routing.  In
\* particular the counting of OnTransmitEnd and OnReceive loses no datagram:
\* a network that drains without a drop has completed every transaction.
THEOREM FailuresHaveACause == Spec => []FailureExplained
<1>1. Init => Ns3Inv
  BY InitStep
<1>2. Ns3Inv /\ [Next]_vars => Ns3Inv'
  BY Ns3Step
<1>3. Ns3Inv => FailureExplained
  BY DEF Ns3Inv
<1> QED BY <1>1, <1>2, <1>3, PTL DEF Spec

\* A replay that ends well has a line for every record, in the order of the
\* trace.  In a line that was not localized no delay of an arrival is smaller
\* than the delay of its sending: OnTransmitEnd has counted every datagram of
\* a direction before OnReceive completes it.
THEOREM LinesAreOrdered == Spec => []DelaysOrdered
<1>1. Init => Ns3Inv /\ LinesInv
  BY InitStep DEF Init, LinesInv
<1>2. Ns3Inv /\ LinesInv /\ [Next]_vars => Ns3Inv' /\ LinesInv'
  BY Ns3Step, LinesStep
<1>3. ASSUME Ns3Inv, LinesInv
      PROVE  DelaysOrdered
  <2> SUFFICES ASSUME status = "done"
               PROVE  /\ Len(delayInfo.lines) = Len(bench)
                      /\ \A t \in Traces : ~IsLocalizedCrossWorker(t) =>
                           /\ delayInfo.lines[t].delays[1] <= delayInfo.lines[t].delays[2]
                           /\ IsSpecial(bench[t]) =>
                                delayInfo.lines[t].delays[3] <= delayInfo.lines[t].delays[4]
    BY DEF DelaysOrdered
  <2>1. AllComplete /\ delayInfo.lines = [t \in Traces |-> DelayLine(t)]
    BY <1>3 DEF LinesInv
  <2>2. Len(delayInfo.lines) = Len(bench)
    <3>1. bench \in Seq(BenchRecord)
      BY <1>3, Ns3Assumption DEF Ns3Inv, NetType
    <3>2. PICK n \in Nat : n = Len(bench) /\ Traces = 1..n
      BY <3>1 DEF Traces
    <3> QED BY <2>1, <3>2
  <2>3. ASSUME NEW t \in Traces, ~IsLocalizedCrossWorker(t)
        PROVE  /\ delayInfo.lines[t].delays[1] <= delayInfo.lines[t].delays[2]
               /\ IsSpecial(bench[t]) =>
                    delayInfo.lines[t].delays[3] <= delayInfo.lines[t].delays[4]
    <3>1. PICK line : line = delayInfo.lines[t].delays
      OBVIOUS
    <3>2. line = Delays(t)
      BY <2>1, <3>1 DEF DelayLine
    <3>3. PICK a : a = SourceDelay(t)
      OBVIOUS
    <3>4. PICK b : b = DestinationDelay(t)
      OBVIOUS
    <3>5. a <= b
      BY <1>3, <2>1, <3>3, <3>4, DelayOrder
    <3>6. CASE IsSpecial(bench[t])
      <4>1. PICK c : c = AckDelay(t, direction[t][TRUE].finish)
        OBVIOUS
      <4>2. PICK d : d = AckDelay(t, direction[t][TRUE].arrival)
        OBVIOUS
      <4>3. c <= d
        BY <1>3, <2>1, <3>6, <4>1, <4>2, DelayOrder
      <4>4. line = <<a, b, c, d>>
        BY <2>3, <3>2, <3>3, <3>4, <3>6, <4>1, <4>2, Zenon DEF Delays
      <4>5. line[1] = a /\ line[2] = b /\ line[3] = c /\ line[4] = d
        BY ONLY <4>4
      <4> QED BY ONLY <3>1, <3>5, <4>3, <4>5, Zenon
    <3>7. CASE ~IsSpecial(bench[t])
      <4>1. line = <<a, b>>
        BY <2>3, <3>2, <3>3, <3>4, <3>7, Zenon DEF Delays
      <4>2. line[1] = a /\ line[2] = b
        BY ONLY <4>1
      <4> QED BY ONLY <3>1, <3>5, <3>7, <4>2, Zenon
    <3> QED BY <3>6, <3>7
  <2> QED BY <2>2, <2>3
<1> QED BY <1>1, <1>2, <1>3, PTL DEF Spec

\* The counterfactual of IsLocalizedCrossWorker: the lines that a replay with
\* that option leaves without any delay are exactly those of the records
\* between chiplets of different workers.  No other line can look localized,
\* because a request arrives after the start of its record and so is delayed
\* by at least a cycle, in a local hop too.
THEOREM CounterfactualIsExact == Spec => []LocalizedExactly
<1>1. Init => Ns3Inv /\ LinesInv
  BY InitStep DEF Init, LinesInv
<1>2. Ns3Inv /\ LinesInv /\ [Next]_vars => Ns3Inv' /\ LinesInv'
  BY Ns3Step, LinesStep
<1>3. ASSUME Ns3Inv, LinesInv
      PROVE  LocalizedExactly
  <2> SUFFICES ASSUME status = "done", localize_cross_worker_network, NEW t \in Traces
               PROVE  (ToSet(delayInfo.lines[t].delays) = {0}) <=>
                        worker_slots[bench[t].source] # worker_slots[bench[t].destination]
    BY DEF LocalizedExactly
  <2>1. AllComplete /\ delayInfo.lines[t].delays = Delays(t)
    BY <1>3 DEF LinesInv, DelayLine
  <2>2. IsLocalizedCrossWorker(t) <=>
          worker_slots[bench[t].source] # worker_slots[bench[t].destination]
    BY DEF IsLocalizedCrossWorker
  <2>3. CASE IsLocalizedCrossWorker(t)
    <3>1. Delays(t) = <<0, 0, 0, 0>> \/ Delays(t) = <<0, 0>>
      BY <2>3, Zenon DEF Delays
    <3>2. ToSet(<<0, 0, 0, 0>>) = {0} /\ ToSet(<<0, 0>>) = {0}
      BY DEF ToSet
    <3> QED BY <2>1, <2>2, <2>3, <3>1, <3>2
  <2>4. CASE ~IsLocalizedCrossWorker(t)
    <3>1. PICK line : line = delayInfo.lines[t].delays
      OBVIOUS
    <3>2. PICK a : a = DestinationDelay(t)
      OBVIOUS
    <3>3. a > 0
      BY <1>3, <2>1, <3>2, DelayOrder
    <3>4. (\E b : line = <<b, a>>) \/ \E b, c, d : line = <<b, a, c, d>>
      BY <2>1, <2>4, <3>1, <3>2, Zenon DEF Delays
    <3>5. 2 \in DOMAIN line /\ line[2] = a
      BY ONLY <3>4
    <3>6. a \in ToSet(line) /\ a # 0
      BY ONLY <3>3, <3>5 DEF ToSet
    <3> QED BY <2>2, <2>4, <3>1, <3>6
  <2> QED BY <2>3, <2>4
<1> QED BY <1>1, <1>2, <1>3, PTL DEF Spec
=============================================================================
