------------------------------ MODULE Ns3Phase2 ------------------------------
(***************************************************************************)
(* Phase two of a timing round: real/ns3_phase2.cc replays the trace of    *)
(* phase one on an ns-3 network and writes the delays that the next round  *)
(* of phase one loads.  A record of the trace is a message of one or more  *)
(* datagrams; special records (launch, barrier, lock, unlock) are answered *)
(* by an acknowledgement.                                                  *)
(*                                                                         *)
(* ns-3 is external: a discrete-event simulator with whole nanoseconds, a  *)
(* drop-tail device queue per link direction, and fixed routes.  Events    *)
(* that are due at the same time are taken in any order.  The descriptor   *)
(* of a record is "normal", "sync" (barrier, lock or unlock) or "launch".  *)
(***************************************************************************)
EXTENDS Integers, Sequences, SequencesExt, FiniteSets, FiniteSetsExt

CONSTANTS
  Nodes,              \* --nodes: 0..Nodes-1
  NextHop,            \* NextHop[n][d]: where node n forwards packets for d;
                      \* n itself where the topology has no path from n to d
  Benches,            \* the traces that may be read
  cycle_ns, flit_bytes, max_datagram_bytes, queue_packets, link_delay_ns,
  link_rate,          \* bytes per nanosecond
  header_bytes,       \* UDP, IP and link headers
  worker_slots        \* chiplet -> worker slot, of --worker-routing

NodeIds == 0..(Nodes - 1)
Devices == {x \in NodeIds \X NodeIds :
              \E d \in NodeIds \ {x[1]} : NextHop[x[1]][d] = x[2]}

\* The numbers are unsigned; the descriptor bits are read as one kind.
BenchRecord ==
  [source_cycle : Nat, destination_cycle : Nat, source : Nat, destination : Nat,
   flits : Nat, descriptor : {"normal", "sync", "launch"}]

ASSUME Ns3Assumption ==
  /\ Nodes \in Nat \ {0} /\ NextHop \in [NodeIds -> [NodeIds -> NodeIds]]
  /\ \A k \in {cycle_ns, flit_bytes, max_datagram_bytes, queue_packets,
               link_delay_ns, link_rate} : k \in Nat \ {0}
  /\ header_bytes \in Nat
  /\ Benches \subseteq Seq(BenchRecord)

VARIABLES
  bench,      \* the trace
  localize_cross_worker_network,  \* the option of that name
  now,        \* Simulator::Now
  sends,      \* scheduled calls of SendDirection
  queue,      \* queue[d]: packets of device d, the first one in transmission
  due,        \* due[d]: when that transmission ends
  flight,     \* packets on a link, with the node they reach and when
  direction,  \* direction[t][ack]: DirectionState
  scheduled,  \* traces with acknowledgement_scheduled
  dropped,    \* packets a full queue refused
  status,     \* reading, running, done or failed
  delayInfo   \* whether delayInfo was truncated, and the lines written to it

vars == <<bench, localize_cross_worker_network, now, sends, queue, due, flight, direction, scheduled,
          dropped, status, delayInfo>>
input == <<bench, localize_cross_worker_network>>
network == <<queue, due, flight, dropped>>

-----------------------------------------------------------------------------
(* Helpers.                                                                *)

CeilDivide(n, d) == (n + d - 1) \div d
CeilNanosecondsToCycles(ns) == IF ns <= 0 THEN 0 ELSE CeilDivide(ns, cycle_ns)

IsSpecial(r) == r.descriptor # "normal"
RoutingDestination(r) == IF r.descriptor = "sync" THEN 0 ELSE r.destination

Traces == DOMAIN bench
Source(t, ack) == IF ack THEN RoutingDestination(bench[t]) ELSE bench[t].source
Destination(t, ack) ==
  IF ack THEN bench[t].source ELSE RoutingDestination(bench[t])
IsLocal(t, ack) == Source(t, ack) = Destination(t, ack)
Bytes(t, ack) == IF ack THEN flit_bytes ELSE bench[t].flits * flit_bytes
FragmentCount(bytes) == Max({1, CeilDivide(bytes, max_datagram_bytes)})
FragmentBytes(bytes, fragment) ==
  Min({max_datagram_bytes, bytes - fragment * max_datagram_bytes})
Fragments(t, ack) == FragmentCount(Bytes(t, ack))

TraceFragmentTag(t, fragment, ack) ==
  [trace |-> t, fragment |-> fragment, ack |-> ack]

\* Mutant: every datagram carries the index of the first one.
Datagrams_SameTag(t, ack) ==
  [k \in 1..Fragments(t, ack) |-> TraceFragmentTag(t, 0, ack)]

Datagrams(t, ack) ==
  [k \in 1..Fragments(t, ack) |-> TraceFragmentTag(t, k - 1, ack)]

StartTime(t) == bench[t].source_cycle * cycle_ns
\* When the answer to trace t may leave: the request has arrived and its
\* receiver has reached the cycle of the record.
AckStart(t, arrival) ==
  Max({arrival, bench[t].destination_cycle * cycle_ns})

NoDirection == [transmitted |-> {}, received |-> {}, finish |-> -1, arrival |-> -1]

-----------------------------------------------------------------------------
(* The network (external).                                                 *)

TransmitTime(p) ==
  (FragmentBytes(Bytes(p.trace, p.ack), p.fragment) + header_bytes) \div link_rate

\* Only the earliest events may happen.
DueTimes == {s.at : s \in sends} \cup {f.at : f \in flight}
              \cup {due[d] : d \in {e \in Devices : queue[e] # << >>}}
IsNext(at) == status = "running" /\ \A u \in DueTimes : at <= u

\* PointToPointNetDevice::Send for each packet: one is being transmitted,
\* queue_packets may wait behind it, the others are dropped.
Enqueue(d, packets) ==
  LET all == queue[d] \o packets
      kept == Min({Len(all), 1 + queue_packets})
  IN  /\ queue' = [queue EXCEPT ![d] = SubSeq(all, 1, kept)]
      /\ due' = [due EXCEPT ![d] = IF queue[d] = << >>
                                   THEN now' + TransmitTime(Head(all)) ELSE @]
      /\ dropped' = dropped \cup {all[k] : k \in (kept + 1)..Len(all)}

-----------------------------------------------------------------------------
(* The simulation.                                                         *)

Init ==
  /\ bench \in Benches /\ localize_cross_worker_network \in BOOLEAN
  /\ now = 0 /\ sends = {}
  /\ queue = [d \in Devices |-> << >>] /\ due = [d \in Devices |-> 0]
  /\ flight = {} /\ dropped = {}
  /\ direction = [t \in DOMAIN bench |-> [ack \in BOOLEAN |-> NoDirection]]
  /\ scheduled = {}
  /\ status = "reading"
  /\ delayInfo = [written |-> FALSE, lines |-> << >>]

\* ReadBench and the constructor accept the trace.
Accepted ==
  \A t \in Traces : /\ bench[t].flits > 0
                    /\ {bench[t].source, bench[t].destination} \subseteq NodeIds

Reject ==
  /\ status = "reading" /\ ~Accepted
  /\ status' = "failed"
  /\ UNCHANGED <<input, now, sends, network, direction, scheduled, delayInfo>>

\* Run: the forward direction of every record is scheduled.
Schedule ==
  /\ status = "reading" /\ Accepted
  /\ status' = "running"
  /\ sends' = {[at |-> StartTime(t), trace |-> t, ack |-> FALSE] : t \in Traces}
  /\ UNCHANGED <<input, now, network, direction, scheduled, delayInfo>>

\* Mutant: the acknowledgement does not wait for its sender's cycle.
ScheduleAcknowledgement_AtOnce(t, arrival, others) ==
  /\ scheduled' = scheduled \cup {t}
  /\ sends' = others \cup
       (IF t \in scheduled THEN {}
        ELSE {[at |-> Max({now', arrival}), trace |-> t, ack |-> TRUE]})

\* Called when the request of trace t is complete at time arrival.
ScheduleAcknowledgement(t, arrival, others) ==
  /\ scheduled' = scheduled \cup {t}
  /\ sends' = others \cup
       (IF t \in scheduled THEN {}
        ELSE {[at |-> Max({now', AckStart(t, arrival)}), trace |-> t, ack |-> TRUE]})

\* The request of trace t is complete: special ones are answered.
Completed(t, ack, arrival, others) ==
  IF ~ack /\ IsSpecial(bench[t]) THEN ScheduleAcknowledgement(t, arrival, others)
  ELSE sends' = others /\ UNCHANGED scheduled

\* SendDirection to the own node takes one cycle.
SendLocal(s) ==
  /\ s \in sends /\ IsNext(s.at) /\ IsLocal(s.trace, s.ack)
  /\ now' = s.at
  /\ LET completion == s.at + cycle_ns
     IN  /\ direction' = [direction EXCEPT ![s.trace][s.ack] =
                           [direction[s.trace][s.ack] EXCEPT
                              !.finish = completion, !.arrival = completion]]
         /\ Completed(s.trace, s.ack, completion, sends \ {s})
  /\ UNCHANGED <<input, network, status, delayInfo>>

\* The topology has several components, which the constructor does not
\* refuse, and no route leads to the other end.
Unreachable(t, ack) ==
  ~IsLocal(t, ack) /\ NextHop[Source(t, ack)][Destination(t, ack)] = Source(t, ack)

\* SendDirection finds no route: SendTo returns an error, the program throws.
SendFails(s) ==
  /\ s \in sends /\ IsNext(s.at) /\ Unreachable(s.trace, s.ack)
  /\ status' = "failed"
  /\ UNCHANGED <<input, now, sends, network, direction, scheduled, delayInfo>>

\* SendDirection into the network: all datagrams at once.
SendDirection(s) ==
  /\ s \in sends /\ IsNext(s.at) /\ ~IsLocal(s.trace, s.ack)
  /\ ~Unreachable(s.trace, s.ack)
  /\ now' = s.at
  /\ sends' = sends \ {s}
  /\ LET n == Source(s.trace, s.ack)
     IN  Enqueue(<<n, NextHop[n][Destination(s.trace, s.ack)]>>,
                 Datagrams(s.trace, s.ack))
  /\ UNCHANGED <<input, flight, direction, scheduled, status, delayInfo>>

\* OnTransmitEnd: the source has sent the last datagram.
OnTransmitEnd(n, p) ==
  LET state == direction[p.trace][p.ack]
      transmitted == state.transmitted \cup {p.fragment}
      last == Cardinality(transmitted) = Fragments(p.trace, p.ack)
  IN  direction' =
        IF n # Source(p.trace, p.ack) \/ state.finish >= 0 THEN direction
        ELSE [direction EXCEPT ![p.trace][p.ack] =
                [state EXCEPT !.transmitted = transmitted,
                              !.finish = IF last THEN now' ELSE state.finish]]

\* A device ends a transmission and starts the next one.
TransmitEnd(d) ==
  /\ queue[d] # << >> /\ IsNext(due[d])
  /\ now' = due[d]
  /\ LET p == Head(queue[d])
         rest == Tail(queue[d])
     IN  /\ OnTransmitEnd(d[1], p)
         /\ flight' = flight \cup {[at |-> now' + link_delay_ns, node |-> d[2],
                                    packet |-> p]}
         /\ queue' = [queue EXCEPT ![d] = rest]
         /\ due' = [due EXCEPT ![d] = IF rest = << >> THEN 0
                                      ELSE now' + TransmitTime(Head(rest))]
  /\ UNCHANGED <<input, sends, scheduled, dropped, status, delayInfo>>

\* A node on the way forwards a packet.
Forward(f) ==
  /\ f \in flight /\ IsNext(f.at)
  /\ LET target == Destination(f.packet.trace, f.packet.ack)
     IN  /\ f.node # target
         /\ now' = f.at
         /\ flight' = flight \ {f}
         /\ Enqueue(<<f.node, NextHop[f.node][target]>>, <<f.packet>>)
  /\ UNCHANGED <<input, sends, direction, scheduled, status, delayInfo>>

AllReceived(p, received) == Cardinality(received) = Fragments(p.trace, p.ack)

\* OnReceive: the last datagram completes the message.
OnReceive(f) ==
  /\ f \in flight /\ IsNext(f.at)
  /\ f.node = Destination(f.packet.trace, f.packet.ack)
  /\ now' = f.at
  /\ flight' = flight \ {f}
  /\ LET t == f.packet.trace
         ack == f.packet.ack
         state == direction[t][ack]
         received == state.received \cup {f.packet.fragment}
         open == state.arrival < 0
         complete == open /\ AllReceived(f.packet, received)
     IN  /\ direction' = IF ~open THEN direction
                         ELSE [direction EXCEPT ![t][ack] =
                                 [state EXCEPT !.received = received,
                                               !.arrival = IF complete THEN now' ELSE state.arrival]]
         /\ IF complete THEN Completed(t, ack, now', sends)
            ELSE UNCHANGED <<sends, scheduled>>
  /\ UNCHANGED <<input, queue, due, dropped, status, delayInfo>>

-----------------------------------------------------------------------------
(* The results.                                                            *)

IsComplete(t, ack) == direction[t][ack].finish >= 0 /\ direction[t][ack].arrival >= 0
AllComplete ==
  \A t \in Traces : /\ IsComplete(t, FALSE)
                    /\ IsSpecial(bench[t]) => IsComplete(t, TRUE)

\* worker_slots has no entry for an end of the record: WriteDelayInfo throws.
Unrouted(t) ==
  /\ localize_cross_worker_network
  /\ ~({bench[t].source, bench[t].destination} \subseteq DOMAIN worker_slots)

\* Mutant: the routed destination decides instead of the record's.
IsLocalizedCrossWorker_Routed(t) ==
  /\ localize_cross_worker_network
  /\ worker_slots[bench[t].source] # worker_slots[RoutingDestination(bench[t])]

IsLocalizedCrossWorker(t) ==
  /\ localize_cross_worker_network
  /\ worker_slots[bench[t].source] # worker_slots[bench[t].destination]

SourceDelay(t) == CeilNanosecondsToCycles(direction[t][FALSE].finish - StartTime(t))
DestinationDelay(t) ==
  CeilNanosecondsToCycles(direction[t][FALSE].arrival - StartTime(t))
AckDelay(t, at) ==
  CeilNanosecondsToCycles(at - AckStart(t, direction[t][FALSE].arrival))

Delays(t) ==
  CASE IsLocalizedCrossWorker(t) /\ IsSpecial(bench[t]) -> <<0, 0, 0, 0>>
    [] IsLocalizedCrossWorker(t) /\ ~IsSpecial(bench[t]) -> <<0, 0>>
    [] ~IsLocalizedCrossWorker(t) /\ ~IsSpecial(bench[t]) ->
         <<SourceDelay(t), DestinationDelay(t)>>
    [] OTHER -> <<SourceDelay(t), DestinationDelay(t),
                  AckDelay(t, direction[t][TRUE].finish),
                  AckDelay(t, direction[t][TRUE].arrival)>>

DelayLine(t) ==
  [source_cycle |-> bench[t].source_cycle, source |-> bench[t].source,
   destination |-> bench[t].destination, descriptor |-> bench[t].descriptor,
   delays |-> Delays(t)]

Drained == status = "running" /\ DueTimes = {}

\* Run finds an incomplete transaction and throws: nothing is written.
Incomplete ==
  /\ Drained /\ ~AllComplete
  /\ status' = "failed"
  /\ UNCHANGED <<input, now, sends, network, direction, scheduled, delayInfo>>

\* WriteDelayInfo, up to the first record that has no worker slot.
WriteDelayInfo ==
  /\ Drained /\ AllComplete
  /\ LET unrouted == {t \in Traces : Unrouted(t)}
         last == IF unrouted = {} THEN Len(bench) ELSE Min(unrouted) - 1
     IN  /\ delayInfo' = [written |-> TRUE, lines |-> [t \in 1..last |-> DelayLine(t)]]
         /\ status' = IF unrouted = {} THEN "done" ELSE "failed"
  /\ UNCHANGED <<input, now, sends, network, direction, scheduled>>

\* The end of main.
Ended == status \in {"done", "failed"} /\ UNCHANGED vars

Next ==
  \/ Reject \/ Schedule \/ Incomplete \/ WriteDelayInfo \/ Ended
  \/ \E s \in sends : SendLocal(s) \/ SendFails(s) \/ SendDirection(s)
  \/ \E d \in Devices : TransmitEnd(d)
  \/ \E f \in flight : Forward(f) \/ OnReceive(f)

Spec == Init /\ [][Next]_vars

-----------------------------------------------------------------------------
(* The metrics: WriteMetricsCsv, WriteSummaryJson, and the totals that     *)
(* scripts/collect_timing_metrics.py computes from the CSV.                *)

DestinationBlock(t) ==
  Max({0, bench[t].source_cycle + DestinationDelay(t) - bench[t].destination_cycle})

MetricsRow(t) ==
  LET localized == IsLocalizedCrossWorker(t)
  IN  [special |-> IsSpecial(bench[t]),
       payload_bytes |-> bench[t].flits * flit_bytes,
       source_sync_advance |-> IF localized THEN 0 ELSE SourceDelay(t),
       destination_network_delay |-> IF localized THEN 0 ELSE DestinationDelay(t),
       destination_sync_block |-> IF localized THEN 0 ELSE DestinationBlock(t)]

Normal == {t \in Traces : ~IsSpecial(bench[t])}

\* The records whose delays WriteSummaryJson adds up.
Counted == {t \in Normal : ~IsLocalizedCrossWorker(t)}

WriteSummaryJson ==
  [records |-> Len(bench),
   normal |-> Cardinality(Normal),
   special |-> Cardinality(Traces \ Normal),
   payload_bytes |-> MapThenSumSet(LAMBDA t : bench[t].flits * flit_bytes, Traces),
   source |-> MapThenSumSet(SourceDelay, Counted),
   destination |-> MapThenSumSet(DestinationDelay, Counted),
   block |-> MapThenSumSet(DestinationBlock, Counted)]

collect_ns3_metrics ==
  LET normal == {t \in Traces : ~MetricsRow(t).special}
      Total(F(_), S) == MapThenSumSet(F, S)
  IN  [records |-> Cardinality(Traces),
       normal |-> Cardinality(normal),
       special |-> Cardinality(Traces \ normal),
       payload_bytes |-> Total(LAMBDA t : MetricsRow(t).payload_bytes, Traces),
       source |-> Total(LAMBDA t : MetricsRow(t).source_sync_advance, normal),
       destination |-> Total(LAMBDA t : MetricsRow(t).destination_network_delay, normal),
       block |-> Total(LAMBDA t : MetricsRow(t).destination_sync_block, normal)]

-----------------------------------------------------------------------------
(* What is checked.                                                        *)

Packets == {TraceFragmentTag(t, k, ack) :
              t \in Traces, k \in 0..(Max({Fragments(u, FALSE) : u \in Traces} \cup {1}) - 1),
              ack \in BOOLEAN}

AckPackets(t) == {p \in Packets : /\ p.trace = t /\ p.ack
                                  /\ \/ \E f \in flight : f.packet = p
                                     \/ \E d \in Devices : p \in ToSet(queue[d])}

\* An acknowledgement is never under way before its request has arrived in
\* full and its sender has reached the cycle of the record: the delays that
\* WriteDelayInfo subtracts AckStart from are times of a real answer.
AckNeverEarly ==
  \A t \in Traces :
    AckPackets(t) # {} \/ direction[t][TRUE].finish >= 0 =>
      /\ direction[t][FALSE].arrival >= 0
      /\ now >= AckStart(t, direction[t][FALSE].arrival)

\* The simulation fails for a reason only: an input that is rejected, a
\* datagram that a full queue dropped, a record between parts of the topology
\* that nothing connects or outside the worker routing.
FailureExplained ==
  status = "failed" =>
    \/ ~Accepted \/ dropped # {}
    \/ \E t \in Traces, ack \in BOOLEAN : Unreachable(t, ack)
    \/ \E t \in Traces : Unrouted(t)

\* Hops of the fixed route from n to d.
Hops[n \in NodeIds, d \in NodeIds] ==
  IF n = d THEN 0 ELSE 1 + Hops[NextHop[n][d], d]
\* Time a direction needs in an empty network, sending at the first device
\* and the propagation of every hop.
EmptyNetworkTime(t, ack) ==
  IF IsLocal(t, ack) THEN cycle_ns
  ELSE MapThenSumSet(LAMBDA k : TransmitTime(TraceFragmentTag(t, k, ack)),
                     0..(Fragments(t, ack) - 1))
       + Hops[Source(t, ack), Destination(t, ack)] * link_delay_ns

\* A delay file has a line for every record, and a message never arrives
\* before it was sent.
DelaysOrdered ==
  status = "done" =>
    /\ Len(delayInfo.lines) = Len(bench)
    /\ \A t \in Traces :
         LET d == delayInfo.lines[t].delays
         IN  ~IsLocalizedCrossWorker(t) =>
               d[1] <= d[2] /\ (IsSpecial(bench[t]) => d[3] <= d[4])

\* It is only written when nothing was lost, and its delays are never shorter
\* than the network permits.
DelaysFeasible ==
  status = "done" =>
    /\ dropped = {}
    /\ \A t \in Traces :
         LET d == delayInfo.lines[t].delays
         IN  ~IsLocalizedCrossWorker(t) =>
               /\ d[2] * cycle_ns >= EmptyNetworkTime(t, FALSE)
               /\ IsSpecial(bench[t]) => d[4] * cycle_ns >= EmptyNetworkTime(t, TRUE)

\* The counterfactual removes the delays of exactly the records between
\* chiplets of different workers.
LocalizedExactly ==
  status = "done" /\ localize_cross_worker_network =>
    \A t \in Traces :
      (ToSet(delayInfo.lines[t].delays) = {0}) <=>
        worker_slots[bench[t].source] # worker_slots[bench[t].destination]

\* The totals that the collector derives from the CSV are those of the JSON
\* summary: special and localized records count in the same way in both.
TotalsAgree == status = "done" => collect_ns3_metrics = WriteSummaryJson

\* What a finished replay reports is right: ordered and feasible delays, the
\* delays that the counterfactual removes, and one total in both outputs.
ReportExact == DelaysOrdered /\ DelaysFeasible /\ LocalizedExactly /\ TotalsAgree
=============================================================================
