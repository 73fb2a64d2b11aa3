----------------------------- MODULE PipeMetrics -----------------------------
(***************************************************************************)
(* What the measurements of the transport say about it.  The router        *)
(* (real/simbricks_pipe_router.py, end of handle) prints one record per    *)
(* request; scripts/collect_timing_metrics.py pairs the write and the read *)
(* of each message from the records alone and adds up how long readers     *)
(* were blocked; scripts/summarize_steady_measurement.py computes the same *)
(* kind of union.                                                          *)
(*                                                                         *)
(* Each pipe is the FIFO that PipeTransport implements.  It has one writer *)
(* and one reader, each with one request at a time; all clocks are         *)
(* synchronized.  A record carries, as a history, the message it is about  *)
(* and the number of its request.                                          *)
(***************************************************************************)
EXTENDS Integers, Sequences, SequencesExt, FiniteSets, FiniteSetsExt

CONSTANTS Pipes,    \* pipe names, each with its two slots
          Sizes,    \* byte counts of messages
          MaxOps,   \* bound: requests per client
          MaxTime,  \* bound: clock ticks
          MayStop   \* the gateways may receive TERMINATE

ASSUME MetricsAssumption ==
  Sizes \subseteq Nat /\ MaxOps \in Nat /\ MaxTime \in Nat /\ MayStop \in BOOLEAN

Clients == {"W", "R"} \X Pipes   \* an operation and the pipe it is called on

VARIABLES
  now,      \* wall clock
  ops,      \* ops[c]: requests issued
  request,  \* request[c]: phase idle, started, applied or refused, and stamps
  fifo,     \* fifo[p]: messages written and not yet read
  stopped,  \* the gateways are stopping
  log       \* the pipe-metric records, as they are printed

vars == <<now, ops, request, fifo, stopped, log>>

NoMessage == 0
Idle == [phase |-> "idle", bytes |-> 0, started |-> 0, message |-> NoMessage]

Init ==
  /\ now = 0 /\ ops = [c \in Clients |-> 0]
  /\ request = [c \in Clients |-> Idle]
  /\ fifo = [p \in Pipes |-> << >>] /\ stopped = FALSE /\ log = << >>

-----------------------------------------------------------------------------
(* Requests.                                                               *)

Tick == now < MaxTime /\ now' = now + 1 /\ UNCHANGED <<ops, request, fifo, stopped, log>>

\* The router has parsed a request and takes its start time.
Start(c, n) ==
  /\ request[c].phase = "idle" /\ ops[c] < MaxOps
  /\ ops' = [ops EXCEPT ![c] = @ + 1]
  /\ request' = [request EXCEPT ![c] = [phase |-> "started", bytes |-> n,
                                        started |-> now, message |-> NoMessage]]
  /\ UNCHANGED <<now, fifo, stopped, log>>

\* Request q after the gateway has served it with that message.
Applied(q, message) ==
  [phase |-> "applied", bytes |-> q.bytes, started |-> q.started, message |-> message]

\* External: the message enters the FIFO, or leaves it when its size is the
\* one the reader asks for.
Submit(p) ==
  LET w == <<"W", p>> IN
  /\ request[w].phase = "started" /\ ~stopped
  /\ fifo' = [fifo EXCEPT ![p] = Append(@, [id |-> ops[w], bytes |-> request[w].bytes])]
  /\ request' = [request EXCEPT ![w] = Applied(@, ops[w])]
  /\ UNCHANGED <<now, ops, stopped, log>>

Take(p) ==
  LET r == <<"R", p>> IN
  /\ request[r].phase = "started" /\ fifo[p] # << >>
  /\ Head(fifo[p]).bytes = request[r].bytes
  /\ fifo' = [fifo EXCEPT ![p] = Tail(@)]
  /\ request' = [request EXCEPT ![r] = Applied(@, Head(fifo[p]).id)]
  /\ UNCHANGED <<now, ops, stopped, log>>

\* External: TERMINATE reaches the gateways.
Stop == MayStop /\ ~stopped /\ stopped' = TRUE
          /\ UNCHANGED <<now, ops, request, fifo, log>>

\* The gateway answers ERR to a request it has not served.
GatewayError(c) ==
  /\ stopped /\ request[c].phase = "started"
  /\ request' = [request EXCEPT ![c].phase = "refused"]
  /\ UNCHANGED <<now, ops, fifo, stopped, log>>

MetricRecord(c) ==
  [operation |-> c[1], pipe_name |-> c[2], bytes |-> request[c].bytes,
   started |-> request[c].started, finished |-> now,
   message |-> request[c].message, number |-> ops[c]]

\* The gateway cannot be reached, or the request is not valid: the exception
\* skips the record.
Reject(c) ==
  /\ request[c].phase = "started"
  /\ request' = [request EXCEPT ![c] = Idle]
  /\ UNCHANGED <<now, ops, fifo, stopped, log>>

\* The answer, OK or ERR, has been passed on: the record is printed.
Record(c) ==
  /\ request[c].phase \in {"applied", "refused"}
  /\ request' = [request EXCEPT ![c] = Idle]
  /\ log' = Append(log, MetricRecord(c))
  /\ UNCHANGED <<now, ops, fifo, stopped>>

Next ==
  \/ Tick \/ Stop
  \/ \E p \in Pipes : Submit(p) \/ Take(p)
  \/ \E c \in Clients : \/ \E n \in Sizes : Start(c, n)
                        \/ GatewayError(c) \/ Reject(c) \/ Record(c)

Spec == Init /\ [][Next]_vars

-----------------------------------------------------------------------------
(* The collector.                                                          *)

\* sorted(items, key): stable.
Sorted(s, key) ==
  LET Before(i, j) == s[i][key] < s[j][key] \/ (s[i][key] = s[j][key] /\ i < j)
      Position(i) == 1 + Cardinality({j \in DOMAIN s : Before(j, i)})
  IN  [k \in DOMAIN s |-> s[CHOOSE i \in DOMAIN s : Position(i) = k]]

\* The elements of s that are in S, in the order of s.
Only(s, S) ==
  LET f[i \in 0..Len(s)] ==
        IF i = 0 THEN << >>
        ELSE IF s[i] \in S THEN Append(f[i - 1], s[i]) ELSE f[i - 1]
  IN  f[Len(s)]

\* The records of one transfer_key; the slots follow from the pipe.
Keys == Pipes \X Sizes
RecordsOf(op, key) ==
  [operation : {op}, pipe_name : {key[1]}, bytes : {key[2]}, started : Nat,
   finished : Nat, message : Nat, number : Nat]
Items(op, key) == Only(log, RecordsOf(op, key))

\* Mutant: records with the same stamp come out newest first.
write_items_Newest(key) == Sorted(Reverse(Items("W", key)), "started")

write_items(key) == Sorted(Items("W", key), "started")
read_items(key) == Sorted(Items("R", key), "finished")

\* zip, without the pairs whose read ends before both calls had begun.
IntervalStart(w, r) == Max({w.started, r.started})
Pairs(key) ==
  LET w == write_items(key)
      r == read_items(key)
  IN  {<<w[k], r[k]>> : k \in {j \in 1..Min({Len(w), Len(r)}) :
                                IntervalStart(w[j], r[j]) <= r[j].finished}}
AllPairs == UNION {Pairs(key) : key \in Keys}
Unmatched == Len(log) - 2 * Cardinality(AllPairs)

Exposed(p) == <<IntervalStart(p[1], p[2]), p[2].finished>>

\* sorted(intervals): by start, then finish.
SortedIntervals(I) ==
  SetToSortSeq(I, LAMBDA a, b : a[1] < b[1] \/ (a[1] = b[1] /\ a[2] < b[2]))

\* Mutant: a later interval that ends earlier shortens the current one.
Extend_Last(acc, i) ==
  IF i[1] <= acc.finish THEN [acc EXCEPT !.finish = i[2]]
  ELSE [total |-> acc.total + acc.finish - acc.start, start |-> i[1], finish |-> i[2]]

\* One turn of the loop of interval_union.
Extend(acc, i) ==
  IF i[1] <= acc.finish THEN [acc EXCEPT !.finish = Max({@, i[2]})]
  ELSE [total |-> acc.total + acc.finish - acc.start, start |-> i[1], finish |-> i[2]]

interval_union(I) ==
  IF I = {} THEN 0
  ELSE LET ordered == SortedIntervals(I)
           first == [total |-> 0, start |-> ordered[1][1], finish |-> ordered[1][2]]
           last == FoldLeft(Extend, first, Tail(ordered))
       IN  last.total + last.finish - last.start

\* One turn of the loop of union_duration: merged is a list of intervals.
Merge(merged, i) ==
  IF i[2] <= i[1] THEN merged
  ELSE IF merged = << >> \/ i[1] > Last(merged)[2] THEN Append(merged, i)
  ELSE Front(merged) \o << <<Last(merged)[1], Max({Last(merged)[2], i[2]})>> >>

union_duration(I) ==
  FoldLeft(LAMBDA sum, i : sum + i[2] - i[1], 0,
           FoldLeft(Merge, << >>, SortedIntervals(I)))

\* The calls of the log, and the exposed part of the paired ones.
CallIntervals(op) == {<<r.started, r.finished>> :
                        r \in {q \in ToSet(log) : q.operation = op}}
ExposedIntervals == {Exposed(p) : p \in AllPairs}

\* The summary's reads, clipped to the measured window; the two slots of a
\* pipe are on different hosts.
cross_intervals(start, finish) ==
  LET Clipped(i) == <<Max({start, i[1]}), Min({finish, i[2]})>>
  IN  {i \in {Clipped(j) : j \in CallIntervals("R")} : i[1] < i[2]}

-----------------------------------------------------------------------------
(* What is checked.                                                        *)

\* What the collector pairs is one message, while the gateways run: both
\* records are about a payload that was written and read, and the same one.
PairsAreMessages ==
  ~stopped =>
    \A p \in AllPairs : p[1].message # NoMessage /\ p[1].message = p[2].message

\* When both clients are idle and the pipe is empty, every record has found
\* its partner: unmatched records do point at lost or failed requests.
AllMatched ==
  /\ ~stopped
  /\ \A p \in Pipes : fifo[p] = << >>
  /\ \A c \in Clients : request[c].phase = "idle"
  => Unmatched = 0

\* The pairing of the collector is exactly the transfers.
PairingExact == PairsAreMessages /\ AllMatched

\* The two unions are the time covered by at least one interval, whichever
\* records are asked about.
Instants(I) == {x \in 0..MaxTime : \E i \in I : i[1] <= x /\ x < i[2]}
UnionIsMeasure ==
  \A I \in {CallIntervals("R"), CallIntervals("W") \cup CallIntervals("R"), ExposedIntervals} :
    interval_union(I) = Cardinality(Instants(I)) /\ union_duration(I) = interval_union(I)

\* Exposed time is time in which the reader was blocked and the writer had
\* already called: it contains no computation of either side.
ExposedIsTransport ==
  /\ Instants(ExposedIntervals) \subseteq Instants(CallIntervals("R"))
  /\ \A p \in AllPairs : Exposed(p)[1] >= p[1].started /\ Exposed(p)[2] = p[2].finished

\* Wherever the measured window is, the summary's synchronization time is the
\* part of it in which some reader was blocked, at most all of it.
ClippedIsMeasure ==
  \A start, finish \in 0..MaxTime :
    start < finish =>
      union_duration(cross_intervals(start, finish)) =
        Cardinality(Instants(CallIntervals("R")) \cap (start..(finish - 1)))

\* The times that the collector and the summary report are measures of real
\* waiting: each instant counts once, and only instants of transport.
TimesExact == UnionIsMeasure /\ ExposedIsTransport /\ ClippedIsMeasure
=============================================================================
