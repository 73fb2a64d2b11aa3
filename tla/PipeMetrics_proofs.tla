------------------------- MODULE PipeMetrics_proofs -------------------------
(***************************************************************************)
(* The collector pairs exactly the transfers: for any number of pipes,     *)
(* sizes and requests, whatever the clock does between them.               *)
(***************************************************************************)
EXTENDS PipeMetrics, FiniteSetTheorems, FunctionTheorems, SequenceTheorems,
        WellFoundedInduction, TLAPS

(***************************************************************************)
(* Induction over the natural numbers, for a set.                          *)
(***************************************************************************)
LEMMA SetInduction ==
  ASSUME NEW T, 0 \in T, \A n \in Nat : n \in T => n + 1 \in T
  PROVE  \A n \in Nat : n \in T
<1> DEFINE B == Nat \ T
           R == OpToRel(<, Nat)
<1> SUFFICES ASSUME B # {} PROVE FALSE
  OBVIOUS
<1>1. IsWellFoundedOn(R, Nat)
  BY NatLessThanWellFounded
<1>2. B \subseteq Nat
  OBVIOUS
<1>3. \A y, x \in Nat : y < x => <<y, x>> \in R
  BY DEF OpToRel
<1> HIDE DEF R
<1>4. PICK x \in B : \A y \in B : ~(<<y, x>> \in R)
  <2> HIDE DEF B
  <2> QED BY <1>1, <1>2, WFMin
<1>5. x \in Nat /\ x # 0 /\ x - 1 \in Nat /\ x - 1 < x /\ x = (x - 1) + 1
  BY <1>4
<1>6. x - 1 \notin B
  BY <1>3, <1>4, <1>5
<1> QED BY <1>4, <1>5, <1>6

(***************************************************************************)
(* What the selection of elements computes.                                *)
(***************************************************************************)
Put(q, m, P) == IF m \in P THEN Append(q, m) ELSE q

Filters(g, s, P) ==
  g = [i \in 0..Len(s) |-> IF i = 0 THEN << >>
        ELSE IF s[i] \in P THEN Append(g[i - 1], s[i]) ELSE g[i - 1]]

LEMMA OnlyUnfold == \A s, P : Only(s, P) = (CHOOSE g : Filters(g, s, P))[Len(s)]
  BY DEF Only, Filters

LEMMA FilterExists ==
  ASSUME NEW S, NEW s \in Seq(S), NEW P
  PROVE  \E g \in [0..Len(s) -> Seq(S)] : Filters(g, s, P)
<1> DEFINE Good(g, n) == /\ g[0] = << >>
                         /\ \A i \in 1..n : g[i] = Put(g[i - 1], s[i], P)
           T == {n \in Nat : n <= Len(s) =>
                   \E g \in [0..n -> Seq(S)] : Good(g, n)}
<1>1. 0 \in T
  <2> DEFINE g == [i \in 0..0 |-> << >>]
  <2>1. g \in [0..0 -> Seq(S)] /\ g[0] = << >>
    OBVIOUS
  <2> HIDE DEF g
  <2>2. Good(g, 0)
    BY <2>1
  <2>3. \E f \in [0..0 -> Seq(S)] : Good(f, 0)
    BY <2>1, <2>2
  <2> QED BY <2>3
<1>2. ASSUME NEW n \in Nat, n \in T, n + 1 <= Len(s) PROVE n + 1 \in T
  <2>1. PICK g \in [0..n -> Seq(S)] : Good(g, n)
    BY <1>2
  <2> DEFINE h == [i \in 0..n + 1 |->
                     IF i = n + 1 THEN Put(g[n], s[n + 1], P) ELSE g[i]]
  <2>2. s[n + 1] \in S /\ g[n] \in Seq(S)
    BY <1>2
  <2>3. Put(g[n], s[n + 1], P) \in Seq(S)
    BY <2>2 DEF Put
  <2>4. h \in [0..n + 1 -> Seq(S)]
    BY <2>3
  <2>5. Good(h, n + 1)
    <3>1. h[0] = << >> /\ h[n + 1] = Put(g[n], s[n + 1], P) /\ h[n] = g[n]
      BY <2>1
    <3>2. ASSUME NEW i \in 1..n PROVE h[i] = Put(h[i - 1], s[i], P)
      <4>1. h[i] = g[i] /\ h[i - 1] = g[i - 1]
        OBVIOUS
      <4> QED BY <2>1, <4>1
    <3>3. ASSUME NEW i \in 1..n + 1 PROVE h[i] = Put(h[i - 1], s[i], P)
      <4>1. CASE i = n + 1
        <5>1. i - 1 = n
          BY <4>1
        <5> QED BY <3>1, <4>1, <5>1
      <4>2. CASE i # n + 1
        <5>1. i \in 1..n
          BY <4>2
        <5> QED BY <3>2, <5>1
      <4> QED BY <4>1, <4>2
    <3> QED BY <3>1, <3>3
  <2> HIDE DEF h
  <2>6. \E f \in [0..n + 1 -> Seq(S)] : Good(f, n + 1)
    BY <2>4, <2>5
  <2> HIDE DEF Good
  <2> QED BY <2>6
<1>3. \A n \in Nat : n \in T => n + 1 \in T
  <2> HIDE DEF Good
  <2>1. ASSUME NEW n \in Nat, ~(n + 1 <= Len(s)) PROVE n + 1 \in T
    BY <2>1
  <2> HIDE DEF T
  <2> QED BY <1>2, <2>1
<1>4. Len(s) \in T
  <2> HIDE DEF T
  <2>1. Len(s) \in Nat
    OBVIOUS
  <2> QED BY <1>1, <1>3, <2>1, SetInduction
<1>5. PICK g \in [0..Len(s) -> Seq(S)] : Good(g, Len(s))
  BY <1>4
<1>6. Filters(g, s, P)
  <2> DEFINE h == [i \in 0..Len(s) |-> IF i = 0 THEN << >>
                   ELSE Put(g[i - 1], s[i], P)]
  <2>1. Len(s) \in Nat /\ DOMAIN g = 0..Len(s)
    OBVIOUS
  <2>2. ASSUME NEW i \in 0..Len(s) PROVE g[i] = h[i]
    BY <1>5, <2>1
  <2>3. g = h
    BY <2>1, <2>2
  <2> QED BY <2>3 DEF Filters, Put
<1> QED BY <1>6

Filter(s, P) == CHOOSE g : Filters(g, s, P)

LEMMA FilterProps ==
  ASSUME NEW S, NEW s \in Seq(S), NEW P
  PROVE  /\ Filter(s, P)[0] = << >>
         /\ \A i \in 0..Len(s) : Filter(s, P)[i] \in Seq(S)
         /\ \A i \in 1..Len(s) :
              Filter(s, P)[i] = Put(Filter(s, P)[i - 1], s[i], P)
         /\ Only(s, P) = Filter(s, P)[Len(s)]
<1> DEFINE g == Filter(s, P)
<1>1. Filters(g, s, P)
  BY FilterExists DEF Filter
<1> HIDE DEF g
<1>2. Len(s) \in Nat
  OBVIOUS
<1>3. g[0] = << >> /\ \A i \in 1..Len(s) : g[i] = Put(g[i - 1], s[i], P)
  <2>1. \A i \in 0..Len(s) : g[i] = IF i = 0 THEN << >>
                                    ELSE Put(g[i - 1], s[i], P)
    BY <1>1 DEF Filters, Put
  <2> QED BY <1>2, <2>1
<1> DEFINE T == {n \in Nat : n <= Len(s) => g[n] \in Seq(S)}
<1>4. 0 \in T
  <2>1. << >> \in Seq(S)
    OBVIOUS
  <2> QED BY <1>3, <2>1
<1>5. ASSUME NEW n \in Nat, n \in T PROVE n + 1 \in T
  <2> SUFFICES ASSUME n + 1 <= Len(s) PROVE g[n + 1] \in Seq(S)
    OBVIOUS
  <2>1. g[n] \in Seq(S) /\ n + 1 \in 1..Len(s) /\ s[n + 1] \in S
    BY <1>2, <1>5
  <2>2. g[n + 1] = Put(g[n], s[n + 1], P)
    BY <1>3, <2>1
  <2> QED BY <2>1, <2>2 DEF Put
<1>6. \A n \in Nat : n \in T
  <2> HIDE DEF T
  <2> QED BY <1>4, <1>5, SetInduction
<1>7. Only(s, P) = g[Len(s)]
  BY OnlyUnfold DEF g, Filter
<1> QED BY <1>2, <1>3, <1>6, <1>7 DEF g

LEMMA OnlyType ==
  ASSUME NEW S, NEW s \in Seq(S), NEW P
  PROVE  Only(s, P) \in Seq(S)
<1>1. Len(s) \in 0..Len(s)
  OBVIOUS
<1> QED BY <1>1, FilterProps

LEMMA OnlyEmpty == \A P : Only(<< >>, P) = << >>
<1>1. << >> \in Seq({}) /\ Len(<< >>) = 0
  OBVIOUS
<1> QED BY <1>1, FilterProps

LEMMA OnlyAppend ==
  ASSUME NEW S, NEW s \in Seq(S), NEW e \in S, NEW P
  PROVE  Only(Append(s, e), P) = Put(Only(s, P), e, P)
<1> DEFINE t == Append(s, e)
           f == Filter(s, P)
           h == Filter(t, P)
<1>1. /\ t \in Seq(S) /\ Len(s) \in Nat /\ Len(t) = Len(s) + 1
      /\ t[Len(s) + 1] = e /\ \A i \in 1..Len(s) : t[i] = s[i]
  OBVIOUS
<1> HIDE DEF t
<1>2. /\ f[0] = << >> /\ Only(s, P) = f[Len(s)]
      /\ \A i \in 1..Len(s) : f[i] = Put(f[i - 1], s[i], P)
  BY FilterProps
<1>3. /\ h[0] = << >> /\ Only(t, P) = h[Len(t)]
      /\ \A i \in 1..Len(t) : h[i] = Put(h[i - 1], t[i], P)
  BY <1>1, FilterProps
<1> HIDE DEF f, h
<1> DEFINE T == {n \in Nat : n <= Len(s) => h[n] = f[n]}
<1>4. 0 \in T
  BY <1>2, <1>3
<1>5. ASSUME NEW n \in Nat, n \in T PROVE n + 1 \in T
  <2> SUFFICES ASSUME n + 1 <= Len(s) PROVE h[n + 1] = f[n + 1]
    OBVIOUS
  <2>1. /\ h[n] = f[n] /\ n + 1 \in 1..Len(s) /\ n + 1 \in 1..Len(t)
        /\ (n + 1) - 1 = n /\ t[n + 1] = s[n + 1]
    BY <1>1, <1>5
  <2>2. f[n + 1] = Put(f[n], s[n + 1], P)
    BY <1>2, <2>1
  <2>3. h[n + 1] = Put(h[n], t[n + 1], P)
    BY <1>3, <2>1
  <2> QED BY <2>1, <2>2, <2>3
<1>6. \A n \in Nat : n \in T
  <2> HIDE DEF T
  <2> QED BY <1>4, <1>5, SetInduction
<1>7. h[Len(s)] = f[Len(s)]
  BY <1>1, <1>6
<1>8. h[Len(s) + 1] = Put(h[Len(s)], e, P)
  <2>1. Len(s) + 1 \in 1..Len(t) /\ (Len(s) + 1) - 1 = Len(s)
    BY <1>1
  <2> QED BY <1>1, <1>3, <2>1
<1> QED BY <1>1, <1>2, <1>3, <1>7, <1>8 DEF t

\* The head of s as the elements in P see it.
First(s, P) == IF Head(s) \in P THEN <<Head(s)>> ELSE << >>

LEMMA OnlyTail ==
  ASSUME NEW S, NEW s \in Seq(S), s # << >>, NEW P
  PROVE  Only(s, P) = First(s, P) \o Only(Tail(s), P)
<1> DEFINE t == Tail(s)
           f == Filter(s, P)
           h == Filter(t, P)
           a == First(s, P)
<1>1. /\ t \in Seq(S) /\ Len(t) \in Nat /\ Len(s) = Len(t) + 1
      /\ s[1] = Head(s) /\ Head(s) \in S
      /\ \A i \in 1..Len(t) : t[i] = s[i + 1] /\ t[i] \in S
  OBVIOUS
<1>2. a \in Seq(S) /\ Put(<< >>, Head(s), P) = a
  BY <1>1 DEF First, Put
<1> HIDE DEF t, a
<1>3. /\ f[0] = << >> /\ Only(s, P) = f[Len(s)]
      /\ \A i \in 1..Len(s) : f[i] = Put(f[i - 1], s[i], P)
  BY FilterProps
<1>4. /\ h[0] = << >> /\ Only(t, P) = h[Len(t)]
      /\ \A i \in 0..Len(t) : h[i] \in Seq(S)
      /\ \A i \in 1..Len(t) : h[i] = Put(h[i - 1], t[i], P)
  BY <1>1, FilterProps
<1> HIDE DEF f, h
<1> DEFINE T == {n \in Nat : n <= Len(t) => f[n + 1] = a \o h[n]}
<1>5. 0 \in T
  <2>1. f[1] = a
    <3>1. 1 \in 1..Len(s) /\ 1 - 1 = 0
      BY <1>1
    <3> QED BY <1>1, <1>2, <1>3, <3>1
  <2>2. a = a \o h[0]
    BY <1>2, <1>4, ConcatEmptySeq
  <2> QED BY <2>1, <2>2
<1>6. ASSUME NEW n \in Nat, n \in T PROVE n + 1 \in T
  <2> SUFFICES ASSUME n + 1 <= Len(t) PROVE f[(n + 1) + 1] = a \o h[n + 1]
    OBVIOUS
  <2> DEFINE e == t[n + 1]
  <2>1. /\ f[n + 1] = a \o h[n] /\ n + 1 \in 1..Len(t)
        /\ (n + 1) + 1 \in 1..Len(s) /\ ((n + 1) + 1) - 1 = n + 1
        /\ (n + 1) - 1 = n /\ s[(n + 1) + 1] = e /\ e \in S
        /\ n \in 0..Len(t)
    <3>1. f[n + 1] = a \o h[n]
      BY <1>1, <1>6
    <3>2. n + 1 \in 1..Len(t)
      BY <1>1
    <3> QED BY <1>1, <3>1, <3>2
  <2> HIDE DEF e
  <2>2. f[(n + 1) + 1] = Put(a \o h[n], e, P)
    BY <1>3, <2>1
  <2>3. h[n + 1] = Put(h[n], e, P)
    BY <1>4, <2>1 DEF e
  <2>4. h[n] \in Seq(S)
    BY <1>4, <2>1
  <2>5. Append(a \o h[n], e) = a \o Append(h[n], e)
    <3>1. a \in Seq(S) /\ h[n] \in Seq(S) /\ e \in S
      BY <1>2, <2>1, <2>4
    <3>2. PICK u \in Seq(S), v \in Seq(S), x \in S : u = a /\ v = h[n] /\ x = e
      BY <3>1
    <3>3. Append(u \o v, x) = u \o Append(v, x)
      BY ONLY u \in Seq(S), v \in Seq(S), x \in S
    <3> QED BY ONLY <3>2, <3>3
  <2> QED BY <2>2, <2>3, <2>5 DEF Put
<1>7. \A n \in Nat : n \in T
  <2> HIDE DEF T
  <2> QED BY <1>5, <1>6, SetInduction
<1>8. f[Len(s)] = a \o h[Len(t)]
  <2>1. Len(t) \in T /\ Len(t) <= Len(t)
    BY <1>1, <1>7
  <2> QED BY <1>1, <2>1
<1> QED BY <1>3, <1>4, <1>8 DEF t, a


-----------------------------------------------------------------------------
(* The invariant.                                                          *)

Requests == [phase : {"idle", "started", "applied", "refused"}, bytes : Nat,
             started : Nat, message : Nat]
FifoItems == [id : Nat, bytes : Nat]
OfSize(n) == [id : Nat, bytes : {n}]
LogRecords == [operation : {"W", "R"}, pipe_name : Pipes, bytes : Sizes, started : Nat,
               finished : Nat, message : Nat, number : Nat]

\* The images of the elements of s.
Through(g, s) == [k \in 1..Len(s) |-> g[s[k]]]

MessageOf == [r \in LogRecords |-> r.message]
IdOf == [m \in FifoItems |-> m.id]
Messages(s) == Through(MessageOf, s)
Idents(s) == Through(IdOf, s)

\* The message of client c whose record is still to be printed, as the
\* records of n bytes see it.
Pending(c, n) ==
  IF request[c].phase = "applied" /\ request[c].bytes = n
  THEN <<request[c].message>> ELSE << >>

MetricsType ==
  /\ now \in Nat /\ ops \in [Clients -> Nat] /\ request \in [Clients -> Requests]
  /\ fifo \in [Pipes -> Seq(FifoItems)] /\ log \in Seq(LogRecords)

\* A request that is under way has a number, a size and a start in the past;
\* while the gateways run, none is refused.
CallInv ==
  \A c \in Clients :
    /\ request[c].started <= now /\ request[c].phase # "refused"
    /\ request[c].phase # "idle" => ops[c] # 0 /\ request[c].bytes \in Sizes
    /\ request[c].phase = "applied" => request[c].message # NoMessage

FifoInv == \A p \in Pipes : \A i \in 1..Len(fifo[p]) : fifo[p][i].id # NoMessage

IsOf(r, c) == r.operation = c[1] /\ r.pipe_name = c[2]

\* The records of a client are printed in the order of its requests, the one
\* under way being the latest.
Earlier(r, c) ==
  /\ r.number <= ops[c]
  /\ request[c].phase # "idle" => r.number < ops[c] /\ r.started <= request[c].started
RecordInv(r) ==
  /\ r.message # NoMessage /\ r.started <= r.finished /\ r.finished <= now
  /\ \A c \in Clients : IsOf(r, c) => Earlier(r, c)
Increasing(s) ==
  \A i, j \in 1..Len(s) :
    i < j /\ s[i].operation = s[j].operation /\ s[i].pipe_name = s[j].pipe_name =>
      s[i].number < s[j].number
LogInv == (\A i \in 1..Len(log) : RecordInv(log[i])) /\ Increasing(log)

\* A list holds exactly the records of s that are in P ...
Listed(s, items, P) ==
  /\ \A k \in 1..Len(items) : items[k] \in P /\ \E i \in 1..Len(s) : s[i] = items[k]
  /\ \A i \in 1..Len(s) : s[i] \in P => \E k \in 1..Len(items) : items[k] = s[i]

\* ... each once, in the order of the requests, which is the order of the
\* stamps that the collector sorts by.
Ordered(items) ==
  \A j, k \in 1..Len(items) : j < k =>
    /\ items[j].number < items[k].number
    /\ items[j].started <= items[k].started
    /\ items[j].finished <= items[k].finished

ItemsInv ==
  \A op \in {"W", "R"}, key \in Keys :
    Listed(log, Items(op, key), RecordsOf(op, key)) /\ Ordered(Items(op, key))

\* For each size, what was read and what is in the FIFO is what was written,
\* in that order: messages of other sizes do not change it.
Flow(read, reading, inside, written, writing) ==
  (read \o reading) \o inside = written \o writing
FlowOf(p, n) ==
  Flow(Messages(Items("R", <<p, n>>)), Pending(<<"R", p>>, n), Idents(Only(fifo[p], OfSize(n))),
       Messages(Items("W", <<p, n>>)), Pending(<<"W", p>>, n))
FlowInv == \A p \in Pipes, n \in Sizes : FlowOf(p, n)

\* A read ends after the write of its message began, also when the write is
\* still to be recorded.
Ahead(reads, writes, started) ==
  \A k \in 1..Len(reads) :
    /\ k <= Len(writes) => writes[k].started <= reads[k].finished
    /\ k = Len(writes) + 1 => started <= reads[k].finished
AheadOf(p, n) ==
  Ahead(Items("R", <<p, n>>), Items("W", <<p, n>>), request[<<"W", p>>].started)
AheadInv == \A p \in Pipes, n \in Sizes : AheadOf(p, n)

BaseInv == MetricsType /\ CallInv /\ FifoInv
Running == BaseInv /\ LogInv /\ ItemsInv /\ FlowInv /\ AheadInv

\* Once the gateways stop, they never run again.
MetricsInv == ~stopped => Running

-----------------------------------------------------------------------------
(* Facts about the parts of the state.                                     *)

LEMMA ClientFacts ==
  /\ \A p \in Pipes : <<"W", p>> \in Clients /\ <<"R", p>> \in Clients
  /\ \A c \in Clients : c[1] \in {"W", "R"} /\ c[2] \in Pipes /\ c = <<c[1], c[2]>>
  BY DEF Clients

LEMMA SizeFacts == \A n \in Sizes : n \in Nat
  BY MetricsAssumption

LEMMA RecordTypes ==
  /\ Idle \in Requests /\ Idle.phase = "idle" /\ Idle.started = 0
  /\ \A n \in Nat, t \in Nat :
       [phase |-> "started", bytes |-> n, started |-> t, message |-> NoMessage] \in Requests
  /\ \A q \in Requests, m \in Nat :
       /\ Applied(q, m) \in Requests
       /\ Applied(q, m).phase = "applied" /\ Applied(q, m).bytes = q.bytes
       /\ Applied(q, m).started = q.started /\ Applied(q, m).message = m
  BY DEF Idle, NoMessage, Requests, Applied

LEMMA Tabulated ==
  ASSUME NEW S, NEW m \in Nat, NEW f, f \in [1..m -> S]
  PROVE  f \in Seq(S) /\ Len(f) = m /\ \A i \in 1..m : f[i] \in S
OBVIOUS

LEMMA ThroughType ==
  ASSUME NEW S, NEW g \in [S -> Nat], NEW s \in Seq(S)
  PROVE  /\ Through(g, s) \in Seq(Nat) /\ Len(Through(g, s)) = Len(s)
         /\ \A i \in 1..Len(s) : Through(g, s)[i] = g[s[i]]
<1>1. Len(s) \in Nat /\ \A i \in 1..Len(s) : s[i] \in S /\ g[s[i]] \in Nat
  OBVIOUS
<1>2. Through(g, s) \in [1..Len(s) -> Nat]
  BY <1>1 DEF Through
<1>3. \A i \in 1..Len(s) : Through(g, s)[i] = g[s[i]]
  BY DEF Through
<1> QED BY <1>1, <1>2, <1>3, Tabulated

LEMMA ThroughAppend ==
  ASSUME NEW S, NEW g \in [S -> Nat], NEW s \in Seq(S), NEW r \in S
  PROVE  Through(g, Append(s, r)) = Append(Through(g, s), g[r])
<1>0. ASSUME NEW x \in Seq(S)
      PROVE  /\ Through(g, x) \in Seq(Nat) /\ Len(Through(g, x)) = Len(x)
             /\ \A i \in 1..Len(x) : Through(g, x)[i] = g[x[i]]
  BY ThroughType, SMTT(30)
<1>1. PICK t \in Seq(S) : t = Append(s, r)
  <2>1. Append(s, r) \in Seq(S)
    OBVIOUS
  <2> QED BY ONLY <2>1, Zenon
<1>2. /\ Len(s) \in Nat /\ Len(t) = Len(s) + 1 /\ t[Len(s) + 1] = r
      /\ \A i \in 1..Len(s) : t[i] = s[i]
  BY <1>1
<1>3. PICK a \in Seq(Nat) : a = Through(g, s) /\ Len(a) = Len(s)
                            /\ \A i \in 1..Len(s) : a[i] = g[s[i]]
  <2>1. /\ Through(g, s) \in Seq(Nat) /\ Len(Through(g, s)) = Len(s)
        /\ \A i \in 1..Len(s) : Through(g, s)[i] = g[s[i]]
    BY ThroughType
  <2> QED BY ONLY <2>1, Zenon
<1>4. PICK b \in Seq(Nat) : b = Through(g, t) /\ Len(b) = Len(t)
                            /\ \A i \in 1..Len(t) : b[i] = g[t[i]]
  <2>1. /\ Through(g, t) \in Seq(Nat) /\ Len(Through(g, t)) = Len(t)
        /\ \A i \in 1..Len(t) : Through(g, t)[i] = g[t[i]]
    BY ONLY <1>0, t \in Seq(S), Zenon
  <2> QED BY ONLY <2>1, Zenon
<1>5. g[r] \in Nat
  OBVIOUS
<1>6. PICK x \in Nat : x = g[r]
  BY <1>5
<1>7. PICK u \in Seq(Nat) : u = Append(a, x)
  <2>1. Append(a, x) \in Seq(Nat)
    OBVIOUS
  <2> QED BY ONLY <2>1, Zenon
<1>8. Len(u) = Len(a) + 1 /\ u[Len(a) + 1] = x /\ \A i \in 1..Len(a) : u[i] = a[i]
  BY ONLY <1>7, a \in Seq(Nat), x \in Nat
<1>9. ASSUME NEW i \in 1..Len(b) PROVE b[i] = u[i]
  <2>1. i \in 1..Len(t)
    BY <1>4
  <2>2. i \in 1..Len(s) \/ i = Len(s) + 1
    BY <1>2, <2>1
  <2>3. b[i] = g[t[i]]
    BY <1>4, <2>1
  <2>4. CASE i \in 1..Len(s)
    <3>1. t[i] = s[i] /\ u[i] = a[i] /\ a[i] = g[s[i]]
      BY ONLY <1>2, <1>3, <1>8, <2>4
    <3> QED BY ONLY <2>3, <3>1, Zenon
  <2>5. CASE i = Len(s) + 1
    <3>1. t[i] = r /\ u[i] = g[r]
      BY ONLY <1>2, <1>3, <1>6, <1>8, <2>5
    <3> QED BY ONLY <2>3, <3>1, Zenon
  <2> QED BY <2>2, <2>4, <2>5
<1>10. Len(b) = Len(u)
  BY <1>2, <1>3, <1>4, <1>8
<1>11. b = u
  BY ONLY <1>9, <1>10, b \in Seq(Nat), u \in Seq(Nat), SeqEqual
<1> QED BY ONLY <1>1, <1>3, <1>4, <1>6, <1>7, <1>11

LEMMA ThroughFront ==
  ASSUME NEW S, NEW g \in [S -> Nat], NEW s \in Seq(S), NEW r \in S
  PROVE  Through(g, <<r>> \o s) = <<g[r]>> \o Through(g, s)
<1>0. ASSUME NEW x \in Seq(S)
      PROVE  /\ Through(g, x) \in Seq(Nat) /\ Len(Through(g, x)) = Len(x)
             /\ \A i \in 1..Len(x) : Through(g, x)[i] = g[x[i]]
  BY ThroughType, SMTT(30)
<1>1. PICK t \in Seq(S) : t = <<r>> \o s
  <2>1. <<r>> \o s \in Seq(S)
    OBVIOUS
  <2> QED BY ONLY <2>1, Zenon
<1>2. /\ Len(s) \in Nat /\ Len(t) = Len(s) + 1 /\ t[1] = r
      /\ \A i \in 1..Len(s) : t[i + 1] = s[i]
  BY ONLY <1>1, s \in Seq(S), r \in S
<1>3. PICK a \in Seq(Nat) : a = Through(g, s) /\ Len(a) = Len(s)
                            /\ \A i \in 1..Len(s) : a[i] = g[s[i]]
  <2>1. /\ Through(g, s) \in Seq(Nat) /\ Len(Through(g, s)) = Len(s)
        /\ \A i \in 1..Len(s) : Through(g, s)[i] = g[s[i]]
    BY ThroughType
  <2> QED BY ONLY <2>1, Zenon
<1>4. PICK b \in Seq(Nat) : b = Through(g, t) /\ Len(b) = Len(t)
                            /\ \A i \in 1..Len(t) : b[i] = g[t[i]]
  <2>1. /\ Through(g, t) \in Seq(Nat) /\ Len(Through(g, t)) = Len(t)
        /\ \A i \in 1..Len(t) : Through(g, t)[i] = g[t[i]]
    BY ONLY <1>0, t \in Seq(S), Zenon
  <2> QED BY ONLY <2>1, Zenon
<1>5. g[r] \in Nat
  OBVIOUS
<1>6. PICK x \in Nat : x = g[r]
  BY <1>5
<1>7. PICK u \in Seq(Nat) : u = <<x>> \o a
  <2>1. <<x>> \o a \in Seq(Nat)
    OBVIOUS
  <2> QED BY ONLY <2>1, Zenon
<1>8. Len(u) = Len(a) + 1 /\ u[1] = x /\ \A i \in 1..Len(a) : u[i + 1] = a[i]
  BY ONLY <1>7, a \in Seq(Nat), x \in Nat
<1>9. ASSUME NEW i \in 1..Len(b) PROVE b[i] = u[i]
  <2>1. i \in 1..Len(t)
    BY <1>4
  <2>2. i = 1 \/ \E j \in 1..Len(s) : i = j + 1
    <3>1. i # 1 => i - 1 \in 1..Len(s) /\ i = (i - 1) + 1
      BY <1>2, <2>1
    <3> QED BY ONLY <3>1, Zenon
  <2>3. b[i] = g[t[i]]
    BY <1>4, <2>1
  <2>4. CASE \E j \in 1..Len(s) : i = j + 1
    <3>1. PICK j \in 1..Len(s) : i = j + 1
      BY <2>4
    <3>2. t[i] = s[j] /\ u[i] = a[j] /\ a[j] = g[s[j]]
      BY ONLY <1>2, <1>3, <1>8, <3>1
    <3> QED BY ONLY <2>3, <3>2, Zenon
  <2>5. CASE i = 1
    BY ONLY <1>2, <1>6, <1>8, <2>3, <2>5, Zenon
  <2> QED BY <2>2, <2>4, <2>5
<1>10. Len(b) = Len(u)
  BY <1>2, <1>3, <1>4, <1>8
<1>11. b = u
  BY ONLY <1>9, <1>10, b \in Seq(Nat), u \in Seq(Nat), SeqEqual
<1> QED BY ONLY <1>1, <1>3, <1>4, <1>6, <1>7, <1>11

LEMMA MessagesFacts ==
  ASSUME NEW s \in Seq(LogRecords), NEW r \in LogRecords
  PROVE  /\ Messages(s) \in Seq(Nat) /\ Len(Messages(s)) = Len(s)
         /\ \A i \in 1..Len(s) : s[i] \in LogRecords /\ Messages(s)[i] = s[i].message
         /\ Messages(Append(s, r)) = Append(Messages(s), r.message)
<1>1. MessageOf \in [LogRecords -> Nat] /\ \A x \in LogRecords : MessageOf[x] = x.message
  BY DEF MessageOf, LogRecords
<1>2. \A i \in 1..Len(s) : s[i] \in LogRecords
  OBVIOUS
<1> HIDE DEF MessageOf
<1>3. Messages(Append(s, r)) = Append(Messages(s), MessageOf[r])
  BY <1>1, ThroughAppend DEF Messages
<1>4. /\ Messages(s) \in Seq(Nat) /\ Len(Messages(s)) = Len(s)
      /\ \A i \in 1..Len(s) : Messages(s)[i] = MessageOf[s[i]]
  BY <1>1, ThroughType DEF Messages
<1> QED BY <1>1, <1>2, <1>3, <1>4

LEMMA IdentsFacts ==
  ASSUME NEW s \in Seq(FifoItems), NEW r \in FifoItems
  PROVE  /\ Idents(s) \in Seq(Nat)
         /\ Idents(Append(s, r)) = Append(Idents(s), r.id)
         /\ Idents(<<r>> \o s) = <<r.id>> \o Idents(s)
<1>1. IdOf \in [FifoItems -> Nat] /\ \A x \in FifoItems : IdOf[x] = x.id
  BY DEF IdOf, FifoItems
<1> HIDE DEF IdOf
<1>2. Idents(Append(s, r)) = Append(Idents(s), IdOf[r])
  BY <1>1, ThroughAppend DEF Idents
<1>3. Idents(<<r>> \o s) = <<IdOf[r]>> \o Idents(s)
  BY <1>1, ThroughFront DEF Idents
<1>4. Idents(s) \in Seq(Nat)
  BY <1>1, ThroughType DEF Idents
<1> QED BY <1>1, <1>2, <1>3, <1>4

LEMMA RecordFacts ==
  ASSUME NEW r \in LogRecords, NEW op, NEW p \in Pipes, NEW n \in Sizes
  PROVE  /\ r \in RecordsOf(op, <<p, n>>) <=>
              r.operation = op /\ r.pipe_name = p /\ r.bytes = n
         /\ r.operation \in {"W", "R"} /\ r.pipe_name \in Pipes /\ r.bytes \in Sizes
         /\ r.started \in Nat /\ r.finished \in Nat /\ r.message \in Nat /\ r.number \in Nat
  BY DEF LogRecords, RecordsOf

LEMMA KeyFacts ==
  /\ \A p \in Pipes, n \in Sizes : <<p, n>> \in Keys
  /\ \A key \in Keys : key[1] \in Pipes /\ key[2] \in Sizes /\ key = <<key[1], key[2]>>
  BY DEF Keys

LEMMA ListedAppend ==
  ASSUME NEW s \in Seq(LogRecords), NEW items \in Seq(LogRecords), NEW r \in LogRecords,
         NEW P, Listed(s, items, P)
  PROVE  Listed(Append(s, r), Put(items, r, P), P)
<1>1. PICK t \in Seq(LogRecords) : t = Append(s, r)
  <2>1. Append(s, r) \in Seq(LogRecords)
    OBVIOUS
  <2> QED BY ONLY <2>1, Zenon
<1>2. /\ Len(s) \in Nat /\ Len(t) = Len(s) + 1 /\ t[Len(s) + 1] = r
      /\ \A i \in 1..Len(s) : t[i] = s[i]
  BY <1>1
<1>3. PICK u \in Seq(LogRecords) : u = Put(items, r, P)
  <2>1. Put(items, r, P) \in Seq(LogRecords)
    BY DEF Put
  <2> QED BY ONLY <2>1, Zenon
<1>4. /\ Len(items) \in Nat /\ Len(u) = (IF r \in P THEN Len(items) + 1 ELSE Len(items))
      /\ \A i \in 1..Len(items) : u[i] = items[i]
      /\ r \in P => u[Len(items) + 1] = r
  BY <1>3 DEF Put
<1>5. ASSUME NEW k \in 1..Len(u) PROVE u[k] \in P /\ \E i \in 1..Len(t) : t[i] = u[k]
  <2>1. CASE k \in 1..Len(items)
    <3>1. PICK i \in 1..Len(s) : s[i] = items[k]
      BY <2>1 DEF Listed
    <3>2. i \in 1..Len(t) /\ t[i] = u[k]
      BY <1>2, <1>4, <2>1, <3>1
    <3>3. u[k] \in P
      BY <1>4, <2>1 DEF Listed
    <3> QED BY <3>2, <3>3
  <2>2. CASE k \notin 1..Len(items)
    <3>1. r \in P /\ k = Len(items) + 1 /\ Len(s) + 1 \in 1..Len(t)
      BY <1>2, <1>4, <2>2
    <3>2. u[k] = r
      BY <1>4, <3>1
    <3> QED BY <1>2, <3>1, <3>2
  <2> QED BY <2>1, <2>2
<1>6. ASSUME NEW i \in 1..Len(t), t[i] \in P PROVE \E k \in 1..Len(u) : u[k] = t[i]
  <2>1. CASE i \in 1..Len(s)
    <3>1. s[i] = t[i]
      BY <1>2, <2>1
    <3>2. PICK k \in 1..Len(items) : items[k] = s[i]
      BY <1>6, <2>1, <3>1 DEF Listed
    <3>3. k \in 1..Len(u) /\ u[k] = t[i]
      BY <1>4, <3>1, <3>2
    <3> QED BY <3>3
  <2>2. CASE i = Len(s) + 1
    <3>1. t[i] = r /\ r \in P
      BY <1>2, <1>6, <2>2
    <3>2. Len(items) + 1 \in 1..Len(u) /\ u[Len(items) + 1] = r
      BY <1>4, <3>1
    <3> QED BY <3>1, <3>2
  <2> QED BY <1>2, <2>1, <2>2
<1> QED BY ONLY <1>1, <1>3, <1>5, <1>6, Zenon DEF Listed

LEMMA OrderedAppend ==
  ASSUME NEW items \in Seq(LogRecords), NEW r \in LogRecords, NEW P, Ordered(items),
         r \in P => \A k \in 1..Len(items) :
           /\ items[k].number < r.number /\ items[k].started <= r.started
           /\ items[k].finished <= r.finished
  PROVE  Ordered(Put(items, r, P))
<1>1. CASE r \notin P
  BY <1>1 DEF Put
<1>2. CASE r \in P
  <2>1. PICK u : u = Append(items, r)
    OBVIOUS
  <2>2. /\ Len(items) \in Nat /\ Len(u) = Len(items) + 1 /\ u[Len(items) + 1] = r
        /\ \A i \in 1..Len(items) : u[i] = items[i]
    BY <2>1
  <2>3. ASSUME NEW j \in 1..Len(u), NEW k \in 1..Len(u), j < k
        PROVE  /\ u[j].number < u[k].number /\ u[j].started <= u[k].started
               /\ u[j].finished <= u[k].finished
    <3>1. j \in 1..Len(items) /\ u[j] = items[j]
      BY <2>2, <2>3
    <3>2. CASE k \in 1..Len(items)
      <4>1. u[k] = items[k]
        BY <2>2, <3>2
      <4> QED BY <2>3, <3>1, <3>2, <4>1 DEF Ordered
    <3>3. CASE k = Len(items) + 1
      <4>1. u[k] = r
        BY <2>2, <3>3
      <4> QED BY <1>2, <3>1, <4>1
    <3> QED BY <2>2, <3>2, <3>3
  <2>4. Ordered(u)
    BY ONLY <2>3, Zenon DEF Ordered
  <2> QED BY <1>2, <2>1, <2>4 DEF Put
<1> QED BY <1>1, <1>2

-----------------------------------------------------------------------------
(* The state and the calls.                                                *)

\* What a step may be while the gateways run.
LEMMA StepCases ==
  ASSUME BaseInv, [Next]_vars, ~stopped, ~stopped'
  PROVE  \/ Tick \/ UNCHANGED vars
         \/ \E p \in Pipes : Submit(p) \/ Take(p)
         \/ \E c \in Clients : \/ \E n \in Sizes : Start(c, n)
                               \/ Reject(c)
                               \/ Record(c) /\ request[c].phase = "applied"
<1>1. ~Stop /\ \A c \in Clients : ~GatewayError(c)
  BY DEF Stop, GatewayError
<1>2. \A c \in Clients : Record(c) => request[c].phase = "applied"
  BY DEF Record, BaseInv, CallInv
<1> QED BY <1>1, <1>2 DEF Next

LEMMA BaseFacts ==
  ASSUME BaseInv
  PROVE  /\ now \in Nat /\ ops \in [Clients -> Nat] /\ request \in [Clients -> Requests]
         /\ fifo \in [Pipes -> Seq(FifoItems)] /\ log \in Seq(LogRecords)
         /\ \A c \in Clients :
              /\ ops[c] \in Nat /\ request[c] \in Requests
              /\ request[c].bytes \in Nat /\ request[c].started \in Nat
              /\ request[c].message \in Nat
         /\ \A p \in Pipes : fifo[p] \in Seq(FifoItems)
  BY DEF BaseInv, MetricsType, Requests

LEMMA InitBase == Init => BaseInv
<1> SUFFICES ASSUME Init PROVE BaseInv
  OBVIOUS
<1>1. now = 0 /\ ops = [c \in Clients |-> 0] /\ request = [c \in Clients |-> Idle]
      /\ fifo = [p \in Pipes |-> << >>] /\ log = << >>
  BY DEF Init
<1>2. MetricsType
  BY <1>1, RecordTypes DEF MetricsType
<1>3. CallInv
  BY <1>1, RecordTypes DEF CallInv
<1>4. FifoInv
  BY <1>1 DEF FifoInv
<1> QED BY <1>2, <1>3, <1>4 DEF BaseInv

LEMMA TickBase ==
  ASSUME BaseInv, Tick PROVE BaseInv'
<1>1. now' = now + 1 /\ UNCHANGED <<ops, request, fifo, log>> /\ now \in Nat
  BY BaseFacts DEF Tick
<1>2. MetricsType' /\ FifoInv'
  BY <1>1 DEF BaseInv, MetricsType, FifoInv
<1>3. CallInv'
  <2> SUFFICES ASSUME NEW c \in Clients
               PROVE  /\ request[c].started <= now + 1 /\ request[c].phase # "refused"
                      /\ request[c].phase # "idle" => ops[c] # 0 /\ request[c].bytes \in Sizes
                      /\ request[c].phase = "applied" => request[c].message # NoMessage
    BY <1>1 DEF CallInv
  <2>1. request[c].started <= now /\ request[c].started \in Nat
    BY BaseFacts DEF BaseInv, CallInv
  <2>2. request[c].started <= now + 1
    BY <1>1, <2>1
  <2> QED BY <2>2 DEF BaseInv, CallInv
<1> QED BY <1>2, <1>3 DEF BaseInv

LEMMA StartBase ==
  ASSUME BaseInv, NEW c \in Clients, NEW n \in Sizes, Start(c, n) PROVE BaseInv'
<1> DEFINE q == [phase |-> "started", bytes |-> n, started |-> now, message |-> NoMessage]
<1>1. /\ ops' = [ops EXCEPT ![c] = @ + 1] /\ request' = [request EXCEPT ![c] = q]
      /\ UNCHANGED <<now, fifo, log>>
  BY DEF Start
<1>2. /\ q \in Requests /\ q.phase = "started" /\ q.bytes = n /\ q.started = now
      /\ now <= now
  BY BaseFacts, SizeFacts, RecordTypes
<1> HIDE DEF q
<1>3. /\ ops' \in [Clients -> Nat] /\ ops'[c] # 0 /\ request'[c] = q
      /\ request' \in [Clients -> Requests]
      /\ \A d \in Clients \ {c} : ops'[d] = ops[d] /\ request'[d] = request[d]
  BY <1>1, <1>2, BaseFacts
<1>4. MetricsType' /\ FifoInv'
  BY <1>1, <1>3, BaseFacts DEF BaseInv, MetricsType, FifoInv
<1>5. CallInv'
  BY <1>1, <1>2, <1>3 DEF BaseInv, CallInv
<1> QED BY <1>4, <1>5 DEF BaseInv

LEMMA IdleBase ==
  ASSUME BaseInv, NEW c \in Clients, request' = [request EXCEPT ![c] = Idle],
         UNCHANGED <<now, ops, fifo>>, log' \in Seq(LogRecords)
  PROVE  BaseInv'
<1>1. /\ request'[c] = Idle /\ request' \in [Clients -> Requests]
      /\ \A d \in Clients \ {c} : request'[d] = request[d]
  BY RecordTypes, BaseFacts
<1>2. MetricsType' /\ FifoInv'
  BY <1>1, BaseFacts DEF BaseInv, MetricsType, FifoInv
<1>3. now \in Nat /\ 0 <= now
  BY BaseFacts
<1>4. CallInv'
  BY <1>1, <1>3, RecordTypes DEF BaseInv, CallInv
<1> QED BY <1>2, <1>4 DEF BaseInv

LEMMA AppliedBase ==
  ASSUME BaseInv, NEW c \in Clients, NEW m \in Nat, m # NoMessage,
         request[c].phase = "started", request' = [request EXCEPT ![c] = Applied(@, m)],
         UNCHANGED <<now, ops, log>>, fifo' \in [Pipes -> Seq(FifoItems)], FifoInv'
  PROVE  BaseInv'
<1> DEFINE q == Applied(request[c], m)
<1>1. /\ q \in Requests /\ q.phase = "applied" /\ q.bytes = request[c].bytes
      /\ q.started = request[c].started /\ q.message = m
  BY RecordTypes, BaseFacts
<1>2. request' = [request EXCEPT ![c] = q]
  OBVIOUS
<1> HIDE DEF q
<1>3. /\ request'[c] = q /\ request' \in [Clients -> Requests]
      /\ \A d \in Clients \ {c} : request'[d] = request[d]
  BY <1>1, <1>2, BaseFacts
<1>4. MetricsType'
  BY <1>3, BaseFacts DEF MetricsType
<1>5. CallInv'
  BY <1>1, <1>3 DEF BaseInv, CallInv
<1> QED BY <1>4, <1>5 DEF BaseInv

LEMMA SubmitBase ==
  ASSUME BaseInv, NEW p \in Pipes, Submit(p) PROVE BaseInv'
<1> DEFINE w == <<"W", p>>
           m == [id |-> ops[w], bytes |-> request[w].bytes]
<1>1. /\ request[w].phase = "started" /\ fifo' = [fifo EXCEPT ![p] = Append(@, m)]
      /\ request' = [request EXCEPT ![w] = Applied(@, ops[w])]
      /\ UNCHANGED <<now, ops, log>>
  BY DEF Submit
<1>2. w \in Clients /\ ops[w] \in Nat /\ ops[w] # NoMessage
  BY <1>1, ClientFacts, BaseFacts DEF BaseInv, CallInv, NoMessage
<1>3. m \in FifoItems /\ m.id = ops[w]
  BY <1>2, BaseFacts DEF FifoItems
<1> HIDE DEF w, m
<1>4. fifo' \in [Pipes -> Seq(FifoItems)]
  BY <1>1, <1>3, BaseFacts
<1>5. FifoInv'
  <2> SUFFICES ASSUME NEW r \in Pipes, NEW i \in 1..Len(fifo'[r])
               PROVE  fifo'[r][i].id # NoMessage
    BY DEF FifoInv
  <2>1. CASE r = p
    <3>1. fifo'[p] = Append(fifo[p], m) /\ fifo[p] \in Seq(FifoItems)
      BY <1>1, BaseFacts
    <3>2. PICK s \in Seq(FifoItems) : s = fifo[p]
      BY <3>1
    <3>3. Len(Append(s, m)) = Len(s) + 1 /\ Append(s, m)[Len(s) + 1] = m
          /\ Len(s) \in Nat /\ \A j \in 1..Len(s) : Append(s, m)[j] = s[j]
      BY ONLY <1>3, s \in Seq(FifoItems), AppendProperties
    <3>4. i \in 1..Len(s) \/ i = Len(s) + 1
      BY <2>1, <3>1, <3>2, <3>3
    <3> QED BY <1>2, <1>3, <2>1, <3>1, <3>2, <3>3, <3>4 DEF BaseInv, FifoInv
  <2>2. CASE r # p
    <3>1. fifo'[r] = fifo[r]
      BY <1>1, <2>2, BaseFacts
    <3> QED BY <3>1 DEF BaseInv, FifoInv
  <2> QED BY <2>1, <2>2
<1> QED BY <1>1, <1>2, <1>4, <1>5, AppliedBase

LEMMA TakeBase ==
  ASSUME BaseInv, NEW p \in Pipes, Take(p) PROVE BaseInv'
<1> DEFINE r == <<"R", p>>
<1>1. /\ request[r].phase = "started" /\ fifo[p] # << >>
      /\ fifo' = [fifo EXCEPT ![p] = Tail(@)]
      /\ request' = [request EXCEPT ![r] = Applied(@, Head(fifo[p]).id)]
      /\ UNCHANGED <<now, ops, log>>
  BY DEF Take
<1>2. r \in Clients
  BY ClientFacts
<1> HIDE DEF r
<1>3. fifo[p] \in Seq(FifoItems)
  BY BaseFacts
<1>4. PICK s \in Seq(FifoItems) : s = fifo[p]
  BY <1>3
<1>5. /\ Tail(s) \in Seq(FifoItems) /\ Head(s) = s[1] /\ 1 \in 1..Len(s)
      /\ Head(s) \in FifoItems
      /\ \A i \in 1..Len(Tail(s)) : i + 1 \in 1..Len(s) /\ Tail(s)[i] = s[i + 1]
  BY <1>1, <1>4
<1>6. Head(s).id \in Nat /\ Head(s).id # NoMessage
  BY <1>4, <1>5 DEF FifoItems, BaseInv, FifoInv
<1>7. fifo' \in [Pipes -> Seq(FifoItems)]
  BY <1>1, <1>4, <1>5, BaseFacts
<1>8. FifoInv'
  <2> SUFFICES ASSUME NEW x \in Pipes, NEW i \in 1..Len(fifo'[x])
               PROVE  fifo'[x][i].id # NoMessage
    BY DEF FifoInv
  <2>1. CASE x = p
    <3>1. fifo'[x] = Tail(s)
      BY <1>1, <1>4, <2>1, BaseFacts
    <3>2. i \in 1..Len(Tail(s)) /\ fifo'[x][i] = Tail(s)[i]
      BY <3>1
    <3> QED BY <1>4, <1>5, <3>2 DEF BaseInv, FifoInv
  <2>2. CASE x # p
    <3>1. fifo'[x] = fifo[x]
      BY <1>1, <2>2, BaseFacts
    <3> QED BY <3>1 DEF BaseInv, FifoInv
  <2> QED BY <2>1, <2>2
<1> QED BY <1>1, <1>2, <1>4, <1>6, <1>7, <1>8, AppliedBase

\* The record of a request that has been served.
LEMMA NewRecord ==
  ASSUME BaseInv, NEW c \in Clients, request[c].phase = "applied"
  PROVE  /\ MetricRecord(c) \in LogRecords
         /\ MetricRecord(c).operation = c[1] /\ MetricRecord(c).pipe_name = c[2]
         /\ MetricRecord(c).bytes = request[c].bytes
         /\ MetricRecord(c).started = request[c].started /\ MetricRecord(c).finished = now
         /\ MetricRecord(c).message = request[c].message /\ MetricRecord(c).number = ops[c]
<1>1. request[c].bytes \in Sizes
  BY DEF BaseInv, CallInv
<1> QED BY <1>1, BaseFacts, ClientFacts DEF MetricRecord, LogRecords

LEMMA RecordBase ==
  ASSUME BaseInv, NEW c \in Clients, Record(c), request[c].phase = "applied" PROVE BaseInv'
<1>1. MetricRecord(c) \in LogRecords
  BY NewRecord
<1>2. /\ request' = [request EXCEPT ![c] = Idle] /\ log' = Append(log, MetricRecord(c))
      /\ UNCHANGED <<now, ops, fifo>>
  BY DEF Record
<1>3. log' \in Seq(LogRecords)
  BY <1>1, <1>2, BaseFacts
<1> QED BY <1>2, <1>3, IdleBase

LEMMA BaseStep ==
  ASSUME BaseInv, [Next]_vars, ~stopped, ~stopped' PROVE BaseInv'
<1>1. CASE UNCHANGED vars
  BY <1>1 DEF vars, BaseInv, MetricsType, CallInv, FifoInv
<1>2. \A c \in Clients : Reject(c) => BaseInv'
  BY IdleBase, BaseFacts DEF Reject
<1> QED BY <1>1, <1>2, StepCases, TickBase, StartBase, SubmitBase, TakeBase, RecordBase

-----------------------------------------------------------------------------
(* The log.                                                                *)

LEMMA LogFacts ==
  ASSUME BaseInv, NEW i \in 1..Len(log)
  PROVE  /\ log[i] \in LogRecords /\ log[i].number \in Nat /\ log[i].started \in Nat
         /\ log[i].finished \in Nat /\ Len(log) \in Nat
<1>1. log \in Seq(LogRecords)
  BY BaseFacts
<1>2. log[i] \in LogRecords /\ Len(log) \in Nat
  BY <1>1
<1> QED BY <1>2 DEF LogRecords

\* When the log stays as it is, it is enough to look at one record.
LEMMA SameLog ==
  ASSUME LogInv, log' = log,
         \A i \in 1..Len(log) : RecordInv(log[i])'
  PROVE  LogInv'
  BY DEF LogInv, Increasing

LEMMA TickLog ==
  ASSUME BaseInv, LogInv, Tick PROVE LogInv'
<1>1. now' = now + 1 /\ UNCHANGED <<ops, request, log>> /\ now \in Nat
  BY BaseFacts DEF Tick
<1>2. ASSUME NEW i \in 1..Len(log) PROVE RecordInv(log[i])'
  <2>1. RecordInv(log[i])
    BY DEF LogInv
  <2>2. log[i].finished <= now + 1
    BY <1>1, <2>1, LogFacts DEF RecordInv
  <2> QED BY <1>1, <2>1, <2>2 DEF RecordInv, Earlier, IsOf
<1> QED BY <1>1, <1>2, SameLog

LEMMA StartLog ==
  ASSUME BaseInv, LogInv, NEW c \in Clients, NEW n \in Sizes, Start(c, n) PROVE LogInv'
<1> DEFINE q == [phase |-> "started", bytes |-> n, started |-> now, message |-> NoMessage]
<1>1. /\ ops' = [ops EXCEPT ![c] = @ + 1] /\ request' = [request EXCEPT ![c] = q]
      /\ q.started = now /\ UNCHANGED <<now, log>>
  BY DEF Start
<1> HIDE DEF q
<1>2. /\ ops'[c] = ops[c] + 1 /\ request'[c] = q
      /\ \A d \in Clients \ {c} : ops'[d] = ops[d] /\ request'[d] = request[d]
  BY <1>1, BaseFacts
<1>3. ASSUME NEW i \in 1..Len(log) PROVE RecordInv(log[i])'
  <2>1. RecordInv(log[i])
    BY DEF LogInv
  <2>2. log[i].started <= now
    BY <2>1, LogFacts, BaseFacts DEF RecordInv
  <2>3. ASSUME NEW d \in Clients, IsOf(log[i], d) PROVE Earlier(log[i], d)'
    <3>1. Earlier(log[i], d)
      BY <2>1, <2>3 DEF RecordInv
    <3>2. CASE d = c
      <4>1. log[i].number < ops'[c] /\ log[i].number <= ops'[c]
        BY <1>2, <3>1, <3>2, LogFacts, BaseFacts DEF Earlier
      <4>2. log[i].started <= request'[c].started
        BY <1>1, <1>2, <2>2
      <4> QED BY <1>1, <3>2, <4>1, <4>2 DEF Earlier
    <3>3. CASE d # c
      BY <1>1, <1>2, <3>1, <3>3 DEF Earlier
    <3> QED BY <3>2, <3>3
  <2> QED BY <1>1, <2>1, <2>3 DEF RecordInv, IsOf
<1> QED BY <1>1, <1>3, SameLog

\* A request that keeps its start and does not become busy.
LEMMA KeepLog ==
  ASSUME BaseInv, LogInv, UNCHANGED <<now, ops, log>>,
         \A c \in Clients : request'[c].phase = "idle"
                            \/ (request[c].phase # "idle"
                                /\ request'[c].started = request[c].started)
  PROVE  LogInv'
<1>1. ASSUME NEW i \in 1..Len(log) PROVE RecordInv(log[i])'
  <2>1. RecordInv(log[i])
    BY DEF LogInv
  <2>2. ASSUME NEW d \in Clients, IsOf(log[i], d) PROVE Earlier(log[i], d)'
    BY <2>1, <2>2 DEF RecordInv, Earlier
  <2> QED BY <2>1, <2>2 DEF RecordInv, IsOf
<1> QED BY <1>1, SameLog

LEMMA IdleLog ==
  ASSUME BaseInv, LogInv, NEW c \in Clients, Reject(c) PROVE LogInv'
<1>1. request' = [request EXCEPT ![c] = Idle] /\ UNCHANGED <<now, ops, log>>
  BY DEF Reject
<1>2. \A d \in Clients : request'[d].phase = "idle" \/ request'[d] = request[d]
  BY <1>1, BaseFacts, RecordTypes
<1> QED BY <1>1, <1>2, KeepLog

LEMMA AppliedLog ==
  ASSUME BaseInv, LogInv, NEW c \in Clients, NEW m \in Nat,
         request[c].phase = "started", request' = [request EXCEPT ![c] = Applied(@, m)],
         UNCHANGED <<now, ops, log>>
  PROVE  LogInv'
<1>1. request'[c].started = request[c].started
  BY BaseFacts, RecordTypes
<1>2. \A d \in Clients \ {c} : request'[d] = request[d]
  BY BaseFacts
<1> QED BY <1>1, <1>2, KeepLog

LEMMA SubmitLog ==
  ASSUME BaseInv, LogInv, NEW p \in Pipes, Submit(p) PROVE LogInv'
<1>1. <<"W", p>> \in Clients /\ ops[<<"W", p>>] \in Nat
  BY ClientFacts, BaseFacts
<1> QED BY <1>1, AppliedLog DEF Submit

LEMMA TakeLog ==
  ASSUME BaseInv, LogInv, NEW p \in Pipes, Take(p) PROVE LogInv'
<1>1. <<"R", p>> \in Clients
  BY ClientFacts
<1>2. Head(fifo[p]) \in FifoItems
  BY BaseFacts DEF Take
<1>3. Head(fifo[p]).id \in Nat
  BY <1>2 DEF FifoItems
<1> QED BY <1>1, <1>3, AppliedLog DEF Take

LEMMA RecordLog ==
  ASSUME BaseInv, LogInv, NEW c \in Clients, Record(c), request[c].phase = "applied"
  PROVE  LogInv'
<1>1. PICK r \in LogRecords :
        /\ r = MetricRecord(c) /\ r.operation = c[1] /\ r.pipe_name = c[2]
        /\ r.started = request[c].started /\ r.finished = now
        /\ r.message = request[c].message /\ r.number = ops[c]
  BY NewRecord
<1>2. /\ request' = [request EXCEPT ![c] = Idle] /\ log' = Append(log, r)
      /\ UNCHANGED <<now, ops>>
  BY <1>1 DEF Record
<1>3. /\ request'[c].phase = "idle" /\ \A d \in Clients \ {c} : request'[d] = request[d]
      /\ \A d \in Clients : request'[d].phase = "idle" \/ request'[d] = request[d]
  BY <1>2, BaseFacts, RecordTypes
<1>4. log \in Seq(LogRecords)
  BY BaseFacts
<1>5. /\ Len(log) \in Nat /\ Len(log') = Len(log) + 1 /\ log'[Len(log) + 1] = r
      /\ \A i \in 1..Len(log) : log'[i] = log[i]
  <2>1. PICK s \in Seq(LogRecords) : s = log
    BY <1>4
  <2>2. /\ Len(s) \in Nat /\ Len(Append(s, r)) = Len(s) + 1 /\ Append(s, r)[Len(s) + 1] = r
        /\ \A i \in 1..Len(s) : Append(s, r)[i] = s[i]
    BY ONLY s \in Seq(LogRecords), r \in LogRecords, AppendProperties
  <2> QED BY ONLY <1>2, <2>1, <2>2, Zenon
<1>6. ASSUME NEW i \in 1..Len(log) PROVE RecordInv(log[i])'
  <2>1. PICK x : x = log[i] /\ x = log'[i] /\ RecordInv(x)
    BY <1>5 DEF LogInv
  <2>2. ASSUME NEW d \in Clients, IsOf(x, d) PROVE Earlier(x, d)'
    BY <1>2, <1>3, <2>1, <2>2 DEF RecordInv, Earlier
  <2>3. RecordInv(x)'
    BY <1>2, <2>1, <2>2 DEF RecordInv, IsOf
  <2> QED BY <2>1, <2>3
<1>7. RecordInv(r)'
  <2>1. /\ r.message # NoMessage /\ r.started <= r.finished /\ r.finished <= now'
        /\ r.number <= ops'[c]
    BY <1>1, <1>2, BaseFacts DEF BaseInv, CallInv
  <2>2. ASSUME NEW d \in Clients, IsOf(r, d) PROVE d = c
    <3>1. d = <<d[1], d[2]>> /\ c = <<c[1], c[2]>>
      BY ONLY ClientFacts, c \in Clients, d \in Clients, Zenon
    <3>2. d[1] = c[1] /\ d[2] = c[2]
      BY <1>1, <2>2 DEF IsOf
    <3> QED BY ONLY <3>1, <3>2
  <2> QED BY <1>3, <2>1, <2>2 DEF RecordInv, Earlier, IsOf
<1>8. ASSUME NEW i \in 1..Len(log') PROVE RecordInv(log[i])'
  <2>1. i \in 1..Len(log) \/ i = Len(log) + 1
    BY <1>5
  <2>2. CASE i = Len(log) + 1
    <3>1. log'[i] = r
      BY <1>5, <2>2
    <3> QED BY <1>7, <3>1
  <2> QED BY <1>6, <2>1, <2>2
<1>9. ASSUME NEW i \in 1..Len(log'), NEW j \in 1..Len(log'), i < j,
             log'[i].operation = log'[j].operation, log'[i].pipe_name = log'[j].pipe_name
      PROVE  log'[i].number < log'[j].number
  <2>1. i \in 1..Len(log) /\ log'[i] = log[i]
    BY <1>5, <1>9
  <2>2. CASE j \in 1..Len(log)
    <3>1. log'[j] = log[j]
      BY <1>5, <2>2
    <3> QED BY <1>9, <2>1, <2>2, <3>1 DEF LogInv, Increasing
  <2>3. CASE j = Len(log) + 1
    <3>1. log'[j] = r
      BY <1>5, <2>3
    <3>2. IsOf(log[i], c)
      BY <1>1, <1>9, <2>1, <3>1 DEF IsOf
    <3>3. log[i].number < ops[c]
      BY <2>1, <3>2 DEF LogInv, RecordInv, Earlier
    <3> QED BY <1>1, <2>1, <3>1, <3>3
  <2> QED BY <1>5, <2>2, <2>3
<1> QED BY <1>8, <1>9 DEF LogInv, Increasing

LEMMA LogStep ==
  ASSUME BaseInv, LogInv, [Next]_vars, ~stopped, ~stopped' PROVE LogInv'
<1>1. CASE UNCHANGED vars
  BY <1>1, KeepLog DEF vars, LogInv, RecordInv, Earlier, IsOf, Increasing
<1> QED BY <1>1, StepCases, TickLog, StartLog, IdleLog, SubmitLog, TakeLog, RecordLog

-----------------------------------------------------------------------------
(* The lists of the collector.                                             *)

LEMMA ItemsNext ==
  \A op, key : Items(op, key)' = Only(log', RecordsOf(op, key))
  BY DEF Items, Only, RecordsOf

LEMMA ItemsType ==
  ASSUME BaseInv
  PROVE  \A op, key : Items(op, key) \in Seq(LogRecords)
<1>1. log \in Seq(LogRecords)
  BY BaseFacts
<1> QED BY <1>1, OnlyType DEF Items

LEMMA ItemsSame ==
  ASSUME log' = log
  PROVE  \A op, key : Items(op, key)' = Items(op, key)
<1>1. \A op, key : Items(op, key)' = Only(log, RecordsOf(op, key))
  BY ItemsNext
<1> QED BY ONLY <1>1, Zenon DEF Items

LEMMA ItemsRecord ==
  ASSUME BaseInv, NEW c \in Clients, Record(c), request[c].phase = "applied"
  PROVE  \A op, key : Items(op, key)' = Put(Items(op, key), MetricRecord(c), RecordsOf(op, key))
<1>1. MetricRecord(c) \in LogRecords
  BY NewRecord
<1>2. PICK r \in LogRecords : r = MetricRecord(c)
  BY <1>1
<1>3. log' = Append(log, r) /\ log \in Seq(LogRecords)
  BY <1>2, BaseFacts DEF Record
<1>4. ASSUME NEW op, NEW key
      PROVE  Only(Append(log, r), RecordsOf(op, key)) = Put(Items(op, key), r, RecordsOf(op, key))
  BY <1>3, OnlyAppend DEF Items
<1>5. \A op, key : Items(op, key)' = Only(Append(log, r), RecordsOf(op, key))
  BY ONLY <1>3, ItemsNext, Zenon
<1> QED BY ONLY <1>2, <1>4, <1>5, Zenon

\* What the invariants say of an element of a list.
LEMMA ItemFacts ==
  ASSUME BaseInv, LogInv, ItemsInv, NEW op \in {"W", "R"}, NEW p \in Pipes, NEW n \in Sizes,
         NEW k \in 1..Len(Items(op, <<p, n>>)), NEW x, x = Items(op, <<p, n>>)[k]
  PROVE  /\ x \in LogRecords /\ RecordInv(x) /\ x.operation = op /\ x.pipe_name = p
         /\ x.bytes = n /\ \E i \in 1..Len(log) : log[i] = x
<1>1. <<p, n>> \in Keys
  BY KeyFacts
<1>2. x \in RecordsOf(op, <<p, n>>) /\ \E i \in 1..Len(log) : log[i] = x
  BY <1>1 DEF ItemsInv, Listed
<1>3. PICK i \in 1..Len(log) : log[i] = x
  BY <1>2
<1>4. x \in LogRecords
  BY <1>3, LogFacts
<1>5. RecordInv(x)
  BY <1>3 DEF LogInv
<1>6. x.operation = op /\ x.pipe_name = p /\ x.bytes = n
  BY <1>2, <1>4, RecordFacts
<1> QED BY <1>2, <1>4, <1>5, <1>6

LEMMA RecordItems ==
  ASSUME BaseInv, LogInv, ItemsInv, NEW c \in Clients, Record(c), request[c].phase = "applied"
  PROVE  ItemsInv'
<1>1. PICK r \in LogRecords :
        /\ r = MetricRecord(c) /\ r.operation = c[1] /\ r.pipe_name = c[2]
        /\ r.started = request[c].started /\ r.finished = now /\ r.number = ops[c]
  BY NewRecord
<1>2. log' = Append(log, r) /\ log \in Seq(LogRecords)
  BY <1>1, BaseFacts DEF Record
<1>3. ASSUME NEW op \in {"W", "R"}, NEW p \in Pipes, NEW n \in Sizes
      PROVE  /\ Listed(log', Items(op, <<p, n>>)', RecordsOf(op, <<p, n>>))
             /\ Ordered(Items(op, <<p, n>>)')
  <2> DEFINE P == RecordsOf(op, <<p, n>>)
             s == Items(op, <<p, n>>)
  <2>1. Items(op, <<p, n>>)' = Put(s, r, P)
    BY <1>1, ItemsRecord
  <2>2. s \in Seq(LogRecords) /\ Listed(log, s, P) /\ Ordered(s)
    BY ItemsType, KeyFacts DEF ItemsInv
  <2>3. ASSUME r \in P, NEW k \in 1..Len(s)
        PROVE  /\ s[k].number < r.number /\ s[k].started <= r.started
               /\ s[k].finished <= r.finished
    <3>1. PICK x : x = s[k]
      OBVIOUS
    <3>2. RecordInv(x) /\ x.operation = op /\ x.pipe_name = p
      BY <3>1, ItemFacts
    <3>3. r.operation = op /\ r.pipe_name = p
      BY <2>3, RecordFacts
    <3>4. Earlier(x, c)
      BY <1>1, <3>2, <3>3 DEF RecordInv, IsOf
    <3> QED BY <1>1, <3>1, <3>2, <3>4 DEF RecordInv, Earlier
  <2> HIDE DEF P, s
  <2>4. Listed(Append(log, r), Put(s, r, P), P)
    BY <1>2, <2>2, ListedAppend
  <2>5. Ordered(Put(s, r, P))
    BY <2>2, <2>3, OrderedAppend
  <2> QED BY ONLY <1>2, <2>1, <2>4, <2>5, Zenon DEF P
<1>4. \A op \in {"W", "R"}, key \in Keys :
        Listed(log', Items(op, key)', RecordsOf(op, key)) /\ Ordered(Items(op, key)')
  BY ONLY <1>3, KeyFacts, Zenon
<1> QED BY <1>4 DEF ItemsInv, Listed, Ordered, RecordsOf

LEMMA ItemsStep ==
  ASSUME BaseInv, LogInv, ItemsInv, [Next]_vars, ~stopped, ~stopped' PROVE ItemsInv'
<1>1. CASE log' = log
  <2>1. \A op \in {"W", "R"}, key \in Keys :
          Listed(log', Items(op, key)', RecordsOf(op, key)) /\ Ordered(Items(op, key)')
    BY ONLY <1>1, ItemsInv, ItemsSame, Zenon DEF ItemsInv
  <2> QED BY <2>1 DEF ItemsInv, Listed, Ordered, RecordsOf
<1>2. log' = log \/ \E c \in Clients : Record(c) /\ request[c].phase = "applied"
  BY StepCases DEF Tick, vars, Submit, Take, Start, Reject
<1> QED BY <1>1, <1>2, RecordItems

-----------------------------------------------------------------------------
(* The flow of the messages of one size.                                   *)

LEMMA OneMore ==
  ASSUME NEW A \in Seq(Nat), NEW B \in Seq(Nat), NEW x \in Nat
  PROVE  /\ A \o <<x>> = Append(A, x) /\ A \o << >> = A /\ << >> \o A = A
         /\ A \o Append(B, x) = Append(A \o B, x)
         /\ <<x>> \in Seq(Nat) /\ << >> \in Seq(Nat)
<1>1. <<x>> \in Seq(Nat) /\ << >> \in Seq(Nat)
  OBVIOUS
<1>2. A \o << >> = A /\ << >> \o A = A
  BY ConcatEmptySeq
<1>3. A \o <<x>> = Append(A, x)
  OBVIOUS
<1>4. A \o Append(B, x) = Append(A \o B, x)
  OBVIOUS
<1> QED BY <1>1, <1>2, <1>3, <1>4

LEMMA FlowAdd ==
  ASSUME NEW A \in Seq(Nat), NEW B \in Seq(Nat), NEW F \in Seq(Nat), NEW C \in Seq(Nat),
         NEW x \in Nat, Flow(A, B, F, C, << >>)
  PROVE  Flow(A, B, Append(F, x), C, <<x>>)
<1>1. PICK G \in Seq(Nat) : G = A \o B
  <2>1. A \o B \in Seq(Nat)
    OBVIOUS
  <2> QED BY ONLY <2>1, Zenon
<1>2. G \o Append(F, x) = Append(G \o F, x)
  BY OneMore, SMTT(30)
<1>3. C \o << >> = C /\ C \o <<x>> = Append(C, x)
  BY OneMore
<1> QED BY ONLY <1>1, <1>2, <1>3, Flow(A, B, F, C, << >>), Zenon DEF Flow

LEMMA FlowMove ==
  ASSUME NEW A \in Seq(Nat), NEW F \in Seq(Nat), NEW C, NEW D,
         NEW x \in Nat, Flow(A, << >>, <<x>> \o F, C, D)
  PROVE  Flow(A, <<x>>, F, C, D)
<1>1. <<x>> \in Seq(Nat) /\ A \o << >> = A
  BY OneMore
<1>2. PICK X \in Seq(Nat) : X = <<x>>
  BY <1>1
<1>3. (A \o X) \o F = A \o (X \o F)
  BY ONLY A \in Seq(Nat), X \in Seq(Nat), F \in Seq(Nat), ConcatAssociative, SMTT(30)
<1> QED BY ONLY <1>1, <1>2, <1>3, Flow(A, << >>, <<x>> \o F, C, D), Zenon DEF Flow

LEMMA FlowRead ==
  ASSUME NEW A \in Seq(Nat), NEW F, NEW C, NEW D, NEW x \in Nat, Flow(A, <<x>>, F, C, D)
  PROVE  Flow(Append(A, x), << >>, F, C, D)
<1>1. PICK B \in Seq(Nat) : B = Append(A, x)
  <2>1. Append(A, x) \in Seq(Nat)
    OBVIOUS
  <2> QED BY ONLY <2>1, Zenon
<1>2. B \o << >> = B /\ A \o <<x>> = Append(A, x)
  BY OneMore
<1> QED BY ONLY <1>1, <1>2, Flow(A, <<x>>, F, C, D), Zenon DEF Flow

LEMMA FlowWrite ==
  ASSUME NEW A, NEW B, NEW F, NEW C \in Seq(Nat), NEW x \in Nat, Flow(A, B, F, C, <<x>>)
  PROVE  Flow(A, B, F, Append(C, x), << >>)
<1>1. PICK D \in Seq(Nat) : D = Append(C, x)
  <2>1. Append(C, x) \in Seq(Nat)
    OBVIOUS
  <2> QED BY ONLY <2>1, Zenon
<1>2. D \o << >> = D /\ C \o <<x>> = Append(C, x)
  BY OneMore
<1> QED BY ONLY <1>1, <1>2, Flow(A, B, F, C, <<x>>), Zenon DEF Flow

LEMMA PendingFacts ==
  ASSUME BaseInv, NEW c \in Clients, NEW n
  PROVE  /\ Pending(c, n) \in Seq(Nat)
         /\ Pending(c, n) = << >> \/ (request[c].phase = "applied" /\ Len(Pending(c, n)) = 1)
         /\ request[c].phase # "applied" \/ request[c].bytes # n => Pending(c, n) = << >>
         /\ request[c].phase = "applied" /\ request[c].bytes = n =>
              Pending(c, n) = <<request[c].message>>
<1>1. request[c].message \in Nat
  BY BaseFacts
<1> QED BY <1>1 DEF Pending

LEMMA PendingNext ==
  ASSUME NEW c, NEW n
  PROVE  /\ request'[c] = request[c] => Pending(c, n)' = Pending(c, n)
         /\ request'[c].phase # "applied" \/ request'[c].bytes # n => Pending(c, n)' = << >>
         /\ request'[c].phase = "applied" /\ request'[c].bytes = n =>
              Pending(c, n)' = <<request'[c].message>>
  BY DEF Pending

LEMMA FlowNext ==
  ASSUME NEW p, NEW n
  PROVE  FlowOf(p, n)' <=>
           Flow(Messages(Items("R", <<p, n>>)'), Pending(<<"R", p>>, n)',
                Idents(Only(fifo'[p], OfSize(n))),
                Messages(Items("W", <<p, n>>)'), Pending(<<"W", p>>, n)')
  BY DEF FlowOf, Flow, Messages, Idents, Through, MessageOf, IdOf, LogRecords, FifoItems,
         Only, OfSize

\* What each part of the flow is made of.
LEMMA FlowTypes ==
  ASSUME BaseInv, NEW p \in Pipes, NEW n \in Sizes
  PROVE  /\ Messages(Items("R", <<p, n>>)) \in Seq(Nat)
         /\ Messages(Items("W", <<p, n>>)) \in Seq(Nat)
         /\ Len(Messages(Items("R", <<p, n>>))) = Len(Items("R", <<p, n>>))
         /\ Len(Messages(Items("W", <<p, n>>))) = Len(Items("W", <<p, n>>))
         /\ Pending(<<"R", p>>, n) \in Seq(Nat) /\ Pending(<<"W", p>>, n) \in Seq(Nat)
         /\ Only(fifo[p], OfSize(n)) \in Seq(FifoItems)
         /\ Idents(Only(fifo[p], OfSize(n))) \in Seq(Nat)
<1>1. \A s \in Seq(LogRecords) : Messages(s) \in Seq(Nat) /\ Len(Messages(s)) = Len(s)
  <2>1. MessageOf \in [LogRecords -> Nat]
    BY DEF MessageOf, LogRecords
  <2> QED BY <2>1, ThroughType DEF Messages
<1>2. \A s \in Seq(FifoItems) : Idents(s) \in Seq(Nat)
  <2>1. IdOf \in [FifoItems -> Nat]
    BY DEF IdOf, FifoItems
  <2> QED BY <2>1, ThroughType DEF Idents
<1>3. Only(fifo[p], OfSize(n)) \in Seq(FifoItems)
  BY BaseFacts, OnlyType
<1> QED BY <1>1, <1>2, <1>3, ItemsType, PendingFacts, ClientFacts

LEMMA FlowSame ==
  ASSUME NEW p, NEW n, FlowOf(p, n),
         Items("R", <<p, n>>)' = Items("R", <<p, n>>),
         Items("W", <<p, n>>)' = Items("W", <<p, n>>),
         Pending(<<"R", p>>, n)' = Pending(<<"R", p>>, n),
         Pending(<<"W", p>>, n)' = Pending(<<"W", p>>, n),
         Only(fifo'[p], OfSize(n)) = Only(fifo[p], OfSize(n))
  PROVE  FlowOf(p, n)'
<1>1. Flow(Messages(Items("R", <<p, n>>)'), Pending(<<"R", p>>, n)',
           Idents(Only(fifo'[p], OfSize(n))),
           Messages(Items("W", <<p, n>>)'), Pending(<<"W", p>>, n)')
  BY Zenon DEF FlowOf
<1> QED BY <1>1, FlowNext

\* A request that is started or given up.
LEMMA CallFlow ==
  ASSUME BaseInv, FlowInv, NEW c \in Clients, request[c].phase # "applied",
         request'[c].phase # "applied", \A d \in Clients \ {c} : request'[d] = request[d],
         UNCHANGED <<fifo, log>>
  PROVE  FlowInv'
<1>1. ASSUME NEW p \in Pipes, NEW n \in Sizes PROVE FlowOf(p, n)'
  <2>1. FlowOf(p, n)
    BY DEF FlowInv
  <2>2. ASSUME NEW d \in Clients PROVE Pending(d, n)' = Pending(d, n)
    BY PendingFacts, PendingNext
  <2>3. <<"R", p>> \in Clients /\ <<"W", p>> \in Clients
    BY ClientFacts
  <2> QED BY <2>1, <2>2, <2>3, ItemsSame, FlowSame
<1> QED BY <1>1 DEF FlowInv

\* The pipes that a step on pipe p leaves alone.
LEMMA OtherFlow ==
  ASSUME BaseInv, FlowInv, NEW p \in Pipes, NEW c \in Clients, c[2] = p,
         \A d \in Clients \ {c} : request'[d] = request[d],
         \A q \in Pipes \ {p} : fifo'[q] = fifo[q], log' = log,
         \A n \in Sizes : FlowOf(p, n)'
  PROVE  FlowInv'
<1>1. ASSUME NEW q \in Pipes, NEW n \in Sizes PROVE FlowOf(q, n)'
  <2>1. CASE q # p
    <3>1. FlowOf(q, n)
      BY DEF FlowInv
    <3>2. <<"R", q>> \in Clients \ {c} /\ <<"W", q>> \in Clients \ {c}
      BY <2>1, ClientFacts
    <3>3. request'[<<"R", q>>] = request[<<"R", q>>] /\ request'[<<"W", q>>] = request[<<"W", q>>]
      BY <3>2
    <3>4. fifo'[q] = fifo[q]
      BY <2>1
    <3> QED BY <3>1, <3>3, <3>4, PendingNext, ItemsSame, FlowSame
  <2> QED BY <2>1
<1> QED BY <1>1 DEF FlowInv

LEMMA SubmitFlow ==
  ASSUME BaseInv, FlowInv, NEW p \in Pipes, Submit(p) PROVE FlowInv'
<1> DEFINE w == <<"W", p>>
           m == [id |-> ops[w], bytes |-> request[w].bytes]
<1>1. /\ request[w].phase = "started" /\ fifo' = [fifo EXCEPT ![p] = Append(@, m)]
      /\ request' = [request EXCEPT ![w] = Applied(@, ops[w])] /\ log' = log
  BY DEF Submit
<1>2. w \in Clients /\ ops[w] \in Nat /\ request[w] \in Requests /\ w[2] = p
  BY ClientFacts, BaseFacts
<1>3. m \in FifoItems /\ m.id = ops[w] /\ \A n : m \in OfSize(n) <=> request[w].bytes = n
  BY <1>2, BaseFacts DEF FifoItems, OfSize
<1> HIDE DEF m
<1>4. /\ request'[w].phase = "applied" /\ request'[w].bytes = request[w].bytes
      /\ request'[w].message = ops[w] /\ fifo'[p] = Append(fifo[p], m)
      /\ \A d \in Clients \ {w} : request'[d] = request[d]
      /\ \A q \in Pipes \ {p} : fifo'[q] = fifo[q]
  <2>1. /\ request'[w] = Applied(request[w], ops[w])
        /\ \A d \in Clients \ {w} : request'[d] = request[d]
    BY <1>1, <1>2, BaseFacts
  <2>2. fifo'[p] = Append(fifo[p], m) /\ \A q \in Pipes \ {p} : fifo'[q] = fifo[q]
    BY <1>1, BaseFacts
  <2>3. PICK q : q = request'[w]
    OBVIOUS
  <2>4. q.phase = "applied" /\ q.bytes = request[w].bytes /\ q.message = ops[w]
    BY ONLY <2>1, <2>3 DEF Applied
  <2> QED BY ONLY <2>1, <2>2, <2>3, <2>4, Zenon
<1>5. ASSUME NEW n \in Sizes PROVE FlowOf(p, n)'
  <2>1. FlowOf(p, n)
    BY DEF FlowInv
  <2> DEFINE O == Only(fifo[p], OfSize(n))
  <2>2. Only(fifo'[p], OfSize(n)) = Put(O, m, OfSize(n))
    BY <1>3, <1>4, OnlyAppend, BaseFacts
  <2>3. Pending(w, n) = << >>
    BY <1>1, <1>2, PendingFacts
  <2>4. <<"R", p>> \in Clients \ {w}
    BY ClientFacts
  <2>5. Pending(<<"R", p>>, n)' = Pending(<<"R", p>>, n)
    BY <1>4, <2>4, PendingNext
  <2>6. /\ Items("R", <<p, n>>)' = Items("R", <<p, n>>)
        /\ Items("W", <<p, n>>)' = Items("W", <<p, n>>)
    BY <1>1, ItemsSame
  <2>7. CASE request[w].bytes # n
    <3>1. Only(fifo'[p], OfSize(n)) = O
      BY <1>3, <2>2, <2>7 DEF Put
    <3>2. Pending(w, n)' = Pending(w, n)
      BY <1>4, <2>3, <2>7, PendingNext
    <3> QED BY <2>1, <2>5, <2>6, <3>1, <3>2, FlowSame
  <2>8. CASE request[w].bytes = n
    <3>1. PICK x \in Nat : x = ops[w]
      BY <1>2
    <3>2. Pending(w, n)' = <<x>>
      BY <1>4, <2>8, <3>1, PendingNext
    <3>3. Only(fifo'[p], OfSize(n)) = Append(O, m) /\ O \in Seq(FifoItems)
      BY <1>3, <2>2, <2>8, FlowTypes DEF Put
    <3> HIDE DEF O
    <3>4. Idents(Only(fifo'[p], OfSize(n))) = Append(Idents(O), x)
      BY <1>3, <3>1, <3>3, IdentsFacts
    <3>5. Flow(Messages(Items("R", <<p, n>>)), Pending(<<"R", p>>, n), Append(Idents(O), x),
               Messages(Items("W", <<p, n>>)), <<x>>)
      <4>1. Flow(Messages(Items("R", <<p, n>>)), Pending(<<"R", p>>, n), Idents(O),
                 Messages(Items("W", <<p, n>>)), << >>)
        BY ONLY <2>1, <2>3, Zenon DEF FlowOf, O
      <4>2. /\ Messages(Items("R", <<p, n>>)) \in Seq(Nat)
            /\ Messages(Items("W", <<p, n>>)) \in Seq(Nat)
            /\ Pending(<<"R", p>>, n) \in Seq(Nat) /\ Idents(O) \in Seq(Nat)
        BY FlowTypes DEF O
      <4> QED BY ONLY <4>1, <4>2, x \in Nat, FlowAdd
    <3>6. Flow(Messages(Items("R", <<p, n>>)'), Pending(<<"R", p>>, n)',
               Idents(Only(fifo'[p], OfSize(n))),
               Messages(Items("W", <<p, n>>)'), Pending(w, n)')
      BY ONLY <2>5, <2>6, <3>2, <3>4, <3>5, Zenon
    <3> QED BY ONLY <3>6, FlowNext, Zenon
  <2> QED BY <2>7, <2>8
<1> HIDE DEF w
<1> QED BY <1>1, <1>2, <1>4, <1>5, OtherFlow

LEMMA TakeFlow ==
  ASSUME BaseInv, FlowInv, NEW p \in Pipes, Take(p) PROVE FlowInv'
<1> DEFINE r == <<"R", p>>
<1>1. /\ request[r].phase = "started" /\ fifo[p] # << >>
      /\ Head(fifo[p]).bytes = request[r].bytes /\ fifo' = [fifo EXCEPT ![p] = Tail(@)]
      /\ request' = [request EXCEPT ![r] = Applied(@, Head(fifo[p]).id)] /\ log' = log
  BY DEF Take
<1>2. r \in Clients /\ request[r] \in Requests /\ r[2] = p /\ fifo[p] \in Seq(FifoItems)
  BY ClientFacts, BaseFacts
<1>3. PICK m \in FifoItems : m = Head(fifo[p])
  BY <1>1, <1>2
<1>4. m.id \in Nat /\ m.bytes = request[r].bytes
      /\ \A n : m \in OfSize(n) <=> request[r].bytes = n
  BY <1>1, <1>3 DEF FifoItems, OfSize
<1>5. /\ request'[r].phase = "applied" /\ request'[r].bytes = request[r].bytes
      /\ request'[r].message = m.id /\ fifo'[p] = Tail(fifo[p])
      /\ \A d \in Clients \ {r} : request'[d] = request[d]
      /\ \A q \in Pipes \ {p} : fifo'[q] = fifo[q]
  <2>1. /\ request'[r] = Applied(request[r], m.id)
        /\ \A d \in Clients \ {r} : request'[d] = request[d]
    BY <1>1, <1>2, <1>3, BaseFacts
  <2>2. fifo'[p] = Tail(fifo[p]) /\ \A q \in Pipes \ {p} : fifo'[q] = fifo[q]
    BY <1>1, BaseFacts
  <2>3. PICK q : q = request'[r]
    OBVIOUS
  <2>4. q.phase = "applied" /\ q.bytes = request[r].bytes /\ q.message = m.id
    BY ONLY <2>1, <2>3 DEF Applied
  <2> QED BY ONLY <2>1, <2>2, <2>3, <2>4, Zenon
<1>6. ASSUME NEW n \in Sizes PROVE FlowOf(p, n)'
  <2>1. FlowOf(p, n)
    BY DEF FlowInv
  <2> DEFINE O == Only(fifo'[p], OfSize(n))
  <2>2. Only(fifo[p], OfSize(n)) = First(fifo[p], OfSize(n)) \o O
    BY <1>1, <1>2, <1>5, OnlyTail, SMTT(30)
  <2>3. Pending(r, n) = << >>
    BY <1>1, <1>2, PendingFacts
  <2>4. <<"W", p>> \in Clients \ {r}
    BY ClientFacts
  <2>5. Pending(<<"W", p>>, n)' = Pending(<<"W", p>>, n)
    BY <1>5, <2>4, PendingNext
  <2>6. /\ Items("R", <<p, n>>)' = Items("R", <<p, n>>)
        /\ Items("W", <<p, n>>)' = Items("W", <<p, n>>)
    BY <1>1, ItemsSame
  <2>7. O \in Seq(FifoItems)
    <3>1. Tail(fifo[p]) \in Seq(FifoItems)
      BY <1>1, <1>2
    <3> QED BY <1>5, <3>1, OnlyType
  <2> HIDE DEF O
  <2>8. CASE request[r].bytes # n
    <3>1. First(fifo[p], OfSize(n)) = << >>
      BY <1>3, <1>4, <2>8 DEF First
    <3>2. << >> \o O = O
      BY <2>7, ConcatEmptySeq
    <3>3. Only(fifo'[p], OfSize(n)) = Only(fifo[p], OfSize(n))
      BY ONLY <2>2, <3>1, <3>2, Zenon DEF O
    <3>4. Pending(r, n)' = Pending(r, n)
      BY <1>5, <2>3, <2>8, PendingNext
    <3> QED BY <2>1, <2>5, <2>6, <3>3, <3>4, FlowSame
  <2>9. CASE request[r].bytes = n
    <3>1. PICK x \in Nat : x = m.id
      BY <1>4
    <3>2. Pending(r, n)' = <<x>>
      BY <1>5, <2>9, <3>1, PendingNext
    <3>3. First(fifo[p], OfSize(n)) = <<m>>
      BY <1>3, <1>4, <2>9 DEF First
    <3>4. Idents(<<m>> \o O) = <<x>> \o Idents(O)
      BY <2>7, <3>1, IdentsFacts
    <3>5. Idents(Only(fifo[p], OfSize(n))) = <<x>> \o Idents(O)
      BY ONLY <2>2, <3>3, <3>4, Zenon
    <3>6. Flow(Messages(Items("R", <<p, n>>)), <<x>>, Idents(O),
               Messages(Items("W", <<p, n>>)), Pending(<<"W", p>>, n))
      <4>1. Flow(Messages(Items("R", <<p, n>>)), << >>, <<x>> \o Idents(O),
                 Messages(Items("W", <<p, n>>)), Pending(<<"W", p>>, n))
        BY ONLY <2>1, <2>3, <3>5, Zenon DEF FlowOf
      <4>2. Messages(Items("R", <<p, n>>)) \in Seq(Nat) /\ Idents(O) \in Seq(Nat)
        BY <1>3, <2>7, FlowTypes, IdentsFacts
      <4> QED BY ONLY <4>1, <4>2, x \in Nat, FlowMove
    <3>7. Flow(Messages(Items("R", <<p, n>>)'), Pending(r, n)',
               Idents(Only(fifo'[p], OfSize(n))),
               Messages(Items("W", <<p, n>>)'), Pending(<<"W", p>>, n)')
      BY ONLY <2>5, <2>6, <3>2, <3>6, Zenon DEF O
    <3> QED BY ONLY <3>7, FlowNext, Zenon
  <2> QED BY <2>8, <2>9
<1> HIDE DEF r
<1> QED BY <1>1, <1>2, <1>5, <1>6, OtherFlow

\* Which list a new record enters.
LEMMA RecordEnters ==
  ASSUME BaseInv, NEW c \in Clients, Record(c), request[c].phase = "applied",
         NEW op, NEW p \in Pipes, NEW n \in Sizes
  PROVE  /\ c = <<op, p>> /\ request[c].bytes = n =>
              Items(op, <<p, n>>)' = Append(Items(op, <<p, n>>), MetricRecord(c))
         /\ ~(c = <<op, p>> /\ request[c].bytes = n) =>
              Items(op, <<p, n>>)' = Items(op, <<p, n>>)
<1>1. PICK r \in LogRecords :
        /\ r = MetricRecord(c) /\ r.operation = c[1] /\ r.pipe_name = c[2]
        /\ r.bytes = request[c].bytes
  BY NewRecord
<1>2. c = <<c[1], c[2]>>
  BY ClientFacts
<1>3. r \in RecordsOf(op, <<p, n>>) <=> c = <<op, p>> /\ request[c].bytes = n
  <2>1. r \in RecordsOf(op, <<p, n>>) <=> c[1] = op /\ c[2] = p /\ request[c].bytes = n
    BY <1>1, RecordFacts
  <2>2. c = <<op, p>> <=> c[1] = op /\ c[2] = p
    BY <1>2
  <2> QED BY <2>1, <2>2
<1>4. Items(op, <<p, n>>)' = Put(Items(op, <<p, n>>), r, RecordsOf(op, <<p, n>>))
  BY <1>1, ItemsRecord
<1> QED BY <1>1, <1>3, <1>4 DEF Put

LEMMA RecordRequest ==
  ASSUME BaseInv, NEW c \in Clients, Record(c)
  PROVE  /\ request'[c] = Idle /\ \A d \in Clients \ {c} : request'[d] = request[d]
         /\ UNCHANGED <<now, ops, fifo>>
  BY BaseFacts DEF Record

LEMMA RecordFlow ==
  ASSUME BaseInv, FlowInv, NEW c \in Clients, Record(c), request[c].phase = "applied"
  PROVE  FlowInv'
<1>1. ASSUME NEW p \in Pipes, NEW n \in Sizes PROVE FlowOf(p, n)'
  <2> DEFINE A == Messages(Items("R", <<p, n>>))
             C == Messages(Items("W", <<p, n>>))
             F == Idents(Only(fifo[p], OfSize(n)))
             B == Pending(<<"R", p>>, n)
             D == Pending(<<"W", p>>, n)
  <2>1. FlowOf(p, n) /\ Flow(A, B, F, C, D)
    BY DEF FlowInv, FlowOf
  <2>2. Only(fifo'[p], OfSize(n)) = Only(fifo[p], OfSize(n)) /\ fifo' = fifo
    BY RecordRequest
  <2>3. /\ <<"R", p>> \in Clients /\ <<"W", p>> \in Clients /\ <<"R", p>> # <<"W", p>>
        /\ Idle.phase # "applied"
    BY ClientFacts, RecordTypes
  <2>4. PICK r \in LogRecords : r = MetricRecord(c) /\ r.message = request[c].message
    BY NewRecord
  <2>5. PICK x \in Nat : x = r.message
    BY <2>4 DEF LogRecords
  <2>6. ASSUME NEW d \in Clients
        PROVE  /\ d # c \/ request[c].bytes # n => Pending(d, n)' = Pending(d, n)
               /\ d = c /\ request[c].bytes = n =>
                    Pending(d, n)' = << >> /\ Pending(d, n) = <<x>>
    BY <2>3, <2>4, <2>5, RecordRequest, PendingFacts, PendingNext
  <2>7. CASE request[c].bytes # n \/ c \notin {<<"R", p>>, <<"W", p>>}
    <3>1. /\ Items("R", <<p, n>>)' = Items("R", <<p, n>>)
          /\ Items("W", <<p, n>>)' = Items("W", <<p, n>>)
      <4>1. /\ ~(c = <<"R", p>> /\ request[c].bytes = n)
            /\ ~(c = <<"W", p>> /\ request[c].bytes = n)
        BY <2>7
      <4>2. Items("R", <<p, n>>)' = Items("R", <<p, n>>)
        BY <4>1, RecordEnters
      <4>3. Items("W", <<p, n>>)' = Items("W", <<p, n>>)
        BY <4>1, RecordEnters
      <4> QED BY <4>2, <4>3
    <3>2. Pending(<<"R", p>>, n)' = B /\ Pending(<<"W", p>>, n)' = D
      BY <2>3, <2>6, <2>7
    <3> QED BY <2>1, <2>2, <3>1, <3>2, FlowSame
  <2>8. CASE request[c].bytes = n /\ c = <<"R", p>>
    <3>1. /\ Items("R", <<p, n>>)' = Append(Items("R", <<p, n>>), r)
          /\ Items("W", <<p, n>>)' = Items("W", <<p, n>>)
      BY <2>3, <2>4, <2>8, RecordEnters
    <3>2. Pending(<<"R", p>>, n)' = << >> /\ B = <<x>> /\ Pending(<<"W", p>>, n)' = D
      BY <2>3, <2>6, <2>8
    <3>3. Messages(Items("R", <<p, n>>)') = Append(A, x) /\ A \in Seq(Nat)
      BY <2>5, <3>1, MessagesFacts, ItemsType
    <3> HIDE DEF A, B, C, D, F
    <3>4. Flow(Append(A, x), << >>, F, C, D)
      <4>1. Flow(A, <<x>>, F, C, D)
        BY ONLY <2>1, <3>2, Zenon
      <4> QED BY ONLY <3>3, <4>1, x \in Nat, FlowRead
    <3>5. Flow(Messages(Items("R", <<p, n>>)'), Pending(<<"R", p>>, n)',
               Idents(Only(fifo'[p], OfSize(n))),
               Messages(Items("W", <<p, n>>)'), Pending(<<"W", p>>, n)')
      BY ONLY <2>2, <3>1, <3>2, <3>3, <3>4, Zenon DEF C, F
    <3> QED BY ONLY <3>5, FlowNext, Zenon
  <2>9. CASE request[c].bytes = n /\ c = <<"W", p>>
    <3>1. /\ Items("W", <<p, n>>)' = Append(Items("W", <<p, n>>), r)
          /\ Items("R", <<p, n>>)' = Items("R", <<p, n>>)
      BY <2>3, <2>4, <2>9, RecordEnters
    <3>2. Pending(<<"W", p>>, n)' = << >> /\ D = <<x>> /\ Pending(<<"R", p>>, n)' = B
      BY <2>3, <2>6, <2>9
    <3>3. Messages(Items("W", <<p, n>>)') = Append(C, x) /\ C \in Seq(Nat)
      BY <2>5, <3>1, MessagesFacts, ItemsType
    <3> HIDE DEF A, B, C, D, F
    <3>4. Flow(A, B, F, Append(C, x), << >>)
      <4>1. Flow(A, B, F, C, <<x>>)
        BY ONLY <2>1, <3>2, Zenon
      <4> QED BY ONLY <3>3, <4>1, x \in Nat, FlowWrite
    <3>5. Flow(Messages(Items("R", <<p, n>>)'), Pending(<<"R", p>>, n)',
               Idents(Only(fifo'[p], OfSize(n))),
               Messages(Items("W", <<p, n>>)'), Pending(<<"W", p>>, n)')
      BY ONLY <2>2, <3>1, <3>2, <3>3, <3>4, Zenon DEF A, F
    <3> QED BY ONLY <3>5, FlowNext, Zenon
  <2> QED BY <2>7, <2>8, <2>9
<1> QED BY <1>1 DEF FlowInv

LEMMA StartRequest ==
  ASSUME BaseInv, NEW c \in Clients, NEW n \in Sizes, Start(c, n)
  PROVE  /\ request[c].phase = "idle" /\ request'[c].phase = "started"
         /\ request'[c].started = now
         /\ \A d \in Clients \ {c} : request'[d] = request[d]
         /\ UNCHANGED <<now, fifo, log>>
  BY BaseFacts DEF Start

LEMMA RejectRequest ==
  ASSUME BaseInv, NEW c \in Clients, Reject(c)
  PROVE  /\ request[c].phase = "started" /\ request'[c] = Idle
         /\ \A d \in Clients \ {c} : request'[d] = request[d]
         /\ UNCHANGED <<now, fifo, log>>
  BY BaseFacts DEF Reject

LEMMA FlowStep ==
  ASSUME BaseInv, FlowInv, [Next]_vars, ~stopped, ~stopped' PROVE FlowInv'
<1>1. CASE Tick \/ UNCHANGED vars
  <2>1. UNCHANGED <<request, fifo, log>>
    BY <1>1 DEF Tick, vars
  <2>2. ASSUME NEW p \in Pipes, NEW n \in Sizes PROVE FlowOf(p, n)'
    <3>1. FlowOf(p, n)
      BY DEF FlowInv
    <3> QED BY <2>1, <3>1, ItemsSame, PendingNext, FlowSame
  <2> QED BY <2>2 DEF FlowInv
<1>2. \A c \in Clients, n \in Sizes : Start(c, n) => FlowInv'
  BY StartRequest, CallFlow
<1>3. \A c \in Clients : Reject(c) => FlowInv'
  BY RejectRequest, CallFlow, RecordTypes
<1> QED BY <1>1, <1>2, <1>3, StepCases, SubmitFlow, TakeFlow, RecordFlow

-----------------------------------------------------------------------------
(* Reads and the writes they wait for.                                     *)

LEMMA AheadNext ==
  ASSUME NEW p, NEW n
  PROVE  AheadOf(p, n)' <=> Ahead(Items("R", <<p, n>>)', Items("W", <<p, n>>)',
                                  request'[<<"W", p>>].started)
  BY DEF AheadOf, Ahead

LEMMA Lengths ==
  ASSUME NEW A \in Seq(Nat), NEW B \in Seq(Nat), NEW F \in Seq(Nat), NEW C \in Seq(Nat),
         NEW D \in Seq(Nat), Flow(A, B, F, C, D)
  PROVE  /\ (Len(A) + Len(B)) + Len(F) = Len(C) + Len(D)
         /\ Len(A) \in Nat /\ Len(B) \in Nat /\ Len(C) \in Nat /\ Len(D) \in Nat
         /\ Len(F) \in Nat
         /\ (D = << >> => Len(A) <= Len(C)) /\ (Len(D) = 1 => Len(A) <= Len(C) + 1)
<1>1. Len((A \o B) \o F) = (Len(A) + Len(B)) + Len(F) /\ Len(C \o D) = Len(C) + Len(D)
  OBVIOUS
<1>2. (Len(A) + Len(B)) + Len(F) = Len(C) + Len(D)
  BY <1>1 DEF Flow
<1>3. /\ Len(A) \in Nat /\ Len(B) \in Nat /\ Len(C) \in Nat /\ Len(D) \in Nat
      /\ Len(F) \in Nat /\ (D = << >> => Len(D) = 0)
  OBVIOUS
<1>4. PICK a \in Nat, b \in Nat, c \in Nat, d \in Nat, e \in Nat :
        a = Len(A) /\ b = Len(B) /\ c = Len(F) /\ d = Len(C) /\ e = Len(D)
  BY ONLY <1>3, Zenon
<1>5. (a + b) + c = d + e => (e = 0 => a <= d) /\ (e = 1 => a <= d + 1)
  OBVIOUS
<1> QED BY ONLY <1>2, <1>3, <1>4, <1>5

\* A read is never more than one record ahead of the writes of its size, and
\* only when that write has been applied.
LEMMA FlowLengths ==
  ASSUME BaseInv, FlowInv, NEW p \in Pipes, NEW n \in Sizes
  PROVE  /\ Len(Items("R", <<p, n>>)) \in Nat /\ Len(Items("W", <<p, n>>)) \in Nat
         /\ Len(Items("R", <<p, n>>)) <= Len(Items("W", <<p, n>>)) + 1
         /\ Pending(<<"W", p>>, n) = << >> =>
              Len(Items("R", <<p, n>>)) <= Len(Items("W", <<p, n>>))
<1> DEFINE A == Messages(Items("R", <<p, n>>))
           C == Messages(Items("W", <<p, n>>))
           F == Idents(Only(fifo[p], OfSize(n)))
           B == Pending(<<"R", p>>, n)
           D == Pending(<<"W", p>>, n)
<1>1. Flow(A, B, F, C, D)
  BY DEF FlowInv, FlowOf
<1>2. /\ A \in Seq(Nat) /\ B \in Seq(Nat) /\ C \in Seq(Nat) /\ D \in Seq(Nat) /\ F \in Seq(Nat)
      /\ Len(A) = Len(Items("R", <<p, n>>)) /\ Len(C) = Len(Items("W", <<p, n>>))
  BY FlowTypes
<1>3. D = << >> \/ Len(D) = 1
  BY ClientFacts, PendingFacts
<1> HIDE DEF A, B, C, D, F
<1>4. /\ Len(A) \in Nat /\ Len(C) \in Nat
      /\ (D = << >> => Len(A) <= Len(C)) /\ (Len(D) = 1 => Len(A) <= Len(C) + 1)
  BY ONLY <1>1, <1>2, Lengths
<1>5. Len(A) \in Nat /\ Len(C) \in Nat /\ Len(A) <= Len(C) + 1 /\ (D = << >> => Len(A) <= Len(C))
  <2>1. PICK a \in Nat, e \in Nat : a = Len(A) /\ e = Len(C)
    BY ONLY <1>4, Zenon
  <2>2. a <= e => a <= e + 1
    OBVIOUS
  <2> QED BY ONLY <1>3, <1>4, <2>1, <2>2, Zenon
<1> QED BY ONLY <1>2, <1>5, Zenon DEF D

\* The lists stay as they are, and the start of the writer's request does
\* not matter or does not grow.
LEMMA AheadSame ==
  ASSUME BaseInv, ItemsInv, LogInv, FlowInv, AheadInv, BaseInv',
         NEW p \in Pipes, NEW n \in Sizes,
         Items("R", <<p, n>>)' = Items("R", <<p, n>>),
         Items("W", <<p, n>>)' = Items("W", <<p, n>>),
         \/ request'[<<"W", p>>].started = request[<<"W", p>>].started
         \/ request'[<<"W", p>>].started = 0
         \/ request[<<"W", p>>].phase = "idle"
  PROVE  AheadOf(p, n)'
<1> DEFINE R == Items("R", <<p, n>>)
           W == Items("W", <<p, n>>)
           w == <<"W", p>>
<1>1. Ahead(R, W, request[w].started)
  BY DEF AheadInv, AheadOf
<1>2. Len(R) \in Nat /\ Len(W) \in Nat
  BY FlowLengths
<1>3. request[w].phase = "idle" => Len(R) <= Len(W)
  <2>1. request[w].phase = "idle" => Pending(w, n) = << >>
    BY PendingFacts, ClientFacts
  <2> QED BY <2>1, FlowLengths
<1>4. ASSUME NEW k \in 1..Len(R) PROVE R[k].finished \in Nat
  BY ItemFacts DEF LogRecords
<1> HIDE DEF R, W
<1>5. Ahead(R, W, request'[w].started)
  BY <1>1, <1>2, <1>3, <1>4 DEF Ahead
<1>6. Ahead(Items("R", <<p, n>>)', Items("W", <<p, n>>)', request'[<<"W", p>>].started)
  BY ONLY <1>5, Items("R", <<p, n>>)' = Items("R", <<p, n>>),
          Items("W", <<p, n>>)' = Items("W", <<p, n>>), Zenon DEF R, W
<1> QED BY <1>6, AheadNext

\* No step but Record changes the lists.
LEMMA SameAhead ==
  ASSUME BaseInv, ItemsInv, LogInv, FlowInv, AheadInv, BaseInv', log' = log,
         \A c \in Clients : \/ request'[c].started = request[c].started
                            \/ request'[c].started = 0
                            \/ request[c].phase = "idle"
  PROVE  AheadInv'
<1>1. ASSUME NEW p \in Pipes, NEW n \in Sizes PROVE AheadOf(p, n)'
  <2>1. <<"W", p>> \in Clients
    BY ClientFacts
  <2>2. /\ Items("R", <<p, n>>)' = Items("R", <<p, n>>)
        /\ Items("W", <<p, n>>)' = Items("W", <<p, n>>)
    BY ItemsSame
  <2> QED BY <2>1, <2>2, AheadSame
<1> QED BY <1>1 DEF AheadInv

LEMMA RecordAhead ==
  ASSUME BaseInv, ItemsInv, LogInv, FlowInv, AheadInv, BaseInv', NEW c \in Clients,
         Record(c), request[c].phase = "applied"
  PROVE  AheadInv'
<1>1. ASSUME NEW p \in Pipes, NEW n \in Sizes PROVE AheadOf(p, n)'
  <2> DEFINE R == Items("R", <<p, n>>)
             W == Items("W", <<p, n>>)
             w == <<"W", p>>
  <2>1. PICK x \in LogRecords : /\ x = MetricRecord(c) /\ x.started = request[c].started
                                /\ x.finished = now
    BY NewRecord
  <2>2. Ahead(R, W, request[w].started)
    BY DEF AheadInv, AheadOf
  <2>3. Len(R) \in Nat /\ Len(W) \in Nat /\ Len(R) <= Len(W) + 1
    BY FlowLengths
  <2>4. ASSUME NEW k \in 1..Len(W) PROVE W[k].started <= now
    <3>1. PICK y : y = W[k]
      OBVIOUS
    <3>2. y \in LogRecords /\ RecordInv(y)
      BY <3>1, ItemFacts
    <3>3. y.started <= y.finished /\ y.finished <= now
      BY <3>2 DEF RecordInv
    <3>4. y.started \in Nat /\ y.finished \in Nat /\ now \in Nat
      BY <3>2, BaseFacts DEF LogRecords
    <3> QED BY ONLY <3>1, <3>3, <3>4
  <2>5. w \in Clients /\ request[w].started <= now
    BY ClientFacts DEF BaseInv, CallInv
  <2>6. request'[c].started = 0 /\ \A d \in Clients \ {c} : request'[d] = request[d]
    BY RecordRequest, RecordTypes
  <2>7. R \in Seq(LogRecords) /\ W \in Seq(LogRecords)
    BY ItemsType
  <2>8. CASE request[c].bytes # n \/ c \notin {<<"R", p>>, <<"W", p>>}
    <3>1. /\ ~(c = <<"R", p>> /\ request[c].bytes = n)
          /\ ~(c = <<"W", p>> /\ request[c].bytes = n)
      BY <2>8
    <3>2. Items("R", <<p, n>>)' = Items("R", <<p, n>>)
      BY <3>1, RecordEnters
    <3>3. Items("W", <<p, n>>)' = Items("W", <<p, n>>)
      BY <3>1, RecordEnters
    <3> QED BY <2>5, <2>6, <3>2, <3>3, AheadSame
  <2>9. CASE request[c].bytes = n /\ c = <<"R", p>>
    <3>1. c # w
      BY <2>9
    <3>2. Items("R", <<p, n>>)' = Append(R, x)
      BY <2>1, <2>9, RecordEnters
    <3>3. Items("W", <<p, n>>)' = W
      BY <2>9, <3>1, RecordEnters
    <3>4. request'[w].started = request[w].started
      BY <2>5, <2>6, <3>1
    <3> HIDE DEF R, W, w
    <3>5. PICK u : u = Append(R, x)
      OBVIOUS
    <3>6. Len(u) = Len(R) + 1 /\ u[Len(R) + 1] = x /\ \A k \in 1..Len(R) : u[k] = R[k]
      BY ONLY <2>7, <3>5, x \in LogRecords, AppendProperties
    <3>7. ASSUME NEW k \in 1..Len(u)
          PROVE  /\ k <= Len(W) => W[k].started <= u[k].finished
                 /\ k = Len(W) + 1 => request[w].started <= u[k].finished
      <4>1. CASE k \in 1..Len(R)
        BY <2>2, <3>6, <4>1 DEF Ahead
      <4>2. CASE k = Len(R) + 1
        <5>1. u[k].finished = now
          BY <2>1, <3>6, <4>2
        <5>2. k <= Len(W) => k \in 1..Len(W)
          BY <2>3, <4>2
        <5> QED BY <2>4, <2>5, <5>1, <5>2
      <4> QED BY <2>3, <3>6, <4>1, <4>2
    <3>8. Ahead(u, W, request[w].started)
      BY ONLY <3>7, Zenon DEF Ahead
    <3>9. Ahead(Items("R", <<p, n>>)', Items("W", <<p, n>>)', request'[w].started)
      BY ONLY <3>2, <3>3, <3>4, <3>5, <3>8, Zenon
    <3> QED BY <3>9, AheadNext DEF w
  <2>10. CASE request[c].bytes = n /\ c = <<"W", p>>
    <3>1. c # <<"R", p>> /\ c = w
      BY <2>10
    <3>2. Items("W", <<p, n>>)' = Append(W, x)
      BY <2>1, <2>10, RecordEnters
    <3>3. Items("R", <<p, n>>)' = R
      BY <2>10, <3>1, RecordEnters
    <3> HIDE DEF R, W, w
    <3>5. PICK u : u = Append(W, x)
      OBVIOUS
    <3>6. Len(u) = Len(W) + 1 /\ u[Len(W) + 1] = x /\ \A k \in 1..Len(W) : u[k] = W[k]
      BY ONLY <2>7, <3>5, x \in LogRecords, AppendProperties
    <3>7. ASSUME NEW k \in 1..Len(R)
          PROVE  /\ k <= Len(u) => u[k].started <= R[k].finished
                 /\ k = Len(u) + 1 => request'[w].started <= R[k].finished
      <4>1. CASE k \in 1..Len(W)
        BY <2>2, <2>3, <3>6, <4>1 DEF Ahead
      <4>2. CASE k = Len(W) + 1
        <5>1. u[k].started = request[w].started
          BY <2>1, <3>1, <3>6, <4>2
        <5>2. request[w].started <= R[k].finished
          BY <2>2, <4>2 DEF Ahead
        <5> QED BY <2>3, <3>6, <4>2, <5>1, <5>2
      <4> QED BY <2>3, <4>1, <4>2
    <3>8. Ahead(R, u, request'[w].started)
      BY ONLY <3>7, Zenon DEF Ahead
    <3>9. Ahead(Items("R", <<p, n>>)', Items("W", <<p, n>>)', request'[w].started)
      BY ONLY <3>2, <3>3, <3>5, <3>8, Zenon
    <3> QED BY <3>9, AheadNext DEF w
  <2> QED BY <2>8, <2>9, <2>10
<1> QED BY <1>1 DEF AheadInv

LEMMA AheadStep ==
  ASSUME BaseInv, ItemsInv, LogInv, FlowInv, AheadInv, [Next]_vars, ~stopped, ~stopped'
  PROVE  AheadInv'
<1>1. BaseInv'
  BY BaseStep
<1>2. CASE Tick \/ UNCHANGED vars
  <2>1. request' = request /\ log' = log
    BY <1>2 DEF Tick, vars
  <2> QED BY <1>1, <2>1, SameAhead
<1>3. ASSUME NEW c \in Clients, NEW n \in Sizes, Start(c, n) PROVE AheadInv'
  BY <1>1, <1>3, StartRequest, SameAhead
<1>4. ASSUME NEW c \in Clients, Reject(c) PROVE AheadInv'
  BY <1>1, <1>4, RejectRequest, RecordTypes, SameAhead
<1>5. ASSUME NEW c \in Clients, NEW m \in Nat, log' = log,
             request' = [request EXCEPT ![c] = Applied(@, m)]
      PROVE  AheadInv'
  <2>1. request'[c].started = request[c].started
    BY <1>5, RecordTypes, BaseFacts
  <2>2. \A d \in Clients \ {c} : request'[d] = request[d]
    BY <1>5, BaseFacts
  <2> QED BY <1>1, <1>5, <2>1, <2>2, SameAhead
<1>6. ASSUME NEW p \in Pipes, Submit(p) PROVE AheadInv'
  BY <1>5, <1>6, ClientFacts, BaseFacts DEF Submit
<1>7. ASSUME NEW p \in Pipes, Take(p) PROVE AheadInv'
  <2>1. Head(fifo[p]) \in FifoItems
    BY <1>7, BaseFacts DEF Take
  <2>2. Head(fifo[p]).id \in Nat /\ <<"R", p>> \in Clients
    BY <2>1, ClientFacts DEF FifoItems
  <2> QED BY <1>5, <1>7, <2>2 DEF Take
<1> QED BY <1>1, <1>2, <1>3, <1>4, <1>6, <1>7, StepCases, RecordAhead

-----------------------------------------------------------------------------
(* What the collector computes from such a log.                            *)

LEMMA MaxOfTwo == \A a \in Int, b \in Int : Max({a, b}) = IF a >= b THEN a ELSE b
BY DEF Max

LEMMA MinOfTwo == \A a \in Int, b \in Int : Min({a, b}) = IF a <= b THEN a ELSE b
BY DEF Min

\* A stable sort leaves a list alone that is in order.
LEMMA SortedInOrder ==
  ASSUME NEW S, NEW s \in Seq(S), NEW key, \A i \in 1..Len(s) : s[i][key] \in Nat,
         \A j, k \in 1..Len(s) : j < k => s[j][key] <= s[k][key]
  PROVE  Sorted(s, key) = s
<1> DEFINE Below(i) == {j \in DOMAIN s : s[j][key] < s[i][key]
                                            \/ (s[j][key] = s[i][key] /\ j < i)}
           At(k) == CHOOSE i \in DOMAIN s : 1 + Cardinality(Below(i)) = k
<1>1. Len(s) \in Nat /\ DOMAIN s = 1..Len(s)
  OBVIOUS
<1>2. ASSUME NEW i \in DOMAIN s PROVE 1 + Cardinality(Below(i)) = i
  <2>1. i \in Nat /\ i >= 1 /\ i \in 1..Len(s)
    BY <1>1
  <2>2. ASSUME NEW j \in 1..Len(s)
        PROVE  (s[j][key] < s[i][key] \/ (s[j][key] = s[i][key] /\ j < i)) <=> j < i
    <3>1. s[i][key] \in Nat /\ s[j][key] \in Nat
      BY <2>1
    <3>2. CASE j < i
      <4>1. s[j][key] <= s[i][key]
        BY <2>1, <3>2
      <4> QED BY <3>1, <3>2, <4>1
    <3>3. CASE i < j
      <4>1. s[i][key] <= s[j][key]
        BY <2>1, <3>3
      <4> QED BY <2>1, <3>1, <3>3, <4>1
    <3>4. CASE i = j
      BY <2>1, <3>1, <3>4
    <3> QED BY <2>1, <3>2, <3>3, <3>4
  <2>3. Below(i) = {j \in 1..Len(s) : j < i}
    BY <1>1, <2>2
  <2>4. {j \in 1..Len(s) : j < i} = 1..(i - 1)
    BY <1>1, <2>1
  <2>5. Cardinality(1..(i - 1)) = i - 1
    BY <2>1, FS_Interval, SMTT(30)
  <2> HIDE DEF Below
  <2>6. Cardinality(Below(i)) = i - 1
    BY ONLY <2>3, <2>4, <2>5, Zenon
  <2> QED BY <2>1, <2>6
<1>3. ASSUME NEW k \in DOMAIN s PROVE At(k) = k
  <2> HIDE DEF Below
  <2> QED BY <1>2
<1>4. Sorted(s, key) = [k \in DOMAIN s |-> s[At(k)]]
  BY DEF Sorted
<1> HIDE DEF At
<1>5. [k \in DOMAIN s |-> s[At(k)]] = [k \in DOMAIN s |-> s[k]]
  BY <1>3
<1>6. [k \in DOMAIN s |-> s[k]] = s
  BY <1>1
<1> QED BY ONLY <1>4, <1>5, <1>6, Zenon

LEMMA ListsInOrder ==
  ASSUME Running, NEW p \in Pipes, NEW n \in Sizes
  PROVE  /\ write_items(<<p, n>>) = Items("W", <<p, n>>)
         /\ read_items(<<p, n>>) = Items("R", <<p, n>>)
<1>1. <<p, n>> \in Keys
  BY KeyFacts
<1>2. ASSUME NEW op \in {"W", "R"}, NEW s, s = Items(op, <<p, n>>)
      PROVE  s \in Seq(LogRecords) /\ Ordered(s)
             /\ \A i \in 1..Len(s) : s[i].started \in Nat /\ s[i].finished \in Nat
  <2>1. s \in Seq(LogRecords)
    BY <1>2, ItemsType DEF Running
  <2>2. Ordered(s)
    BY <1>1, <1>2 DEF Running, ItemsInv
  <2>3. \A i \in 1..Len(s) : s[i].started \in Nat /\ s[i].finished \in Nat
    <3> TAKE i \in 1..Len(s)
    <3>1. s[i] \in LogRecords
      BY <2>1
    <3> QED BY <3>1 DEF LogRecords
  <2> QED BY <2>1, <2>2, <2>3
<1>3. PICK s : s = Items("W", <<p, n>>)
  OBVIOUS
<1>4. Sorted(s, "started") = s
  <2>1. s \in Seq(LogRecords) /\ Ordered(s) /\ \A i \in 1..Len(s) : s[i].started \in Nat
    BY <1>2, <1>3
  <2>2. /\ \A i \in 1..Len(s) : s[i]["started"] \in Nat
        /\ \A j, k \in 1..Len(s) : j < k => s[j]["started"] <= s[k]["started"]
    BY <2>1 DEF Ordered
  <2> QED BY <2>1, <2>2, SortedInOrder
<1>5. PICK t : t = Items("R", <<p, n>>)
  OBVIOUS
<1>6. Sorted(t, "finished") = t
  <2>1. t \in Seq(LogRecords) /\ Ordered(t) /\ \A i \in 1..Len(t) : t[i].finished \in Nat
    BY <1>2, <1>5
  <2>2. /\ \A i \in 1..Len(t) : t[i]["finished"] \in Nat
        /\ \A j, k \in 1..Len(t) : j < k => t[j]["finished"] <= t[k]["finished"]
    BY <2>1 DEF Ordered
  <2> QED BY <2>1, <2>2, SortedInOrder
<1> QED BY ONLY <1>3, <1>4, <1>5, <1>6, Zenon DEF write_items, read_items

\* No pair is dropped: the k-th write is paired with the k-th read.
LEMMA PairsByPosition ==
  ASSUME Running, NEW p \in Pipes, NEW n \in Sizes
  PROVE  \A z : z \in Pairs(<<p, n>>) <=>
           \E k \in 1..Len(Items("W", <<p, n>>)) :
             /\ k \in 1..Len(Items("R", <<p, n>>))
             /\ z = <<Items("W", <<p, n>>)[k], Items("R", <<p, n>>)[k]>>
<1>1. PICK W, R : W = Items("W", <<p, n>>) /\ R = Items("R", <<p, n>>)
  OBVIOUS
<1>2. Len(W) \in Nat /\ Len(R) \in Nat
  BY <1>1, FlowLengths DEF Running
<1>3. Min({Len(W), Len(R)}) = IF Len(W) <= Len(R) THEN Len(W) ELSE Len(R)
  BY <1>2, MinOfTwo
<1>4. 1..Min({Len(W), Len(R)}) = {k \in 1..Len(W) : k \in 1..Len(R)}
  BY <1>2, <1>3
<1>5. ASSUME NEW k \in 1..Len(W), k \in 1..Len(R)
      PROVE  IntervalStart(W[k], R[k]) <= R[k].finished
  <2>1. PICK w, r : w = W[k] /\ r = R[k]
    OBVIOUS
  <2>2. w \in LogRecords
    BY <1>1, <2>1, ItemFacts DEF Running
  <2>3. r \in LogRecords /\ RecordInv(r)
    BY <1>1, <1>5, <2>1, ItemFacts DEF Running
  <2>4. w.started <= r.finished
    <3>1. Ahead(R, W, request[<<"W", p>>].started)
      BY <1>1 DEF Running, AheadInv, AheadOf
    <3> QED BY <1>2, <1>5, <2>1, <3>1 DEF Ahead
  <2>5. r.started <= r.finished
    BY <2>3 DEF RecordInv
  <2>6. w.started \in Int /\ r.started \in Int
    BY <2>2, <2>3 DEF LogRecords
  <2>7. Max({w.started, r.started}) = IF w.started >= r.started THEN w.started ELSE r.started
    BY <2>6, MaxOfTwo
  <2> QED BY <2>1, <2>4, <2>5, <2>7 DEF IntervalStart
<1>6. Pairs(<<p, n>>) = {<<W[k], R[k]>> : k \in {j \in 1..Min({Len(W), Len(R)}) :
                                                 IntervalStart(W[j], R[j]) <= R[j].finished}}
  BY <1>1, ListsInOrder DEF Pairs
<1>7. {j \in 1..Min({Len(W), Len(R)}) : IntervalStart(W[j], R[j]) <= R[j].finished}
        = {k \in 1..Len(W) : k \in 1..Len(R)}
  BY <1>4, <1>5
<1>8. Pairs(<<p, n>>) = {<<W[k], R[k]>> : k \in {j \in 1..Len(W) : j \in 1..Len(R)}}
  BY ONLY <1>6, <1>7, Zenon
<1>9. \A z : z \in Pairs(<<p, n>>) <=>
               \E k \in 1..Len(W) : k \in 1..Len(R) /\ z = <<W[k], R[k]>>
  BY ONLY <1>8
<1> QED BY ONLY <1>1, <1>9, Zenon

LEMMA PairedMessages ==
  ASSUME NEW A \in Seq(Nat), NEW B \in Seq(Nat), NEW F \in Seq(Nat), NEW C \in Seq(Nat),
         NEW D \in Seq(Nat), Flow(A, B, F, C, D), NEW k \in 1..Len(A), k \in 1..Len(C)
  PROVE  A[k] = C[k]
<1>1. PICK G \in Seq(Nat) : G = A \o B
  <2>1. A \o B \in Seq(Nat)
    OBVIOUS
  <2> QED BY ONLY <2>1, Zenon
<1>2. G[k] = A[k] /\ k \in 1..Len(G)
  BY <1>1
<1>3. (G \o F)[k] = G[k]
  BY <1>2
<1>4. (C \o D)[k] = C[k]
  OBVIOUS
<1> QED BY ONLY <1>1, <1>2, <1>3, <1>4, Flow(A, B, F, C, D), Zenon DEF Flow

\* What is paired is one message.
LEMMA PairsOfMessages == Running => PairsAreMessages
<1> SUFFICES ASSUME Running, NEW z \in AllPairs
             PROVE  z[1].message # NoMessage /\ z[1].message = z[2].message
  BY DEF PairsAreMessages
<1>1. PICK key \in Keys : z \in Pairs(key)
  BY DEF AllPairs
<1>2. PICK p \in Pipes, n \in Sizes : key = <<p, n>>
  BY KeyFacts
<1>3. PICK W, R : W = Items("W", <<p, n>>) /\ R = Items("R", <<p, n>>)
  OBVIOUS
<1>4. PICK k \in 1..Len(W) : k \in 1..Len(R) /\ z = <<W[k], R[k]>>
  BY <1>1, <1>2, <1>3, PairsByPosition
<1>5. W \in Seq(LogRecords) /\ R \in Seq(LogRecords)
  BY <1>3, ItemsType DEF Running
<1>6. RecordInv(W[k]) /\ W[k] \in LogRecords
  BY <1>3, <1>4, ItemFacts DEF Running
<1>7. /\ Messages(W)[k] = W[k].message /\ Messages(R)[k] = R[k].message
      /\ Len(Messages(W)) = Len(W) /\ Len(Messages(R)) = Len(R)
  BY <1>4, <1>5, <1>6, MessagesFacts
<1>8. Messages(R)[k] = Messages(W)[k]
  <2>1. PICK A, B, F, C, D : /\ Flow(A, B, F, C, D) /\ A = Messages(R) /\ C = Messages(W)
                             /\ B = Pending(<<"R", p>>, n) /\ D = Pending(<<"W", p>>, n)
                             /\ F = Idents(Only(fifo[p], OfSize(n)))
    BY <1>3 DEF Running, FlowInv, FlowOf
  <2>2. A \in Seq(Nat) /\ B \in Seq(Nat) /\ F \in Seq(Nat) /\ C \in Seq(Nat) /\ D \in Seq(Nat)
    BY <1>3, <2>1, FlowTypes DEF Running
  <2>3. k \in 1..Len(A) /\ k \in 1..Len(C)
    BY <1>4, <1>7, <2>1
  <2>4. A[k] = C[k]
    BY ONLY <2>1, <2>2, <2>3, PairedMessages
  <2> QED BY <2>1, <2>4
<1>9. W[k].message # NoMessage
  BY <1>6 DEF RecordInv
<1> QED BY <1>4, <1>7, <1>8, <1>9

Quiet == /\ \A p \in Pipes : fifo[p] = << >>
         /\ \A c \in Clients : request[c].phase = "idle"

\* With nothing under way, there are as many reads as writes of each size.
LEMMA QuietLengths ==
  ASSUME Running, Quiet, NEW p \in Pipes, NEW n \in Sizes
  PROVE  /\ Len(Items("R", <<p, n>>)) = Len(Items("W", <<p, n>>))
         /\ Len(Items("R", <<p, n>>)) \in Nat
<1>1. PICK A, B, F, C, D : /\ Flow(A, B, F, C, D)
                           /\ A = Messages(Items("R", <<p, n>>))
                           /\ C = Messages(Items("W", <<p, n>>))
                           /\ B = Pending(<<"R", p>>, n) /\ D = Pending(<<"W", p>>, n)
                           /\ F = Idents(Only(fifo[p], OfSize(n)))
  BY DEF Running, FlowInv, FlowOf
<1>2. /\ A \in Seq(Nat) /\ B \in Seq(Nat) /\ F \in Seq(Nat) /\ C \in Seq(Nat) /\ D \in Seq(Nat)
      /\ Len(A) = Len(Items("R", <<p, n>>)) /\ Len(C) = Len(Items("W", <<p, n>>))
  BY <1>1, FlowTypes DEF Running
<1>3. B = << >> /\ D = << >>
  BY <1>1, ClientFacts, PendingFacts DEF Running, Quiet
<1>4. F = << >>
  <2>1. fifo[p] = << >>
    BY DEF Quiet
  <2>2. Only(fifo[p], OfSize(n)) = << >>
    BY <2>1, OnlyEmpty
  <2>3. Idents(<< >>) = << >>
    BY DEF Idents, Through
  <2> QED BY <1>1, <2>2, <2>3
<1>5. /\ (Len(A) + Len(B)) + Len(F) = Len(C) + Len(D) /\ Len(A) \in Nat /\ Len(C) \in Nat
  BY ONLY <1>1, <1>2, Lengths
<1>6. Len(B) = 0 /\ Len(D) = 0 /\ Len(F) = 0
  BY <1>3, <1>4
<1>7. Len(A) = Len(C)
  BY ONLY <1>5, <1>6
<1> QED BY <1>2, <1>5, <1>7

\* The records of one operation, and the part of a pair that is one.
Printed(op) == {r \in {log[i] : i \in 1..Len(log)} : r.operation = op}
SideOf(z, op) == IF op = "W" THEN z[1] ELSE z[2]

LEMMA PrintedCount ==
  ASSUME Running
  PROVE  /\ IsFiniteSet(Printed("W")) /\ IsFiniteSet(Printed("R"))
         /\ Cardinality(Printed("W")) \in Nat /\ Cardinality(Printed("R")) \in Nat
         /\ Len(log) = Cardinality(Printed("W")) + Cardinality(Printed("R"))
<1> DEFINE T == {log[i] : i \in 1..Len(log)}
<1>1. log \in Seq(LogRecords) /\ Len(log) \in Nat /\ DOMAIN log = 1..Len(log)
      /\ \A i \in 1..Len(log) : log[i] \in LogRecords
  BY BaseFacts, LogFacts DEF Running
<1>2. PICK f : f = [i \in 1..Len(log) |-> log[i]]
  OBVIOUS
<1>3. f \in [1..Len(log) -> T] /\ \A t \in T : \E i \in 1..Len(log) : f[i] = t
  BY <1>2
<1>4. ASSUME NEW i \in 1..Len(log), NEW j \in 1..Len(log), f[i] = f[j] PROVE i = j
  <2>1. log[i] = log[j] /\ log[i].number \in Nat
    BY <1>1, <1>2, <1>4 DEF LogRecords
  <2>2. \A a, b \in 1..Len(log) : a < b /\ log[a] = log[b] => log[a].number < log[b].number
    BY DEF Running, LogInv, Increasing
  <2>3. ~(i < j) /\ ~(j < i)
    BY <2>1, <2>2
  <2> QED BY <1>1, <2>3
<1>5. f \in Bijection(1..Len(log), T)
  BY <1>3, <1>4, Fun_IsBij
<1>6. IsFiniteSet(1..Len(log))
  BY <1>1, FS_Interval
<1>7. ExistsBijection(1..Len(log), T)
  BY <1>5 DEF ExistsBijection
<1> HIDE DEF T
<1>8. IsFiniteSet(T) /\ Cardinality(T) = Len(log)
  BY <1>1, <1>6, <1>7, FS_Bijection, FS_CountingElements
<1>9. Printed("W") \subseteq T /\ Printed("R") \subseteq T
      /\ T = Printed("W") \cup Printed("R") /\ Printed("W") \cap Printed("R") = {}
  <2>1. \A r \in T : r.operation \in {"W", "R"}
    BY <1>1 DEF T, LogRecords
  <2> QED BY <2>1 DEF T, Printed
<1>10. IsFiniteSet(Printed("W")) /\ IsFiniteSet(Printed("R"))
  BY <1>8, <1>9, FS_Subset
<1>11. Cardinality(Printed("W")) \in Nat /\ Cardinality(Printed("R")) \in Nat
  BY <1>10, FS_CardinalityType
<1>12. Cardinality(T) = Cardinality(Printed("W")) + Cardinality(Printed("R")) - Cardinality({})
  BY <1>9, <1>10, FS_Union
<1> QED BY <1>8, <1>10, <1>11, <1>12, FS_EmptySet

\* Pair z is the k-th one of pipe p and size n.
PairAt(z, p, n, k) == /\ k \in 1..Len(Items("W", <<p, n>>))
                      /\ k \in 1..Len(Items("R", <<p, n>>))
                      /\ z = <<Items("W", <<p, n>>)[k], Items("R", <<p, n>>)[k]>>

LEMMA PairPosition ==
  ASSUME Running, NEW z \in AllPairs
  PROVE  \E p \in Pipes, n \in Sizes, k \in Nat : PairAt(z, p, n, k)
<1>1. PICK key \in Keys : z \in Pairs(key)
  BY DEF AllPairs
<1>2. PICK p \in Pipes, n \in Sizes : key = <<p, n>>
  BY KeyFacts
<1>3. \E k \in 1..Len(Items("W", <<p, n>>)) :
           /\ k \in 1..Len(Items("R", <<p, n>>))
           /\ z = <<Items("W", <<p, n>>)[k], Items("R", <<p, n>>)[k]>>
  BY <1>1, <1>2, PairsByPosition
<1>4. \E k \in Nat : PairAt(z, p, n, k)
  BY <1>3 DEF PairAt
<1> QED BY <1>4

LEMMA PairSide ==
  ASSUME Running, NEW op \in {"W", "R"}, NEW p \in Pipes, NEW n \in Sizes, NEW k, NEW z,
         PairAt(z, p, n, k)
  PROVE  /\ SideOf(z, op) = Items(op, <<p, n>>)[k] /\ k \in 1..Len(Items(op, <<p, n>>))
         /\ SideOf(z, op) \in RecordsOf(op, <<p, n>>) /\ SideOf(z, op) \in Printed(op)
<1>1. SideOf(z, op) = Items(op, <<p, n>>)[k] /\ k \in 1..Len(Items(op, <<p, n>>))
  BY DEF SideOf, PairAt
<1>2. PICK x : x = SideOf(z, op)
  OBVIOUS
<1>3. Listed(log, Items(op, <<p, n>>), RecordsOf(op, <<p, n>>))
  BY KeyFacts DEF Running, ItemsInv
<1>4. x \in RecordsOf(op, <<p, n>>) /\ \E i \in 1..Len(log) : log[i] = x
  BY <1>1, <1>2, <1>3 DEF Listed
<1>5. x \in LogRecords
  BY <1>4, LogFacts DEF Running
<1>6. x.operation = op
  BY <1>4, <1>5, RecordFacts
<1>7. x \in Printed(op)
  BY <1>4, <1>6 DEF Printed
<1> QED BY <1>1, <1>2, <1>4, <1>7

LEMMA QuietPairs ==
  ASSUME Running, Quiet, NEW op \in {"W", "R"}
  PROVE  Cardinality(AllPairs) = Cardinality(Printed(op))
<1> DEFINE f == [z \in AllPairs |-> SideOf(z, op)]
<1>3. f \in [AllPairs -> Printed(op)]
  <2>1. \A z \in AllPairs : SideOf(z, op) \in Printed(op)
    BY PairPosition, PairSide
  <2> QED BY <2>1
<1>4. ASSUME NEW y \in AllPairs, NEW z \in AllPairs, f[y] = f[z] PROVE y = z
  <2>0. \A x \in AllPairs : \E p \in Pipes, n \in Sizes, k \in Nat : PairAt(x, p, n, k)
    BY PairPosition
  <2>1. PICK p \in Pipes, n \in Sizes, k \in Nat : PairAt(y, p, n, k)
    BY <2>0
  <2>2. PICK q \in Pipes, m \in Sizes, j \in Nat : PairAt(z, q, m, j)
    BY <2>0
  <2>3. SideOf(y, op) = SideOf(z, op)
    BY <1>4
  <2>4. p = q /\ n = m
    <3>1. PICK x : x = SideOf(y, op)
      OBVIOUS
    <3>2. x \in RecordsOf(op, <<p, n>>)
      BY <2>1, <3>1, PairSide
    <3>3. x \in RecordsOf(op, <<q, m>>)
      BY <2>2, <2>3, <3>1, PairSide
    <3> QED BY <3>2, <3>3 DEF RecordsOf
  <2>5. PICK s : s = Items(op, <<p, n>>)
    OBVIOUS
  <2>6. s[k] = s[j] /\ k \in 1..Len(s) /\ j \in 1..Len(s)
    <3>1. SideOf(y, op) = s[k] /\ k \in 1..Len(s)
      BY <2>1, <2>5, PairSide
    <3>2. SideOf(z, op) = s[j] /\ j \in 1..Len(s)
      BY <2>2, <2>4, <2>5, PairSide
    <3> QED BY ONLY <2>3, <3>1, <3>2, Zenon
  <2>7. Ordered(s)
    BY <2>5, KeyFacts DEF Running, ItemsInv
  <2>8. k = j
    <3>1. Len(s) \in Nat /\ s[k].number \in Nat
      <4>1. s \in Seq(LogRecords)
        BY <2>5, ItemsType DEF Running
      <4>2. s[k] \in LogRecords
        BY <2>6, <4>1
      <4> QED BY <4>1, <4>2 DEF LogRecords
    <3>2. ~(k < j) /\ ~(j < k)
      BY <2>6, <2>7, <3>1 DEF Ordered
    <3> QED BY <2>6, <3>1, <3>2
  <2> QED BY <2>1, <2>2, <2>4, <2>8 DEF PairAt
<1>5. ASSUME NEW r \in Printed(op) PROVE \E z \in AllPairs : f[z] = r
  <2>1. PICK i \in 1..Len(log) : log[i] = r
    BY DEF Printed
  <2>2. r \in LogRecords /\ r.operation = op
    BY <2>1, LogFacts DEF Running, Printed
  <2>3. PICK p \in Pipes, n \in Sizes : p = r.pipe_name /\ n = r.bytes
    BY <2>2 DEF LogRecords
  <2>4. <<p, n>> \in Keys /\ r \in RecordsOf(op, <<p, n>>)
    BY <2>2, <2>3, KeyFacts, RecordFacts
  <2>5. PICK k \in 1..Len(Items(op, <<p, n>>)) : Items(op, <<p, n>>)[k] = r
    BY <2>1, <2>4 DEF Running, ItemsInv, Listed
  <2>6. k \in 1..Len(Items("W", <<p, n>>)) /\ k \in 1..Len(Items("R", <<p, n>>))
    BY <2>5, QuietLengths
  <2>7. PICK z : z = <<Items("W", <<p, n>>)[k], Items("R", <<p, n>>)[k]>>
    OBVIOUS
  <2>8. z \in Pairs(<<p, n>>)
    BY <2>6, <2>7, PairsByPosition
  <2>9. z \in AllPairs
    BY <2>4, <2>8 DEF AllPairs
  <2>10. SideOf(z, op) = r
    <3>1. PairAt(z, p, n, k)
      BY <2>6, <2>7 DEF PairAt
    <3>2. SideOf(z, op) = Items(op, <<p, n>>)[k]
      BY <3>1, PairSide
    <3> QED BY <2>5, <3>2
  <2> QED BY <2>9, <2>10
<1> HIDE DEF f
<1>6. f \in Injection(AllPairs, Printed(op)) /\ f \in Surjection(AllPairs, Printed(op))
  <2>1. f \in Injection(AllPairs, Printed(op))
    BY <1>3, <1>4, Fun_IsInj
  <2>2. f \in Surjection(AllPairs, Printed(op))
    BY <1>3, <1>5, Fun_IsSurj
  <2> QED BY <2>1, <2>2
<1>7. IsFiniteSet(Printed(op))
  BY PrintedCount
<1> QED BY <1>6, <1>7, FS_Injection

\* Every record has its partner once nothing is under way.
LEMMA QuietMatched == Running => AllMatched
<1> SUFFICES ASSUME Running, Quiet PROVE Unmatched = 0
  BY DEF AllMatched, Quiet
<1>1. PICK a \in Nat, b \in Nat : a = Cardinality(Printed("W")) /\ b = Cardinality(Printed("R"))
  BY PrintedCount
<1>2. Cardinality(AllPairs) = a /\ Cardinality(AllPairs) = b
  BY <1>1, QuietPairs
<1>3. Len(log) = a + b
  BY <1>1, PrintedCount
<1>4. Len(log) - 2 * Cardinality(AllPairs) = 0
  <2>1. a = b
    BY <1>2
  <2>2. (a + b) - 2 * a = 0
    BY ONLY <2>1, a \in Nat, b \in Nat
  <2> QED BY ONLY <1>2, <1>3, <2>2, Zenon
<1> QED BY <1>4 DEF Unmatched

-----------------------------------------------------------------------------
(* The theorem.                                                            *)

LEMMA InitRunning == Init => Running
<1> SUFFICES ASSUME Init PROVE Running
  OBVIOUS
<1>1. BaseInv
  BY InitBase
<1>2. log = << >> /\ fifo = [p \in Pipes |-> << >>] /\ request = [c \in Clients |-> Idle]
  BY DEF Init
<1>3. \A op, key : Items(op, key) = << >>
  BY <1>2, OnlyEmpty DEF Items
<1>4. LogInv
  BY <1>2 DEF LogInv, Increasing
<1>5. ItemsInv
  <2>1. \A P : Listed(<< >>, << >>, P) /\ Ordered(<< >>)
    BY DEF Listed, Ordered
  <2> QED BY ONLY <1>2, <1>3, <2>1, Zenon DEF ItemsInv
<1>6. FlowInv
  <2>1. ASSUME NEW p \in Pipes, NEW n \in Sizes PROVE FlowOf(p, n)
    <3>1. Messages(<< >>) = << >> /\ Idents(<< >>) = << >>
      BY DEF Messages, Idents, Through
    <3>2. fifo[p] = << >> /\ Only(<< >>, OfSize(n)) = << >>
      BY <1>2, OnlyEmpty
    <3>3. Pending(<<"R", p>>, n) = << >> /\ Pending(<<"W", p>>, n) = << >>
      BY <1>2, ClientFacts, RecordTypes DEF Pending
    <3>4. << >> \o << >> = << >>
      OBVIOUS
    <3> QED BY ONLY <1>3, <3>1, <3>2, <3>3, <3>4, Zenon DEF FlowOf, Flow
  <2> QED BY <2>1 DEF FlowInv
<1>7. AheadInv
  <2>1. \A t : Ahead(<< >>, << >>, t)
    BY DEF Ahead
  <2> QED BY ONLY <1>3, <2>1, Zenon DEF AheadInv, AheadOf
<1> QED BY <1>1, <1>4, <1>5, <1>6, <1>7 DEF Running

LEMMA RunningStep == MetricsInv /\ [Next]_vars => MetricsInv'
<1> SUFFICES ASSUME MetricsInv, [Next]_vars, ~stopped' PROVE Running'
  BY DEF MetricsInv
<1>1. ~stopped
  BY DEF Next, vars, Tick, Stop, Submit, Take, Start, GatewayError, Reject, Record
<1>2. BaseInv /\ LogInv /\ ItemsInv /\ FlowInv /\ AheadInv
  BY <1>1 DEF MetricsInv, Running
<1> QED BY <1>1, <1>2, BaseStep, LogStep, ItemsStep, FlowStep, AheadStep DEF Running

\* The collector (scripts/collect_timing_metrics.py) pairs records by pipe
\* and size alone, and by position in two sorted lists.  While the gateways
\* run, each pair is the write and the read of one message, and once nothing
\* is under way, every record printed by the router has been paired.
THEOREM PairingIsExact == Spec => []PairingExact
<1>1. Init => MetricsInv
  BY InitRunning DEF MetricsInv
<1>2. MetricsInv /\ [Next]_vars => MetricsInv'
  BY RunningStep
<1>3. MetricsInv => PairingExact
  <2>1. CASE stopped
    BY <2>1 DEF PairingExact, PairsAreMessages, AllMatched
  <2>2. CASE ~stopped
    BY <2>2, PairsOfMessages, QuietMatched DEF MetricsInv, PairingExact
  <2> QED BY <2>1, <2>2
<1> QED BY <1>1, <1>2, <1>3, PTL DEF Spec
=============================================================================
