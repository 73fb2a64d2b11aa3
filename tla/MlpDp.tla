-------------------------------- MODULE MlpDp -------------------------------
(***************************************************************************)
(* The synchronous data-parallel MLP benchmark: real/mlp_dp_cpu.cpp, one   *)
(* process per CPU rank, and real/mlp_dp_gpu.cu, two processes per rank.   *)
(* They only share messages, so the order in which a rank sends and        *)
(* receives is all that keeps the training synchronous.                    *)
(*                                                                         *)
(* A CPU rank runs a straight-line program once its environment is read:   *)
(* Program[r] is the sequence of its message and arithmetic operations.    *)
(* A model is abstracted to its version (the updates applied to it), a     *)
(* gradient to the samples summed into it and the versions it was          *)
(* calculated from.  The sizes of the messages are kept: a receive asks    *)
(* for a byte count and blocks while another one is at the head.           *)
(*                                                                         *)
(* The router leaves a record of every message, from which                 *)
(* scripts/summarize_steady_measurement.py finds the measured interval     *)
(* afterwards.  Its time stamps count the releases of rank 0 from the      *)
(* start barrier and the updates of the model.                             *)
(***************************************************************************)
EXTENDS Integers, Sequences, SequencesExt, FiniteSets, FiniteSetsExt

CONSTANTS Ranks,            \* LEGOSIM_MLP_DP_RANKS
          Iterations,       \* LEGOSIM_MLP_DP_ITERATIONS
          Samples,          \* LEGOSIM_MLP_DP_SAMPLES
          SynchronousSend   \* sendMessage blocks until the message is taken

kGpusPerRank == 2

\* What main requires before it starts.
ASSUME MlpDpAssumption ==
  /\ Ranks \in 1..8 /\ \E k \in 0..3 : Ranks = 2^k
  /\ Iterations \in Nat \ {0}
  /\ Samples \in Nat \ {0} /\ Samples % (Ranks * kGpusPerRank) = 0
  /\ SynchronousSend \in BOOLEAN

RankIds == 0..(Ranks - 1)
Cpu(r) == <<r, 0>>
Gpus == RankIds \X (1..kGpusPerRank)
Nodes == RankIds \X (0..kGpusPerRank)
\* Pairs <<sender, receiver>>: CPU to CPU, and CPU to its GPUs and back.
Channels == {ch \in Nodes \X Nodes :
               /\ ch[1] # ch[2]
               /\ \/ ch[1][2] = 0 /\ ch[2][2] = 0
                  \/ ch[1][1] = ch[2][1] /\ 0 \in {ch[1][2], ch[2][2]}}

samples_per_gpu == Samples \div (Ranks * kGpusPerRank)

VARIABLES
  pc,        \* pc[r]: the next operation of Program[r]
  model,     \* model[r]: version of the model of CPU rank r
  gradient,  \* gradient[r]: the gradient of CPU rank r
  gpu,       \* gpu[n]: where the loop of GPU n is, and what it has received
  pipe,      \* pipe[ch]: messages sent and not yet received
  records    \* the pipe-metric records of the writes, see MetricRecord

vars == <<pc, model, gradient, gpu, pipe, records>>

-----------------------------------------------------------------------------
(* Messages.                                                               *)

\* sizeof: a token is an int, a header a WorkHeader; model and gradient are
\* both kParameters doubles.
SizeOf(kind) == CASE kind = "token" -> 4
                  [] kind = "header" -> 16
                  [] OTHER -> 20504

NoGradient == [of |-> {}, counts |-> [s \in 0..(Samples - 1) |-> 0]]

\* The samples that GPU g of rank r reconstructs, by local index.
sample(r, g, local) == r + Ranks * ((g - 1) + 2 * local)
Shard(n, count) == {sample(n[1], n[2], i) : i \in 0..(count - 1)}
calculate_gradient(n, count, version) ==
  [of |-> {version},
   counts |-> [s \in 0..(Samples - 1) |-> IF s \in Shard(n, count) THEN 1 ELSE 0]]
add_into(destination, source) ==
  [of |-> destination.of \cup source.of,
   counts |-> [s \in 0..(Samples - 1) |-> destination.counts[s] + source.counts[s]]]

-----------------------------------------------------------------------------
(* The program of a CPU rank.                                              *)

Send(to, kind) == [act |-> "send", peer |-> to, kind |-> kind, arg |-> 0]
Header(to, iteration) ==
  [act |-> "send", peer |-> to, kind |-> "header", arg |-> iteration]
Receive(from, kind) == [act |-> "receive", peer |-> from, kind |-> kind, arg |-> 0]
\* receive_gradient into a fresh vector, or with add_into.
Assign(from) == [act |-> "assign", peer |-> from, kind |-> "gradient", arg |-> 0]
Add(from) == [act |-> "add", peer |-> from, kind |-> "gradient", arg |-> 0]
Update == [act |-> "update", peer |-> Cpu(0), kind |-> "model", arg |-> 0]

OpOnPeers(Op(_)) == [k \in 1..(Ranks - 1) |-> Op(Cpu(k))]
SendToken(n) == Send(n, "token")
ReceiveToken(n) == Receive(n, "token")

\* Mutant: rank 0 releases each rank as soon as that rank is ready.
start_measurement_barrier_OneByOne(r) ==
  IF r = 0 THEN FlattenSeq([k \in 1..(Ranks - 1) |->
                              <<ReceiveToken(Cpu(k)), SendToken(Cpu(k))>>])
  ELSE <<SendToken(Cpu(0)), ReceiveToken(Cpu(0))>>

\* Mutant: a rank waits for its release before it says that it is ready.
start_measurement_barrier_Swapped(r) ==
  IF r = 0 THEN OpOnPeers(ReceiveToken) \o OpOnPeers(SendToken)
  ELSE <<ReceiveToken(Cpu(0)), SendToken(Cpu(0))>>

start_measurement_barrier(r) ==
  IF r = 0 THEN OpOnPeers(ReceiveToken) \o OpOnPeers(SendToken)
  ELSE <<SendToken(Cpu(0)), ReceiveToken(Cpu(0))>>

finish_measurement_barrier(r) ==
  IF r # 0 THEN <<SendToken(Cpu(0))>> ELSE OpOnPeers(ReceiveToken)

Levels == CHOOSE k \in 0..3 : 2^k = Ranks
\* Mutant: the last level, which joins the two halves, is left out.
reduce_gradient_tree_Halves(r) ==
  FlattenSeq([k \in 1..(Levels - 1) |->
    IF r % (2^k) = 2^(k - 1) THEN <<Send(Cpu(r - 2^(k - 1)), "gradient")>>
    ELSE IF r % (2^k) = 0 THEN <<Add(Cpu(r + 2^(k - 1)))>> ELSE << >>])

\* Strides in increasing order; a rank that has sent has returned.
reduce_gradient_tree(r) ==
  FlattenSeq([k \in 1..Levels |->
    LET stride == 2^(k - 1)
        position_in_group == r % (2 * stride)
        returned == \E j \in 1..(k - 1) : r % (2^j) = 2^(j - 1)
    IN  CASE returned -> << >>
          [] ~returned /\ position_in_group = stride ->
               <<Send(Cpu(r - stride), "gradient")>>
          [] ~returned /\ position_in_group = 0 /\ r + stride < Ranks ->
               <<Add(Cpu(r + stride))>>
          [] OTHER -> << >>])

BroadcastLevel(r, stride) ==
  LET position_in_group == r % (2 * stride)
  IN  CASE position_in_group = 0 /\ r + stride < Ranks ->
             <<Send(Cpu(r + stride), "model")>>
        [] position_in_group = stride -> <<Receive(Cpu(r - stride), "model")>>
        [] OTHER -> << >>

\* Strides in decreasing order.
broadcast_model_tree(r) ==
  FlattenSeq([k \in 1..Levels |-> BroadcastLevel(r, 2^(Levels - k))])

synchronise_model(r) ==
  reduce_gradient_tree(r) \o (IF r = 0 THEN <<Update>> ELSE << >>)
    \o broadcast_model_tree(r)

send_to_gpu(r, g, iteration) ==
  <<Header(<<r, g>>, iteration), Send(<<r, g>>, "model")>>

Iteration(r, iteration) ==
  send_to_gpu(r, 1, iteration) \o send_to_gpu(r, 2, iteration)
    \o <<Assign(<<r, 1>>), Add(<<r, 2>>)>> \o synchronise_model(r)

stop_gpu_workers(r) == [g \in 1..kGpusPerRank |-> Header(<<r, g>>, -1)]

Training(r) == FlattenSeq([i \in 1..Iterations |-> Iteration(r, i - 1)])

\* main.
Program ==
  [r \in RankIds |->
     start_measurement_barrier(r) \o Training(r)
       \o finish_measurement_barrier(r) \o stop_gpu_workers(r)]

-----------------------------------------------------------------------------
(* Steps.                                                                  *)

Init ==
  /\ pc = [r \in RankIds |-> 1]
  /\ model = [r \in RankIds |-> 0]
  /\ gradient = [r \in RankIds |-> NoGradient]
  /\ gpu = [n \in Gpus |-> [at |-> "header", samples |-> 0, version |-> -1]]
  /\ pipe = [ch \in Channels |-> << >>]
  /\ records = [tokens |-> {}, headers |-> {}, payloads |-> {}]

Finished(r) == pc[r] > Len(Program[r])
Op(r) == Program[r][pc[r]]

\* External: with a synchronous sendMessage, nobody acts before the message
\* it sent last has been taken.
Free(n) ==
  SynchronousSend => \A ch \in Channels : ch[1] = n => pipe[ch] = << >>

Ready(r, acts) == ~Finished(r) /\ Op(r).act \in acts /\ Free(Cpu(r))

\* The message at the head of a channel has the size the receive asks for.
Fits(ch, kind) ==
  pipe[ch] # << >> /\ SizeOf(Head(pipe[ch]).kind) = SizeOf(kind)

Body(r) == CASE Op(r).kind = "header" -> Op(r).arg
             [] Op(r).kind = "model" -> model[r]
             [] Op(r).kind = "gradient" -> gradient[r]
             [] OTHER -> 1

\* The time: how many releases rank 0 has written and updates it has made.
Now == Cardinality({t \in records.tokens : t.pipe[1] = Cpu(0)}) + model[0]

\* The records after one more write.  Of the headers and of the payloads,
\* of which choose_window asks for the first and the last one only, it is
\* that one's time which is kept.  A release is stamped with its own number.
MetricRecord(ch, kind) ==
  CASE kind = "token" ->
         [records EXCEPT !.tokens = @ \cup
            {[pipe |-> ch, finished |-> IF ch[1] = Cpu(0) THEN Now + 1 ELSE Now]}]
    [] kind = "header" -> [records EXCEPT !.headers = {Min(@ \cup {Now})}]
    [] OTHER -> [records EXCEPT !.payloads = {Max(@ \cup {Now})}]

CpuSend(r) ==
  /\ Ready(r, {"send"})
  /\ records' = MetricRecord(<<Cpu(r), Op(r).peer>>, Op(r).kind)
  /\ pipe' = [pipe EXCEPT ![<<Cpu(r), Op(r).peer>>] =
                Append(@, [kind |-> Op(r).kind, body |-> Body(r)])]
  /\ pc' = [pc EXCEPT ![r] = @ + 1]
  /\ UNCHANGED <<model, gradient, gpu>>

CpuReceive(r) ==
  /\ Ready(r, {"receive", "assign", "add"})
  /\ LET ch == <<Op(r).peer, Cpu(r)>>
         body == Head(pipe[ch]).body
     IN  /\ Fits(ch, Op(r).kind)
         /\ pipe' = [pipe EXCEPT ![ch] = Tail(@)]
         /\ model' = IF Op(r).kind = "model"
                     THEN [model EXCEPT ![r] = body] ELSE model
         /\ gradient' = CASE Op(r).act = "assign" -> [gradient EXCEPT ![r] = body]
                          [] Op(r).act = "add" ->
                               [gradient EXCEPT ![r] = add_into(@, body)]
                          [] OTHER -> gradient
  /\ pc' = [pc EXCEPT ![r] = @ + 1]
  /\ UNCHANGED <<gpu, records>>

CpuUpdate(r) ==
  /\ Ready(r, {"update"})
  /\ model' = [model EXCEPT ![r] = @ + 1]
  /\ pc' = [pc EXCEPT ![r] = @ + 1]
  /\ UNCHANGED <<gradient, gpu, pipe, records>>

FromCpu(n) == <<Cpu(n[1]), n>>

GpuReceiveHeader(n) ==
  /\ gpu[n].at = "header" /\ Free(n) /\ Fits(FromCpu(n), "header")
  /\ pipe' = [pipe EXCEPT ![FromCpu(n)] = Tail(@)]
  /\ gpu' = [gpu EXCEPT ![n] =
       IF Head(pipe[FromCpu(n)]).body < 0 THEN [@ EXCEPT !.at = "stopped"]
       ELSE [@ EXCEPT !.at = "model", !.samples = samples_per_gpu]]
  /\ UNCHANGED <<pc, model, gradient, records>>

GpuReceiveModel(n) ==
  /\ gpu[n].at = "model" /\ Fits(FromCpu(n), "model")
  /\ pipe' = [pipe EXCEPT ![FromCpu(n)] = Tail(@)]
  /\ gpu' = [gpu EXCEPT ![n].at = "gradient",
                        ![n].version = Head(pipe[FromCpu(n)]).body]
  /\ UNCHANGED <<pc, model, gradient, records>>

GpuSendGradient(n) ==
  /\ gpu[n].at = "gradient"
  /\ records' = MetricRecord(<<n, Cpu(n[1])>>, "gradient")
  /\ pipe' = [pipe EXCEPT ![<<n, Cpu(n[1])>>] =
       Append(@, [kind |-> "gradient",
                  body |-> calculate_gradient(n, gpu[n].samples, gpu[n].version)])]
  /\ gpu' = [gpu EXCEPT ![n].at = "header"]
  /\ UNCHANGED <<pc, model, gradient>>

CpuStep(r) == CpuSend(r) \/ CpuReceive(r) \/ CpuUpdate(r)
GpuStep(n) == GpuReceiveHeader(n) \/ GpuReceiveModel(n) \/ GpuSendGradient(n)

AllDone == /\ \A r \in RankIds : Finished(r)
           /\ \A n \in Gpus : gpu[n].at = "stopped"
           /\ \A ch \in Channels : pipe[ch] = << >>

\* The only way to stop that is not a deadlock.
Terminating == AllDone /\ UNCHANGED vars

Next == \/ \E r \in RankIds : CpuStep(r)
        \/ \E n \in Gpus : GpuStep(n)
        \/ Terminating

Spec == Init /\ [][Next]_vars

-----------------------------------------------------------------------------
(* summarize_steady_measurement.py on the records of a deployment with     *)
(* that many nodes, the processes of a rank on one slot.                   *)

slot(n, nodes) == (n[1] * nodes) \div Ranks
Times(R) == {r.finished : r \in R}

\* Between the barriers when there are writes of a token from slot 0 and to
\* it; otherwise from the first header to the last payload.  Of the releases,
\* as many as there are peer slots are taken, the earliest ones.
choose_window(nodes) ==
  LET at(r, k) == slot(r.pipe[k], nodes)
      start_releases == {r \in records.tokens : at(r, 1) = 0 /\ at(r, 2) # 0}
      completion_writes == {r \in records.tokens : at(r, 1) # 0 /\ at(r, 2) = 0}
      peer_count == Cardinality({at(r, 2) : r \in start_releases})
      releases_by_time ==
        SetToSortSeq(start_releases, LAMBDA a, b : a.finished < b.finished)
      initial_releases == ToSet(SubSeq(releases_by_time, 1, peer_count))
  IN  IF start_releases # {} /\ completion_writes # {}
      THEN [start |-> Max(Times(initial_releases)), finish |-> Max(Times(completion_writes))]
      ELSE [start |-> Min(records.headers), finish |-> Max(records.payloads)]

-----------------------------------------------------------------------------
(* What is checked.                                                        *)

BarrierLength == [r \in RankIds |-> Len(start_measurement_barrier(r))]
IterationLength == [r \in RankIds |-> Len(Iteration(r, 0))]
\* Where rank r begins iteration i (counted from 0); i = Iterations is the
\* finish barrier.
IterationStart(r, i) == BarrierLength[r] + i * IterationLength[r] + 1

\* The gradient that rank 0 applies sums every sample exactly once, and all
\* of it was calculated from the model that is being updated: no shard is
\* missing, added twice or left from an earlier iteration.
GradientComplete ==
  \A r \in RankIds :
    ~Finished(r) /\ Op(r).act = "update" =>
      gradient[r] = [of |-> {model[r]}, counts |-> [s \in 0..(Samples - 1) |-> 1]]

\* Every rank starts iteration i with the model of version i and ends with
\* the last one: no rank trains on or reports a stale model.
ModelsInStep ==
  \A r \in RankIds, i \in 0..Iterations :
    /\ pc[r] = IterationStart(r, i) => model[r] = i
    /\ pc[r] >= IterationStart(r, Iterations) => model[r] = Iterations

\* Both together: the training is the one of a single process.
TrainingExact == GradientComplete /\ ModelsInStep

\* The interval that choose_window finds afterwards in the records of the
\* transport.  It ends after the last update (a single rank has no message
\* after it), and between barriers it begins when every rank is ready: with
\* one rank on a node at the final release of rank 0.  With several, it begins
\* at the release which is as many ranks beyond slot 0 as there are other
\* nodes, while the rest still waits; on one node, with the first work header,
\* before the last release or after it.
WindowHoldsTraining ==
  AllDone => \A nodes \in {2^k : k \in 0..Levels} :
    LET window == choose_window(nodes)
    IN  /\ window.finish = Ranks - 1 + Iterations - (IF Ranks = 1 THEN 1 ELSE 0)
        /\ IF nodes = 1 THEN window.start \in 0..(Ranks - 1)
           ELSE window.start = (Ranks \div nodes) + nodes - 2

\* The interval that rank 0 measures begins on no rank before every rank has
\* reached the start barrier, and ends only when every rank has trained.
BarriersHold ==
  \A r, q \in RankIds :
    /\ pc[r] >= IterationStart(r, 0) =>
         pc[q] > (IF q = 0 THEN Ranks - 1 ELSE 1)
    /\ pc[0] >= IterationStart(0, Iterations) + Ranks - 1 =>
         pc[q] >= IterationStart(q, Iterations)

\* Both measurements of the training time, the one of rank 0 and the one from
\* the transport's records, hold all of the training; where they begin and end
\* is as said above.
MeasuredInterval == BarriersHold /\ WindowHoldsTraining

\* Somebody can always act until every process has ended and no message is
\* left that nobody receives: no two ranks wait for each other, and no GPU is
\* left without a stop header.  As every program is finite, training ends.
NoDeadlock ==
  \/ AllDone
  \/ \E r \in RankIds : ENABLED CpuStep(r)
  \/ \E n \in Gpus : ENABLED GpuStep(n)
=============================================================================
