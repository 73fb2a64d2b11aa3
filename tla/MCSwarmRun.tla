----------------------------- MODULE MCSwarmRun -----------------------------
(* Jobs around the process graph of the MLP and around graphs of a few     *)
(* processes, each with one or two options away from the ordinary ones.    *)
EXTENDS SwarmRun

Gpu(x, y) == [cmd |-> "app", gpgpu |-> TRUE, flits |-> {},
              args |-> <<Word("bin"), Num(x), Num(y)>>]
Cpu(x, y) == [cmd |-> "run-sniper", gpgpu |-> FALSE, flits |-> {},
              args |-> <<Word("--"), Word("cpu"), Num(x), Num(y), Num(7)>>]
NoChiplet == [cmd |-> "app", gpgpu |-> FALSE, flits |-> {},
              args |-> <<Word("bin"), Num(1), Word("x")>>]
Pop(flits) == [cmd |-> "popnet", gpgpu |-> FALSE, flits |-> flits,
               args |-> <<Word("-A"), Num(6), Word("-G"), Parent("topology"),
                          Word("-I"), Parent("bench")>>]

MlpGraph == <<Gpu(0, 0), Gpu(0, 1), Gpu(1, 0), Gpu(1, 1), Cpu(5, 5), Gpu(2, 0), Gpu(0, 3)>>
SmallGraphs ==
  UNION {[1..n -> {Gpu(0, 0), Cpu(5, 5), NoChiplet}] : n \in 1..2}
    \cup {<<Gpu(0, 0), Cpu(5, 5), Gpu(0, 0)>>, <<Cpu(5, 5), Gpu(0, 0), Gpu(0, 1)>>}

Ordinary ==
  [workload |-> "mlp", phase1 |-> MlpGraph, phase2 |-> <<Pop({4})>>,
   policy |-> "contiguous", nodes |-> 2, topology_nodes |-> 2, base_port |-> 9700,
   physical |-> << >>, remote_phase2 |-> TRUE, phase2_backend |-> "popnet",
   gdb_process_index |-> {}, sniper_cores |-> {}, sniper_maxthreads |-> {},
   sniper_fast_forward |-> FALSE, max_completed_cta |-> {},
   max_instructions |-> {}, worker_ready_timeout |-> {},
   swarm_active |-> TRUE, labels |-> [i \in 1..8 |-> {i - 1}]]

On(j, n) == [j EXCEPT !.nodes = n, !.topology_nodes = n]

Policies ==
  {[On(Ordinary, n) EXCEPT !.policy = p, !.workload = w] :
     n \in {1, 2, 4, 8}, p \in {"contiguous", "communication-aware", "rank-aware"},
     w \in {"mlp", "bfs"}}
Graphs ==
  {[On(Ordinary, n) EXCEPT !.workload = "small", !.phase1 = g, !.phase2 = t] :
     n \in {1, 2, 4}, g \in SmallGraphs, t \in {<< >>, <<Pop({4})>>}}
Options ==
  {[Ordinary EXCEPT !.gdb_process_index = g, !.sniper_cores = c, !.sniper_maxthreads = c,
      !.sniper_fast_forward = f, !.max_instructions = m, !.max_completed_cta = t] :
     g \in {{}, {4}}, c \in {{}, {0}, {2}}, f \in BOOLEAN, m \in {{}, {0}, {5}},
     t \in {{}, {0}, {3}}}
Ns3 ==
  {[Ordinary EXCEPT !.phase2_backend = b, !.remote_phase2 = r, !.phase2 = <<Pop(f)>>] :
     b \in {"ns3", "popnet"}, r \in BOOLEAN, f \in {{}, {0}, {4}}}
Swarms ==
  {[Ordinary EXCEPT !.topology_nodes = 4], [Ordinary EXCEPT !.swarm_active = FALSE],
   [Ordinary EXCEPT !.worker_ready_timeout = {0}]}
  \cup {[Ordinary EXCEPT !.base_port = b] : b \in {0, 65535}}
  \cup {[On(Ordinary, 4) EXCEPT !.base_port = b] : b \in {65530, 65531}}
  \cup {[Ordinary EXCEPT !.physical = p] : p \in {<<0, 1>>, <<0>>, <<0, -1>>}}
  \cup {[Ordinary EXCEPT !.labels = l] :
           l \in {<<{0}, {1}>>, <<{0, 1}>>, <<{0}, {0}>>, <<{}, {0, 1}>>}}

Screen ==
  {[On(Ordinary, 1) EXCEPT !.gdb_process_index = g, !.sniper_cores = c, !.sniper_fast_forward = f] :
     g \in {{}, {4}}, c \in {{}, {0}, {2}}, f \in BOOLEAN}

JobsBySample ==
  <<Policies \cup Graphs \cup Options \cup Ns3 \cup Swarms \cup Screen, {On(Ordinary, 1)}>>
=============================================================================
