----------------------------- MODULE Deployment -----------------------------
(***************************************************************************)
(* The generators of a deployment: real/generate_placement.py,             *)
(* generate_simbricks_topology.py, generate_simbricks_routing.py,          *)
(* generate_distributed_yaml.py and generate_swarm_stack.py.  Each is a    *)
(* program of its own that reads the files of the earlier ones; here each  *)
(* is an operator on a job, and a program that raises returns Rejected.    *)
(*                                                                         *)
(* A job is one workload and the options it is generated with.  An option  *)
(* that may be left out is a set with at most one element.  An argument of *)
(* a process is a number, a word, or a path ../dir/file.                   *)
(***************************************************************************)
EXTENDS Integers, Sequences, FiniteSets

Rejected == [ok |-> FALSE]

Num(n) == <<"num", n>>
Word(w) == <<"word", w>>
Parent(file) == <<"parent", file>>
Local(file) == <<"local", file>>

Range0(n) == 0..(n - 1)
Smallest(S) == CHOOSE n \in S : \A m \in S : n <= m
AtLeast(o, least) == \A v \in o : v >= least

-----------------------------------------------------------------------------
(* generate_placement.py                                                   *)

\* Positions of two arguments in a row that int() accepts.
NumberPairs(args) ==
  {i \in 1..(Len(args) - 1) : args[i][1] = "num" /\ args[i + 1][1] = "num"}

process_coordinates(process) ==
  LET i == Smallest(NumberPairs(process.args))
  IN  <<process.args[i][2], process.args[i + 1][2]>>

\* The identities (phase, process_index) in the order of the source YAML.
source_processes(job) ==
  [i \in 1..Len(job.phase1) |-> <<"phase1", i - 1>>]
    \o [i \in 1..Len(job.phase2) |-> <<"phase2", i - 1>>]
Process(job, id) ==
  IF id[1] = "phase1" THEN job.phase1[id[2] + 1] ELSE job.phase2[id[2] + 1]

One(i) == <<"phase1", i>>
Popnet == <<"phase2", 0>>
communication_aware_mlp_order ==
  <<One(4), One(0), One(1), One(2), One(3), One(5), One(6), Popnet>>
rank_aware_mlp_order ==
  <<One(4), One(0), One(1), One(6), One(2), One(3), One(5), Popnet>>

Order(job) ==
  CASE job.policy = "contiguous" -> source_processes(job)
    [] job.policy = "communication-aware" -> communication_aware_mlp_order
    [] job.policy = "rank-aware" -> rank_aware_mlp_order

Identities(order) == {order[i] : i \in DOMAIN order}

PlacementFits(job) ==
  /\ Len(source_processes(job)) % job.nodes = 0
  /\ job.policy # "contiguous" =>
       /\ job.workload = "mlp"
       /\ Identities(Order(job)) = Identities(source_processes(job))
  /\ job.policy = "rank-aware" => job.nodes \in {1, 2}
  /\ \A i \in DOMAIN job.phase1 : NumberPairs(job.phase1[i].args) # {}

node_slot(job, i) == (i - 1) \div (Len(source_processes(job)) \div job.nodes)

\* A record per process; a phase-two process has no coordinates.
generate_placement(job) ==
  IF ~PlacementFits(job) THEN Rejected ELSE
  [ok |-> TRUE, swarm_nodes |-> job.nodes,
   processes |->
     [i \in DOMAIN Order(job) |->
        LET id == Order(job)[i] IN
        [phase |-> id[1], process_index |-> id[2], node_slot |-> node_slot(job, i),
         coordinates |-> IF id[1] = "phase1" THEN {process_coordinates(Process(job, id))}
                         ELSE {}]]]

\* Mutant: the record at the position of the process, not of its identity.
SlotAtPosition(placement, phase, index) ==
  placement.processes[IF phase = "phase1" THEN index + 1
                      ELSE Len(placement.processes)].node_slot
SlotOf(placement, phase, index) ==
  (CHOOSE p \in {placement.processes[i] : i \in DOMAIN placement.processes} :
     p.phase = phase /\ p.process_index = index).node_slot

-----------------------------------------------------------------------------
(* generate_simbricks_topology.py                                          *)

Combinations(nodes) == {p \in Range0(nodes) \X Range0(nodes) : p[1] < p[2]}
Before(p, q) == p[1] < q[1] \/ (p[1] = q[1] /\ p[2] < q[2])
tcp_port(job, pair) ==
  job.base_port + Cardinality({p \in Combinations(job.topology_nodes) : Before(p, pair)})

generate_simbricks_topology(job) ==
  LET pairs == Combinations(job.topology_nodes)
  IN IF job.base_port \notin 1..65535 \/ \E p \in pairs : tcp_port(job, p) > 65535
     THEN Rejected
     ELSE [ok |-> TRUE, workers |-> Range0(job.topology_nodes),
           channels |-> {[listener_slot |-> p[1], connector_slot |-> p[2],
                          port |-> tcp_port(job, p)] : p \in pairs}]

-----------------------------------------------------------------------------
(* generate_simbricks_routing.py                                           *)

Placed(placement) ==
  UNION {{<<c, placement.processes[i].node_slot>> : c \in placement.processes[i].coordinates} :
           i \in DOMAIN placement.processes}

generate_simbricks_routing(job, placement, topology) ==
  LET nodes == placement.swarm_nodes
      placed == Placed(placement)
  IN IF \/ Cardinality(topology.workers) # nodes
        \/ job.physical # << >> /\ (Len(job.physical) # nodes
                                    \/ \E i \in DOMAIN job.physical : job.physical[i] < 0)
        \/ \E p, q \in placed : p[1] = q[1] /\ p[2] # q[2]
     THEN Rejected
     ELSE [ok |-> TRUE,
           coordinate_to_worker_slot |->
             [c \in {p[1] : p \in placed} |-> CHOOSE s \in Range0(nodes) : <<c, s>> \in placed],
           worker_physical_slots |->
             [s \in Range0(nodes) |-> IF job.physical = << >> THEN 0 ELSE job.physical[s + 1]],
           channel_by_worker_pair |->
             [p \in {<<ch.listener_slot, ch.connector_slot>> : ch \in topology.channels} |-> p]]

-----------------------------------------------------------------------------
(* generate_distributed_yaml.py                                            *)

GdbArguments == Word("--args")
MaxInstructions == Word("--gpgpu-max-instructions")
FastForward == Word("--fast-forward")

YamlOptionsFit(job) ==
  /\ AtLeast(job.max_completed_cta, 1) /\ AtLeast(job.max_instructions, 1)
  /\ ~(job.remote_phase2 /\ job.phase2_backend = "ns3")
  /\ job.phase2_backend = "ns3" =>
       \A i \in DOMAIN job.phase2 : job.phase2[i].flits \subseteq Nat \ {0} /\ job.phase2[i].flits # {}

UnderGdb(job, phase, index) == phase = "phase1" /\ index \in job.gdb_process_index
AsSniper(job, phase, index) ==
  /\ phase = "phase1" /\ ~UnderGdb(job, phase, index)
  /\ Process(job, <<phase, index>>).cmd = "run-sniper"

\* The options are put in front of the arguments one after the other.
Given(flag, o) == IF o = {} THEN << >> ELSE <<Word(flag), Num(CHOOSE v \in o : TRUE)>>
SniperOptions(job) ==
  (IF job.sniper_maxthreads = {} THEN << >>
   ELSE <<<<"maxthreads", CHOOSE v \in job.sniper_maxthreads : TRUE>>>>)
    \o (IF job.sniper_fast_forward THEN <<FastForward>> ELSE << >>)
    \o Given("-n", job.sniper_cores)

\* Phase two reads ../file from its own directory: the proxy stages the file
\* and the child gets its base name.
Staged(a) == IF a[1] = "parent" THEN Local(a[2]) ELSE a

command(job, phase, index) ==
  LET process == Process(job, <<phase, index>>)
      native == <<Word(process.cmd)>> \o process.args
  IN CASE UnderGdb(job, phase, index) -> <<Word("gdb"), GdbArguments>> \o native
       [] AsSniper(job, phase, index) ->
            <<Word(process.cmd)>> \o SniperOptions(job) \o process.args
       [] phase = "phase2" -> [i \in DOMAIN native |-> Staged(native[i])]
       [] OTHER -> native

wrap_process(job, placement, phase, index) ==
  LET process == Process(job, <<phase, index>>)
      limits == IF phase = "phase1" /\ process.gpgpu
                THEN Given("--gpgpu-max-completed-cta", job.max_completed_cta)
                       \o Given("--gpgpu-max-instructions", job.max_instructions)
                ELSE << >>
  IN [worker |-> {SlotOf(placement, phase, index)}, process_id |-> <<phase, index>>,
      stage_files |-> IF phase = "phase2"
                      THEN {a \in {process.args[i] : i \in DOMAIN process.args} : a[1] = "parent"}
                      ELSE {},
      args |-> limits \o command(job, phase, index)]

\* A process that stays with the coordinator; ns-3 replaces PopNet there.
KeepLocal(job, index) ==
  LET process == job.phase2[index + 1]
  IN [worker |-> {}, process_id |-> <<"phase2", index>>, stage_files |-> {},
      args |-> IF job.phase2_backend = "ns3"
               THEN <<Word("ns3_phase2_runner"), Num(8 * (CHOOSE f \in process.flits : TRUE))>>
               ELSE <<Word(process.cmd)>> \o process.args]

generate_distributed_yaml(job, placement) ==
  LET snipers == {i \in Range0(Len(job.phase1)) : AsSniper(job, "phase1", i)}
      positive == AtLeast(job.sniper_cores, 1) /\ AtLeast(job.sniper_maxthreads, 1)
  IN IF ~YamlOptionsFit(job) \/ (snipers # {} /\ ~positive) THEN Rejected ELSE
     [ok |-> TRUE,
      phase1 |-> [i \in DOMAIN job.phase1 |-> wrap_process(job, placement, "phase1", i - 1)],
      phase2 |-> [i \in DOMAIN job.phase2 |->
                    IF job.remote_phase2 THEN wrap_process(job, placement, "phase2", i - 1)
                    ELSE KeepLocal(job, i - 1)]]

\* run_mlp_scalability.py takes the limits of a smoke test out again: the
\* flag and the value behind it, and the fast-forward flag.
remove_gpgpu_instruction_limits(args) ==
  LET keep(i) == args[i] # MaxInstructions /\ (i = 1 \/ args[i - 1] # MaxInstructions)
      kept == SelectSeq([i \in 1..Len(args) |-> i], keep)
  IN [k \in DOMAIN kept |-> args[kept[k]]]

remove_sniper_fast_forward(args) ==
  SelectSeq(args, LAMBDA a : a # FastForward)

-----------------------------------------------------------------------------
(* generate_swarm_stack.py                                                 *)

\* A service, the node labels it is bound to (the coordinator is bound to the
\* manager) and the names it answers to.
TransportService(slot) ==
  [service |-> "transport", slot |-> slot, label |-> {slot},
   aliases |-> {<<"worker", slot>>, <<"transport", slot>>}]
CoordinatorService ==
  [service |-> "coordinator", slot |-> 0, label |-> {}, aliases |-> {<<"coordinator", 0>>}]

\* worker_ready_timeout stands for the options that are checked like it.
generate_swarm_stack(job, placement, topology, routing) ==
  IF \/ Cardinality(topology.workers) # placement.swarm_nodes
     \/ DOMAIN routing.coordinate_to_worker_slot = {}
     \/ ~AtLeast(job.worker_ready_timeout, 1)
  THEN Rejected
  ELSE [ok |-> TRUE,
        services |-> {CoordinatorService}
                       \cup {TransportService(s) : s \in Range0(placement.swarm_nodes)}]

-----------------------------------------------------------------------------
(* The generators in a row, as run_one of run_real_swarm.py calls them.    *)

Deployed(job) ==
  LET placement == generate_placement(job)
      topology == generate_simbricks_topology(job)
      routing == generate_simbricks_routing(job, placement, topology)
      yaml == generate_distributed_yaml(job, placement)
      stack == generate_swarm_stack(job, placement, topology, routing)
  IN IF placement.ok /\ topology.ok /\ routing.ok /\ yaml.ok /\ stack.ok
     THEN [ok |-> TRUE, placement |-> placement, topology |-> topology,
           routing |-> routing, yaml |-> yaml, stack |-> stack]
     ELSE Rejected
=============================================================================
