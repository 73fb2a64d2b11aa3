----------------------------- MODULE PlatformNode -----------------------------
(***************************************************************************)
(* The stand-alone platform: platform/node.py on every container and       *)
(* scripts/run_experiments.py, which places the roles and collects the     *)
(* measurement.  Every node runs one asyncio loop that answers requests;   *)
(* the node of cpu0 also runs the controller.  The controller asks every   *)
(* CPU for its workload; a CPU runs a task for each of its two GPUs; in a  *)
(* round a task moves its inputs to the GPU, lets it compute and moves the *)
(* result back.  A move between two nodes asks ns-3 for its delay.         *)
(*                                                                         *)
(* A request can fail (the handler raises, the connection breaks) or take  *)
(* longer than its timeout; who asked then raises while the other side     *)
(* goes on, and asyncio.gather raises with its first task and leaves the   *)
(* others running.  Time and byte counts are left out.                     *)
(***************************************************************************)
EXTENDS Integers, Sequences, FiniteSets

CONSTANTS Configs,     \* configurations; cpus bounds the CPUs that take part
          MaxFaults    \* requests that fail or time out in one run

ASSUME PlatformAssumption ==
  /\ \A c \in Configs : /\ c.container_count \in {1, 2, 4, 8}
                        /\ c.cpus \subseteq 0..3 /\ 0 \in c.cpus
                        /\ \A i \in DOMAIN c.proxies : c.proxies[i] \in 1..c.container_count
                        /\ c.rounds \in Nat \ {0} /\ c.input_messages_per_round \in Nat
  /\ MaxFaults \in Nat

VARIABLES
  config,       \* SIM_CONFIG
  controller,   \* "start", "gather", "measured", "stopping", "stopped" or "dead"
  cpu,          \* cpu[c]: the controller's request to CPU c
  task,         \* task[g]: the task of GPU g on the node of its CPU
  late,         \* requests whose sender has given up
  computed,     \* computed[g]: kernels that GPU g has run for this task
  delays,       \* delays[g]: delays that ns-3 has calculated for this task
  told,         \* nodes that the controller has asked to stop
  stop_event,   \* nodes whose stop_event is set
  faults

container_count == config.container_count
Cpus == config.cpus
Rounds == config.rounds
InputMessages == config.input_messages_per_round
vars == <<config, controller, cpu, task, late, computed, delays, told, stop_event, faults>>

-----------------------------------------------------------------------------
(* Placement of run_experiments.py.                                        *)

Cpu(i) == <<"cpu", i>>
Gpu(i) == <<"gpu", i>>
Ns3 == <<"ns3", 0>>

placement_for(n) ==
  CASE n = 1 -> <<{Cpu(i) : i \in 0..3} \cup {Gpu(i) : i \in 0..7} \cup {Ns3}>>
    [] n = 2 -> <<{Cpu(0), Cpu(1), Gpu(0), Gpu(2), Gpu(4), Gpu(6)},
                  {Cpu(2), Cpu(3), Gpu(1), Gpu(3), Gpu(5), Gpu(7), Ns3}>>
    [] n = 4 -> <<{Cpu(0), Gpu(0), Gpu(3)}, {Cpu(1), Gpu(2), Gpu(5)},
                  {Cpu(2), Gpu(4), Gpu(7)}, {Cpu(3), Gpu(6), Gpu(1), Ns3}>>
    [] n = 8 -> <<{Cpu(0), Gpu(0)}, {Cpu(1), Gpu(2)}, {Cpu(2), Gpu(4)}, {Cpu(3), Gpu(6)},
                  {Gpu(1)}, {Gpu(3)}, {Gpu(5)}, {Gpu(7), Ns3}>>

roles(n) == placement_for(container_count)[n]
Nodes == 1..container_count
host_for_role(role) == CHOOSE n \in Nodes : role \in roles(n) /\ \A m \in 1..(n - 1) : role \notin roles(m)

CpuOf(g) == g \div 2
GpusOf(c) == {2 * c, 2 * c + 1}
Gpus == UNION {GpusOf(c) : c \in Cpus}

-----------------------------------------------------------------------------
(* A task is at one action of one round: an input, the kernel, the result. *)

Kernel == InputMessages + 1
Result == InputMessages + 2

Init ==
  /\ config \in Configs
  /\ controller = "start"
  /\ cpu = [c \in Cpus |-> "none"]
  /\ task = [g \in Gpus |-> [at |-> "none", round |-> 0, action |-> 1]]
  /\ late = {} /\ computed = [g \in Gpus |-> 0] /\ delays = [g \in Gpus |-> 0]
  /\ told = 0 /\ stop_event = {} /\ faults = 0

Sequence(g) == g * 1000 + task[g].round * 10
  + (CASE task[g].action = Kernel -> 8
       [] task[g].action = Result -> 9
       [] OTHER -> task[g].action - 1)
proxy_for(sequence) ==
  LET proxies == config.proxies
  IN  IF proxies = << >> THEN {} ELSE {proxies[(sequence % Len(proxies)) + 1]}

\* Where the request of a task ends up; a move on one node asks nobody.
IsLocal(g) ==
  task[g].action # Kernel /\ host_for_role(Cpu(CpuOf(g))) = host_for_role(Gpu(g))
Target(g) == host_for_role(IF task[g].action = Kernel THEN Gpu(g) ELSE Ns3)

\* The task after its action.
Advanced(t) ==
  CASE t.action # Result -> [t EXCEPT !.at = "run", !.action = @ + 1]
    [] t.action = Result /\ t.round + 1 < Rounds -> [at |-> "run", round |-> t.round + 1, action |-> 1]
    [] OTHER -> [t EXCEPT !.at = "done"]

-----------------------------------------------------------------------------
(* The controller and the CPUs.                                            *)

run_controller ==
  /\ controller = "start" /\ controller' = "gather"
  /\ cpu' = [c \in Cpus |-> IF proxy_for(c) = {} THEN "asked" ELSE "at-proxy"]
  /\ UNCHANGED <<config, task, late, computed, delays, told, stop_event, faults>>

ForwardToCpu(c) ==
  /\ cpu[c] = "at-proxy" /\ proxy_for(c) \cap stop_event = {}
  /\ cpu' = [cpu EXCEPT ![c] = "asked"]
  /\ UNCHANGED <<config, controller, task, late, computed, delays, told, stop_event, faults>>

\* A CPU takes its request, late or not, and starts its two tasks.
cpu_workload(c) ==
  /\ cpu[c] \in {"asked", "given-up"} /\ host_for_role(Cpu(c)) \notin stop_event
  /\ \A g \in GpusOf(c) : task[g].at = "none"
  /\ cpu' = [cpu EXCEPT ![c] = IF @ = "asked" THEN "working" ELSE @]
  /\ task' = [g \in Gpus |-> IF g \in GpusOf(c) THEN [task[g] EXCEPT !.at = "run"] ELSE task[g]]
  /\ UNCHANGED <<config, controller, late, computed, delays, told, stop_event, faults>>

CpuAnswers(c) ==
  /\ cpu[c] = "working" /\ host_for_role(Cpu(c)) \notin stop_event
  /\ \/ /\ \A g \in GpusOf(c) : task[g].at = "done"
        /\ cpu' = [cpu EXCEPT ![c] = "ok"]
     \/ /\ \E g \in GpusOf(c) : task[g].at = "error"
        /\ cpu' = [cpu EXCEPT ![c] = "error"]
  /\ UNCHANGED <<config, controller, task, late, computed, delays, told, stop_event, faults>>

\* Mutant: the first CPU that answers is taken for all.
MeasureAtFirst ==
  /\ controller = "gather" /\ \E c \in Cpus : cpu[c] = "ok"
  /\ controller' = "measured"
  /\ UNCHANGED <<config, cpu, task, late, computed, delays, told, stop_event, faults>>
\* gather returns when every CPU has answered and raises with the first
\* that failed; nobody looks at the controller's task then.
Measure ==
  /\ controller = "gather" /\ \A c \in Cpus : cpu[c] = "ok"
  /\ controller' = "measured"
  /\ UNCHANGED <<config, cpu, task, late, computed, delays, told, stop_event, faults>>

ControllerRaises ==
  /\ controller = "gather" /\ \E c \in Cpus : cpu[c] \in {"error", "given-up"}
  /\ controller' = "dead"
  /\ UNCHANGED <<config, cpu, task, late, computed, delays, told, stop_event, faults>>

-----------------------------------------------------------------------------
(* run_gpu.                                                                *)

\* The next action: a move on one node is nothing, any other a request to
\* the target or to a proxy.
RunGpu(g) ==
  /\ task[g].at = "run"
  /\ task' = [task EXCEPT ![g] =
       IF IsLocal(g) THEN Advanced(task[g])
       ELSE [@ EXCEPT !.at = IF proxy_for(Sequence(g)) = {} THEN "asked" ELSE "at-proxy"]]
  /\ UNCHANGED <<config, controller, cpu, late, computed, delays, told, stop_event, faults>>

Forward(g) ==
  /\ task[g].at = "at-proxy" /\ proxy_for(Sequence(g)) \cap stop_event = {}
  /\ task' = [task EXCEPT ![g].at = "asked"]
  /\ UNCHANGED <<config, controller, cpu, late, computed, delays, told, stop_event, faults>>

Kernels(g) == IF task[g].action = Kernel THEN 1 ELSE 0

\* gpu_compute or ns3_delay on the target, and the answer.
Serve(g) ==
  /\ task[g].at = "asked" /\ Target(g) \notin stop_event
  /\ computed' = [computed EXCEPT ![g] = @ + Kernels(g)]
  /\ delays' = [delays EXCEPT ![g] = @ + 1 - Kernels(g)]
  /\ task' = [task EXCEPT ![g] = Advanced(@)]
  /\ UNCHANGED <<config, controller, cpu, late, told, stop_event, faults>>

\* The target works on a request that was given up.
ServeLate(g) ==
  /\ g \in late /\ Target(g) \notin stop_event
  /\ computed' = [computed EXCEPT ![g] = @ + Kernels(g)]
  /\ delays' = [delays EXCEPT ![g] = @ + 1 - Kernels(g)]
  /\ late' = late \ {g}
  /\ UNCHANGED <<config, controller, cpu, task, told, stop_event, faults>>

Fault == faults < MaxFaults /\ faults' = faults + 1

\* The handler answers ok = false, or no connection comes about.
RequestFails(g) ==
  /\ task[g].at \in {"asked", "at-proxy"} /\ Fault
  /\ task' = [task EXCEPT ![g].at = "error"]
  /\ UNCHANGED <<config, controller, cpu, late, computed, delays, told, stop_event>>

RequestTimesOut(g) ==
  /\ task[g].at \in {"asked", "at-proxy"} /\ Fault
  /\ task' = [task EXCEPT ![g].at = "error"]
  /\ late' = late \cup {g}
  /\ UNCHANGED <<config, controller, cpu, computed, delays, told, stop_event>>

CpuTimesOut(c) ==
  /\ cpu[c] \in {"at-proxy", "asked", "working"} /\ Fault
  /\ cpu' = [cpu EXCEPT ![c] = "given-up"]
  /\ UNCHANGED <<config, controller, task, late, computed, delays, told, stop_event>>

-----------------------------------------------------------------------------
(* The end: the other nodes in the order of the placement, then its own.   *)

Controller == host_for_role(Cpu(0))

Shutdown ==
  /\ controller \in {"measured", "stopping"} /\ told < container_count
  /\ told' = told + 1 /\ controller' = "stopping"
  /\ stop_event' = stop_event \cup ({told + 1} \ {Controller})
  /\ UNCHANGED <<config, cpu, task, late, computed, delays, faults>>

\* An OSError, a timeout among them, is passed over; an answer that cannot
\* be parsed or says ok = false is not.
ShutdownFails ==
  /\ controller \in {"measured", "stopping"} /\ told < container_count
  /\ told + 1 # Controller /\ Fault
  /\ told' = told + 1 /\ controller' \in {"stopping", "dead"}
  /\ stop_event' \in {stop_event, stop_event \cup {told + 1}}
  /\ UNCHANGED <<config, cpu, task, late, computed, delays>>

\* Mutant: the controller does not stop its own node.
StopOthersOnly ==
  /\ controller \in {"measured", "stopping"} /\ told = container_count
  /\ controller' = "stopped"
  /\ UNCHANGED <<config, cpu, task, late, computed, delays, told, stop_event, faults>>
StopSelf ==
  /\ controller \in {"measured", "stopping"} /\ told = container_count
  /\ controller' = "stopped" /\ stop_event' = stop_event \cup {Controller}
  /\ UNCHANGED <<config, cpu, task, late, computed, delays, told, faults>>

Progress ==
  \/ run_controller \/ Measure \/ ControllerRaises \/ Shutdown \/ StopSelf
  \/ \E c \in Cpus : ForwardToCpu(c) \/ cpu_workload(c) \/ CpuAnswers(c)
  \/ \E g \in Gpus : RunGpu(g) \/ Forward(g) \/ Serve(g) \/ ServeLate(g)
Faults ==
  \/ ShutdownFails \/ \E c \in Cpus : CpuTimesOut(c)
  \/ \E g \in Gpus : RequestFails(g) \/ RequestTimesOut(g)
Next == Progress \/ Faults

Spec == Init /\ [][Next]_vars
\* Every node runs an event loop that comes back to every ready task; as the
\* work is finite, it is enough that some task goes on.
FairSpec == Spec /\ WF_vars(Progress)

-----------------------------------------------------------------------------
(* Properties.                                                             *)

\* A measurement is one of the whole workload: every GPU has run each of its
\* rounds once, ns-3 was asked once for every move between two nodes and
\* never for a move on one, and from then on nobody works or waits, so that
\* no node is stopped while another one needs it.
MeasuredWhole ==
  controller \in {"measured", "stopping", "stopped"} \/ stop_event # {} =>
    /\ late = {}
    /\ \A g \in Gpus :
         /\ task[g].at = "done" /\ computed[g] = Rounds
         /\ delays[g] = (IF host_for_role(Cpu(CpuOf(g))) = host_for_role(Gpu(g)) THEN 0
                         ELSE Rounds * (InputMessages + 1))

\* Without a fault every placement, with proxies or not, runs to its end and
\* every node stops.
RunEnds == <>(stop_event = Nodes \/ faults > 0)

\* "Report errors to controller instead of hanging a run" (handle): after a
\* task has failed, every node is told to stop sooner or later.  The error does
\* reach the gather of the controller, but that is a task which nobody awaits:
\* no stop_event is set and every node waits on its own for ever.
ErrorEndsRun == (\E g \in Gpus : task[g].at = "error") ~> stop_event = Nodes
===============================================================================
