# ChipSystemSim: TLA+ models and proofs

ChipSystemSim runs LEGOSim, a simulator of chiplet systems, on several
machines. Every chiplet is simulated by a process (Sniper, GPGPU-Sim, MNSIM);
the processes exchange messages through named pipes (PipeComm). This project
models the parts of the repository that carry its own logic, the distributed
runtime around LEGOSim, as TLA+ modules, checks them with TLC on small
instances and proves the central facts with TLAPS for every instance.

Contents: [1 the system](#1-the-system) · [2 modules](#2-the-modules) ·
[3 runs](#3-the-runs) · [4 proofs](#4-the-proofs) ·
[5 what the checks found](#5-what-the-checks-found) ·
[6 not modelled](#6-not-modelled-and-why) · [7 plan](#7-plan) ·
[8 running it](#8-running-it)

## 1. The system

```
 coordinator slot                          worker slot s
 +----------------------+   TCP frames   +---------------------------------+
 | LEGOSim, phase one   |                | supervisor                      |
 |  proxy per simulator |<-------------->| worker -> simulators            |
 |  (process_proxy.py)  |  spawn/output/ |   | remotePipeWrite/Read (TCP)  |
 | bench_popnet trace   |  stdin/exit    | router -- local pipes           |
 |   |                  |                |   | one gateway per peer slot   |
 |   v                  |                | gateway == BaseIf ring ==       |
 | ns3_phase2 replay    |                |          net_sockets proxy      |
 |   |                  |                +---------------|-----------------+
 |   v delayInfo        |                                | TCP
 | next round           |                        the other worker slots
 +----------------------+
```

| Component | State | Operations | Interacts with | What is hard | What makes it correct |
|---|---|---|---|---|---|
| PipeComm client `real/remote_pipe_comm.h` | one connection per call | write, read | router of its slot | blocks until answered | success means handed over |
| Router `real/simbricks_pipe_router.py` | local pipes, one Condition per pipe | handle, peer_for, handle_local, forward | clients, gateways | coroutines that share pipes; a gateway that is gone | local pipes are FIFOs; answers are passed on |
| Gateway `real/simbricks_pipe_gateway.cc` | `outgoing_`, `incoming_`, rings, `stopping` | HandleClient threads, ForwardOneWrite, ReceiveAll, TERMINATE, exit | router, opposite gateway | threads, unlock between look and send, full ring, stop | the link is a FIFO; nobody sleeps through its payload |
| Supervisor `real/simbricks_worker_supervisor.py` | child processes, ready files | start, retry, wait, watch, clean up | supervisors of all other slots | cycles of waiting, timeouts, late connects, deaths | no traffic before the mesh is up; no hang; no orphan |
| Worker `real/worker.py` | work directories, shared assets, children | spawn, forward output, stdin, exit | proxies, simulators | coroutines on one run directory; lost connections | complete output before exit; nobody starts during a copy |
| Proxy `real/process_proxy.py` | connection, exit code | connect with retry, relay | worker, LEGOSim | worker or proxy dies | ends when its simulator ends |
| FIFO broker `real/fifo_broker.py` | deque and Condition per pipe | write, read (JSON and native) | `fifo_client.py` | notify(1) with several readers, sizes that differ | payloads leave in order; no reader is stranded |
| MLP benchmark `real/mlp_dp_cpu.cpp`, `mlp_dp_gpu.cu` | model, gradient per rank | send, reduce, update, broadcast, barriers | PipeComm | blocking sends in trees, stale data | every sample once, one model version |
| Phase two `real/ns3_phase2.cc` | per-message state, ns-3 events | replay, acknowledge, write delays and metrics | timing loop, collector | drops, event order, rounding, missing routes | delays are possible, failures explained |
| Metrics `scripts/collect_timing_metrics.py`, `summarize_steady_measurement.py` | records | pair, choose the window, clip, union | router log, ns-3 CSV | records carry no message id; barriers are told by byte counts | pairs are messages; unions are measures; the window is where it is said to be |
| Generators `real/generate_placement.py`, `generate_simbricks_topology.py`, `generate_simbricks_routing.py`, `generate_distributed_yaml.py`, `generate_swarm_stack.py` | none | pure functions from a workload and options to a file each | all of the above | five programs with separate options; positional argument edits | the files agree on slots, channels and services |
| Local Swarm runners `scripts/run_real_swarm.py`, `run_imported_swarm.py` | one stack of a fixed name | check, generate, deploy, poll, judge, collect, remove | generators, Docker | asynchronous removal, replaced tasks, exceptions between steps | earned verdict, nothing left behind |
| Remote runners `scripts/run_remote_functional_matrix.py`, `run_mlp_scalability.py`, `run_mlp_dp_matrix.py` | one stack per sample, over SSH | the same, with prewarming and log markers | generated files, Docker | logs that outlive their service; queries that fail; three polling loops | the same; workers before the coordinator; every sample ends |
| Platform node `platform/node.py`, placed by `scripts/run_experiments.py` | roles, requests, stop event | controller, CPU and GPU handlers, proxying, shutdown | ns-3 delay service | nested gathers, timeouts with work left running | a measurement is whole; every node stops, after an error too |
| Timing loop `real/entrypoint.sh`, `ns3_phase2_runner.py`, `scripts/validate_ns3_timing_feedback.py` | bench, delayInfo | rounds of phase one and two | LEGOSim, phase two | files left by a failed round | planned |
| Matmul benchmark | blocks of rows | distribute, multiply, collect | PipeComm | message size limit | planned |

PROJECT.json lists every component with its status, and under `hazards` the
lines where something can go wrong that a test would hardly reach.

## 2. The modules

| Module | Models | Extends |
|---|---|---|
| `PipeFifo` | what PipeComm promises: one FIFO per pipe | |
| `PipeTransport` | client, router, gateways, rings, proxies of the links | |
| `PipeTransportProps` | refinement mapping to `PipeFifo`, properties of answers, liveness | `PipeTransport` |
| `PipeTransport_proofs` | types, the link is a FIFO, what answers mean, no lost wake-up; the transport implements `PipeFifo` | `PipeTransportProps` |
| `TransportStartup` | supervisors that bring up the mesh | |
| `TransportStartup_proofs` | routers open last, supervisors end clean | `TransportStartup` |
| `WorkerProtocol` | proxies and the worker | |
| `WorkerProtocol_proofs` | whole output, own work directories, settled assets | `WorkerProtocol` |
| `LossyFifo` | what the broker promises: `PipeFifo` with payloads that a read of another size destroys | `PipeFifo` |
| `FifoBroker` | the reference broker, with its mapping to `LossyFifo` | |
| `FifoBroker_proofs` | the broker implements `LossyFifo` and strands no reader | `FifoBroker` |
| `MlpDp` | the data-parallel MLP, and the window that the summary finds in its records | |
| `Ns3Phase2` | the replay, its delay file and its metrics | |
| `Ns3Phase2_proofs` | answers are never early, failures have a cause, what the delay file says | `Ns3Phase2` |
| `PipeMetrics` | the router's records, the collector, the clipped union of the summary | |
| `PipeMetrics_proofs` | the collector pairs exactly the transfers | `PipeMetrics` |
| `Deployment` | the five generators and the removal of smoke-test limits, as operators | |
| `SwarmRun` | a sample of each of the five runners, and Docker Swarm around it | `Deployment` |
| `SwarmRun_proofs` | workers before the coordinator, clean end, earned success | `SwarmRun` |
| `PlatformNode` | the stand-alone platform and its placements | |
| `PlatformNode_proofs` | a measurement is whole | `PlatformNode` |
| `MC*` | small instances for TLC | |

**PipeTransport.** A request is followed by `phase[c]`: `sent` to the router,
`localwait` in `handle_local`, `atgateway`, `wwait` or `rwait` in
`HandleClient`, `reply` and `relay` on the way back, `replied` in the client.
`asleep` holds the requests whose coroutine or thread sleeps on a condition
variable, so a notification that is missing is visible. Router coroutines are
atomic between awaits and gateway threads between unlocks:
`ForwardPeek`, `ForwardFull`/`ForwardSend` and `ForwardComplete` are the three
critical sections of `ForwardOneWrite`, and handlers run between them.
`ReadPop` removes the payload and `SendReply` writes it, so a death in between
is possible. A payload is `[pipe, owner, k, size]`: the k-th request of its
owner. `submitted`, `arrived`, `taken` and `got` are histories. `ProxyMove`
and `ProxyTerminate` stand for net_sockets, which is external: it moves frames
in order and passes TERMINATE on behind them. `Exit` is main's return: it
destroys `incoming_ready_`, which blocks while a handler sleeps on it (nothing
notifies after `stopping` is set), so it waits until no reader sleeps. What
ends such a gateway is its supervisor, which sees the proxy that sent TERMINATE
end and terminates its children (`Kill`).

**TransportStartup.** `Plan[s]` is the sequence of steps of a supervisor's
main, built from the channel list of `generate_simbricks_topology.py`; `pc[s]`
is the step it is at. A connect is `trying` until the peer's listener answers;
`KeepConnector` is the half-second poll that takes a connector for connected.

**WorkerProtocol.** Every await of `handle` is a step: the spawn request, the
directory, the asset lock, the copy, the launch, the main loop, the two
`forward_stream` tasks, the gather and the exit frame. A chunk of output is
its number in its stream; the result marker is a third stream. `drain` of a
child's stdin may block until the child reads (`Drained`) or ends; a cp that
fails leaves its destination missing or incomplete.

**FifoBroker.** One request per connection; `waiters[p]` is the order in which
`asyncio.Condition` wakes sleepers. A read pops the head and then compares
its size, as the code does; `lost` are the payloads destroyed that way. The
broker therefore does not implement `PipeFifo`, and `LossyFifo` says what it
implements.

**MlpDp.** A CPU rank is its list of PipeComm calls, `Program(r)`, built by
operators named after the functions of the source; a GPU is a loop of three
steps. A gradient is the multiset of samples that were added and the versions
of the models it was computed from. `SynchronousSend` tells whether
`sendMessage` returns before its message is taken (LEGOSim is outside the
repository); the run uses the blocking form, which is the one in which ranks
that send to each other can deadlock. The other form (the constant FALSE, 3.8
million states) satisfies the same safety properties; it takes too long for a
regular run. `records` are the router's records of the writes. Their clock
`Now` ticks with every release of rank 0 and with every update, so that the
order of releases among each other can be seen; `choose_window` is evaluated
on them when everything has ended, for one, two and four nodes.

**Ns3Phase2.** ns-3 is external and modelled as a discrete-event simulator
with whole nanoseconds and drop-tail queues; events due at the same instant
are taken in any order. The program's own code — fragments, tags, completion,
acknowledgements, rounding, delay lines, CSV, JSON — is modelled line by line
but for the text formats. A topology may have several components; a record
between two of them makes `SendTo` fail and the program throw (`SendFails`).

**PipeMetrics.** The transport is the FIFO of `PipeFifo`, which
`PipeTransport` implements. The records are what the router prints; the
collector's operators are evaluated on the log of every reachable state.

**Deployment.** A job is a workload graph with the options of the five
programs. Each program is an operator that returns what it writes, or
`Rejected` where it raises; `Deployed` runs them in the order of `run_one`.
Arguments keep their kind (number, word, path), because
`process_coordinates`, `remove_gpgpu_instruction_limits` and the staging of
phase two go by kind and position. `TransportStartup` starts from the channels
this topology has, and `PipeTransport` assumes the routing this one writes.

**SwarmRun.** `pc` is where a runner is: `generate`, `settle-rm`, `settle`,
`deploy`, `prewarm`, `scale`, `poll`, `decide`, `collect`, `remove`,
`removal`, `ended`. `kind` chooses the runner and with it the actions of the
polling phase; the phases that the runners share are one action each. Docker
is `stack`, `net`, `tasks` and `log`: removal takes two later steps, a rejected
task stays listed in front of its replacement, and log lines of a service name
stay when the service is gone. A log line carries the sample that printed it,
and `owner` the sample whose tasks are listed, which the runner cannot see: a
deployment into a stack that is still alive keeps its tasks. Every query can
fail. The local runners raise then; the remote ones take a failing query for
the answer "gone" (`Unanswered`, and `blind` remembers it). A coordinator may
complete without its marker. Ready lines are counted, not collected: a
transport that restarts prints a second one. `deploy_sample` first reads the
logs (`ReadLogs`, `read`) and then the state it judges by (`PollScalability`).
`"hand"` is a person who calls the generators only, with any options; the
remote runners deploy such files.

**PlatformNode.** `cpu[c]` is the controller's request to a CPU, `task[g]` a
`run_gpu` coroutine with its round and action, `late` the requests whose caller
has given up while the target still works on them. A message between two
components on one node asks nobody. A request of the controller or of a task
goes through the proxy that `proxy_for` chooses, which may time out on it
while the target still works.

Simplifications common to all modules: payloads, names and commands are
abstract values; the bounds `MaxOps`, `MaxChunks`, `MaxStdin`, `MaxTime` cap
what clients do, not what the components can hold.

## 3. The runs

| Run | Instance | Shows |
|---|---|---|
| `transport_failures` | a writer on slot 0, two readers on slot 1 that may die, two requests each, a pipe to a chiplet nobody hosts, rings of one entry; one gateway may be killed, the other terminated | types; the link between gateways is a FIFO; OK means the payload is on the ring and `ERR transport` that it was not and will not be sent; a popped payload is only lost with its reader or a gateway; the whole is one FIFO per pipe |
| `transport_progress` | a pipe inside a slot and one across slots, three clients; the reading gateway may be terminated | no handler sleeps while what it waits for is there; every write is answered; a reader whose payload is at the head is served; both pipes are FIFOs; requests caught at a stopping gateway are answered, by its supervisor if by nobody else |
| `startup` | three slots; processes of the middle slot may die, its waits may run out, its connects may be late | no traffic before the handshakes; nothing registered survives; no cycle of waiting slots; a start decides; a lost link ends the worker |
| `worker_relay` | one simulator with three chunks of output, two stdin frames that it need not read; proxy and worker may die | complete and ordered output with the right code; the end is reported; orphans are stopped |
| `worker_shared` | two spawns of one process_id that share an asset; a copy may fail and leave nothing or an incomplete file | own work directories; no start while the asset is missing or being copied, and on an incomplete one only after a refused spawn; every spawn is answered |
| `broker` | three clients, two requests each, sizes -1, 1, 2 and 3 of which the last is too large | no reader is stranded by notify(1); every payload leaves in order, to one reader that asked for its size or destroyed by one that did not |
| `mlp` | four ranks with two GPUs each, eight samples, two iterations | every update has every sample once and of the present model; models are in step; the interval of rank 0 holds the training of every rank; where the window of the summary of one, two or four nodes begins and ends; no deadlock |
| `ns3` | all pairs of 1- to 5-flit records of three kinds on a row of four chiplets beside another row without a connection, queues of three packets, with and without localization | acknowledgements are never early; failures have a cause; delays are possible; exactly cross-worker delays are removed; both totals agree; the replay ends (deadlock check) |
| `metrics` | one pipe, two sizes, two requests per side, three clock ticks, gateways may stop | pairs are messages; nothing is unmatched without a cause; exposed time is transport time; unions are measures, also clipped to any window |
| `swarm` | six kinds of caller, two samples, two output directories, two nodes, two coordinator tasks, two lines of every kind; about 300 jobs (the MLP graph of 8 processes on 1, 2, 4, 8 nodes under three policies, all graphs of one or two processes, options one or two away from the ordinary ones) | the generated files agree; the coordinator waits for this sample's workers; a judged sample leaves nothing behind where Docker answered; a success is this sample's own; every sample ends |
| `platform` | every placement with CPUs 0 and 3, one CPU with two rounds and two inputs, proxies; at most one fault | a measurement covers the whole workload and nobody works after it; a run without a fault ends on every node |
| `platform_error` | two nodes, every request through a proxy, one fault; ends in a violation | the comment "Report errors to controller instead of hanging a run" does not hold: the error arrives and the run hangs |

Why the bounds are enough. Two samples are what it
takes to meet the remains of an earlier one, in the same output directory or
in another; two tasks let one be rejected and replaced; 8 processes are the
whole MLP graph. In `platform` the tasks of different CPUs meet only in the
controller's gather, so two CPUs show what four do. The transport's runs use one
payload size, because two do not fit into a run; its safety properties are
proved for all `Sizes`, the liveness properties are checked for one. Two requests per client
let one request be in the
way of the next (a full ring, a stale wake-up, a reused work directory). Rings
of one entry are full after one payload. Three slots are the smallest mesh with
a slot that both listens and connects, four ranks the smallest tree with two
levels, 5 flits are three datagrams, and queues of three packets drop when two
such messages meet. Distinct states: `transport_failures` 310,000,
`transport_progress` 28,000, `worker_relay` 41,618, `worker_shared` 22,108,
`broker` 1.05 million, `mlp` 882,183, `ns3` 98,886, `metrics` about a million,
`swarm` 816,510, `platform` about 100,000. In `swarm` only worker 1 restarts, and
only before the coordinator is scaled; a stack that no later sample looks at
is not followed any further. Deadlock
checking is off where clients may simply stop
calling.

The mutants in PROJECT.json change a mapped definition as a plausible bug
would (`X_Something` before `X`); each property is violated by its mutant.

Fairness. `transport_*`: the threads, coroutines and proxies that can act
eventually do, as the operating system and the event loop guarantee; clients
need not call, nothing has to fail; a supervisor ends the slot, and with it
the gateway, when a proxy it watches has ended (weak fairness of `Kill` for a
gateway that was sent TERMINATE). `startup`: supervisors and links act; a
deadline that is checked again and again passes (strong fairness of
`TimesOut`, since the retry loop compares with a fixed time); nothing has to
crash. `worker_*`: ready coroutines run, a simulator that got SIGTERM (or
SIGKILL afterwards) ends; no simulator has to end by itself or to read its
stdin. `swarm`: the
runner's own steps and the deadlines of the two removal waits (weak); the
deadline of the polling loops (strong), since it is one fixed time, stays
passed, and is tested whenever the loop comes back to its head. This assumes
that docker commands return, with whatever answer or error: the `subprocess.run`
of the local runners has no timeout (`run_real_swarm.py:34-42`), and a command
that hangs holds its sample for ever. Nothing else is assumed of Docker.
`platform`: some ready coroutine goes on (weak fairness of
`Progress`); the work is finite, so no coroutine is passed over for ever.

Restrictions to know of. `NoLostWakeup` and `ReadServed` are checked with one
reader per pipe: with two readers of one pipe that wait for different sizes, a
pop that uncovers a head of the other size notifies nobody
(`simbricks_pipe_gateway.cc:177`, likewise `handle_local`), and the other
reader sleeps until the next arrival. No program of the repository reads a
pipe from two processes. `LossNeedsFailure` speaks of states in which no
gateway has exited; the death of a router, which loses the answers it holds,
is not modelled. `PairingExact` speaks of running
gateways, because a request refused with `ERR` is logged like a completed one
(`simbricks_pipe_router.py:92-143`), and a record that one side lacks shifts
the pairs that follow. `EndedClean` speaks of samples that came to their
removal and were not given up in it, and of the remote runners only where
Docker answered. `SuccessIsEarned` asks, of what the runners other than
`deploy_sample` take from the log, that the name has no older log; section 5
says why. `RunEnds` speaks of runs without a fault, `ErrorEndsRun` of the others.

## 4. The proofs

TLAPS checks twenty-three theorems for every value of the constants that satisfies
the named assumptions. TLC evaluates these on every run; they say no more than
the code fixes:

| Assumption | Says |
|---|---|
| `TransportAssumption`, `NoMsgAssumption` | routing entries name slots, clients live on placed chiplets, sizes are integers, rings have at least one entry |
| `StartupAssumption` | at least one slot |
| `WorkerAssumption` | finitely many spawn requests, each other than the value `"free"` of the lock |
| `BrokerAssumption` | finitely many clients, integer sizes |
| `Ns3Assumption` | routes between the nodes; positive sizes, rate, delay and queue length; the numbers of a record are unsigned |
| `MetricsAssumption` | message sizes, the bounds on requests and on the clock are natural numbers |
| `SwarmAssumption` | the known runners; positive counts |
| `PlatformAssumption` | the placements of `run_experiments.py`; at least one round |

One theorem has a hypothesis that the code does not enforce, and says so:
`NoWakeupIsLost` needs `OneProcessPerChiplet` (section 3). The run that checks
the same property satisfies it, and TLC shows that it cannot be dropped.

An invariant that is not inductive was strengthened, the strengthening checked
with TLC as an invariant of the run, and then proved. Each proof has one step
or lemma per action.

**Transport** (`PipeTransport_proofs`)

* `TypeCorrect`: `Spec => []TypeOK`. The payload of a request is one of `Msgs`
  only if the request was issued (`CallInv`), and `ForwardOneWrite` uses the
  front of `outgoing_` in a later critical section (`LoopInv`: the loop is past
  its look only when `outgoing_` is not empty). `TypeInv` is the conjunction.
* `LinkIsFifo`: `Spec => []LinkFifo`. What was submitted at a gateway is what
  arrived opposite, the two rings and what is unsent, in this order, whatever
  is killed or terminated. `Unsent` leaves out the front of `outgoing_` between
  `OutSend` and `pop_front`. Every action moves a head to the end of the
  sequence before it (`MoveHead`, `MoveAcross`) or appends at both ends.
* `OkIsSubmitted`, `ErrTransportIsUnsent`: what a caller may conclude from an
  answer. `WireInv` ties `done` to the wire (a write is done exactly when it
  was sent), `AnswerInv` ties the answer to `done` and to the state of the
  gateway; `RingStep` says that the wire of a link only grows.
* `PopReachesReader`: `Spec => []LossNeedsFailure`. `LossInv`: what was taken
  for a client is what it got, followed by what its pending answer holds.
* `NoWakeupIsLost`. `WakeInv`: who sleeps is in a wait, and its predicate is
  false. With one process per chiplet, a pop cannot uncover the payload of
  another sleeper.
* `TransportIsFifo`: `Spec => ImplementsFifo`, the refinement of `PipeFifo`. A
  pipe is the concatenation of `incoming_`, the rings and what is unsent,
  restricted to that pipe. `FifoInv` adds to the above that a request waits
  where its pipe is (`PlaceInv`) and that what is queued or taken belongs to a
  write that is past its router or gateway (`FreshInv`). So a write is a `Put`
  of a new payload when it enters `outgoing_` or a local pipe, a pop is a
  `Take`, and all moves in between stutter. What `OfPipe` returns for a longer
  sequence is an induction over lengths, done on sets of numbers
  (`SetInduction`).

**Broker** (`FifoBroker_proofs`)

* `BrokerIsLossyFifo`: `Spec => ImplementsLossyFifo`. `Write` is `LossyPut`;
  `ReadPop` is `LossyTake` when the sizes agree and `Destroy` when they do not.
  `Put` requires a fresh payload, which needs `Numbered`: a payload anywhere,
  destroyed ones included, belongs to an earlier request of its owner, or to the
  present one after `Write` has served it.
* `NoReaderStranded`: `Spec => []NoStrandedReader`. A counting argument over
  the finite set of clients: on every pipe with sleepers there are at least as
  many readers awake as there are payloads.

**Supervisor** (`TransportStartup_proofs`)

* `RouterOpensLast`, `SupervisorsEndClean`. `StartupInv` is `StartupType`,
  `OrderInv` (who is past `ready` has seen all ready files, and a ready link
  has a gateway at both ends) and `OwnerInv` (a process is registered with its
  supervisor or is a connector under trial, and who has ended has stopped all
  it registered). `PlanShape` derives for any number of slots that the plan is
  link steps followed by ready, stable, router, worker, watch.

**Worker and proxy** (`WorkerProtocol_proofs`)

* `OutputIsFaithful`. `Relayed`: of each stream, the frames under way are, in
  order and without a gap, what is missing in the shown chunks of those that
  were forwarded. The exit frame is the last one, and there is one only when
  all that was written has been forwarded.
* `WorkdirsDiffer`: a suffix is never given twice. That a free one is always
  found is a pigeonhole argument over the finite set of requests.
* `AssetIsSettled`: a coroutine that copies holds the lock, so nobody starts
  during a copy; an asset that is neither missing nor whole has such a
  coroutine, or a worker that died in it, or a spawn that was refused after its
  cp failed. No assumption is made on how cp fails.

**Phase two** (`Ns3Phase2_proofs`)

* `AnswersAreNeverEarly`, `FailuresHaveACause`, `LinesAreOrdered`,
  `CounterfactualIsExact`, from one invariant `Ns3Inv`.
  `TimeInv`: no event lies in the past. `AckInv`: nothing of an answer exists
  before its time, and a request that has not been sent has neither arrived
  nor a datagram in the network; the second half is what keeps the arrival
  time that the first half refers to. `FlowInv`: a datagram of a direction
  that was sent is dropped, counted, in a queue or on a link, and a direction
  that has counted all is complete. A network that drains without a drop
  has therefore counted everything (`DrainedComplete`). `PaceInv`: nothing of
  a request is in the network before the start of its record, and a datagram
  beyond its source was counted there as sent; so a direction that is complete
  was sent before it arrived, and a request arrives later than its record
  starts. `LinesInv` carries this into the delay file: delays of sending and of
  arrival are ordered, and a line without any delay is a localized one. These
  are the conjuncts `DelaysOrdered` and `LocalizedExactly` of `ReportExact`.

**Metrics** (`PipeMetrics_proofs`)

* `PairingIsExact`: `Spec => []PairingExact`. The records carry no message
  number, so the collector pairs the n-th write of a key with its n-th read.
  `MetricsInv` says for a run whose gateways are up: `LogInv`, the records of
  one client are those of its requests, in their order, with the stamps that
  belong to them; `ItemsInv`, the list of a key holds each record of that key
  once and in the order of its stamps, so that the collector's stable sort
  changes nothing (`SortedInOrder`); `FlowInv`, of every size the messages
  read, those being read and those in the FIFO are, in this order, the messages
  written and those whose write is not yet recorded; `AheadInv`, a read ends
  no earlier than the write of its message began, so the collector's filter
  drops no pair. Equal positions are then equal messages (`PairsOfMessages`),
  and when nothing is under way the pairs are in bijection with the recorded
  writes and with the recorded reads (`QuietPairs`), which gives the counts.
  What `Only` selects of a longer log is an induction over sets of numbers, as
  for the transport.

**Runners** (`SwarmRun_proofs`)

* `EndsClean`: `CleanInv`, nothing of a name is left when its runner has ended
  by way of its removal and no query of that wait went unanswered.
* `CoordinatorWaits`: as many ready lines of this sample as there are nodes are
  those of all workers, a pigeonhole argument, unless a line is a restart's.
* `SuccessEarned`. `SuccessInv`: only the latest task can have completed
  (`TaskInv`); a name that is new has no log, and what its log holds is the
  sample's own (`NameInv`); a stack that `run_one` or `deploy_sample` deployed
  is theirs (`owner`); what a runner remembers of earlier polls still holds
  (`SeenInv`) and gives the verdict its reason (`OkInv`).

**Platform** (`PlatformNode_proofs`)

* `MeasurementIsWhole`: `TallyInv`, the round and action a task is at
  determine how many kernels and delays there have been; `GatherInv`, only a
  task that raised leaves a late request, and both gathers carry its error up
  before a measurement.

Some definitions are written in the form the provers can read: `OfPipe` is a
recursive function instead of `SelectSeq`, `Combinations`, `Processes` and
`Devices` avoid tuple patterns, `ListenSteps` and `ConnectSteps` index the
channel list by arithmetic, and the collector's lists are `RecordsOf`, by the
recursive function `Only`. TLC checks the same runs on them.

Only model-checked, and why:

* all liveness properties (`WriteAnswered`, `ReadServed`, `RunEnds` and so on)
  and `MlpDp!NoDeadlock` (ENABLED): outside this prover;
* `MlpDp!TrainingExact` and `MeasuredInterval`: the programs of the ranks are
  sequences built by recursion over the tree of ranks and compared with bags of
  samples, which needs induction over data;
* the rest of `Ns3Phase2!ReportExact`: `DelaysFeasible` (sums over sets, `Hops`,
  a recursion along the route, and that a file is only written without a drop)
  and `TotalsAgree` (sums over sets);
* `PipeMetrics!TimesExact`: unions of intervals, computed by folds over the
  sorted list;
* `SwarmRun!GeneratorsAgree`: the generators are folds over the workload.

## 5. What the checks found

One run ends in a violation, `platform_error`. The other disagreements with a
comment or docstring are in behaviours that the passing runs have; there the
property states what does hold, with the exception the code makes, and TLC
refutes the property without the exception. PROJECT.json lists the first six
as findings.

* `node.py:239`: the controller's task is never awaited. After an error no node
  is told to stop, and every container waits for ever, although `handle` means
  to "report errors to controller instead of hanging a run" (line 106).
* `summarize_steady_measurement.py:86-88`: `peer_count` counts slots, not ranks
  as the docstring and the comment say. With several ranks on a node the window
  begins before the final release, on one node at the first header.
* `worker.py:182`: a `cp` that fails after creating its destination leaves a
  file that the existence check of the next spawn takes for the asset, while
  the comment at line 24 rules out incomplete files.
* `fifo_broker.py:51`, `:87` pop the head before comparing sizes; a read of
  another size destroys the payload although the docstring (line 70) says that
  a read waits for one of the same size. The router and the gateway look before
  they pop.
* `run_remote_functional_matrix.py:47`: the wait for a removal takes a query that
  fails for the answer "gone", and the remote runners deploy into a live stack
  or end beside one.
* `run_mlp_scalability.py:293`: ready lines are counted by occurrence, and a
  transport that restarts counts twice; the coordinator can start before the
  last worker.
* `run_real_swarm.py:70-92`: Swarm lists a rejected task next to its
  replacement. While that one prepares, `coordinator_state` is `Rejected` and
  the run is given up, although its docstring wants a failure only when no
  viable task remains. `run_imported_swarm.py:160` gives up on `missing` too,
  which is also the state right after a deployment.
* `run_mlp_scalability.py:145`: a terminal state is recognised only when
  nothing follows its name; `docker service ps` prints an age there, so a
  natural completion ends by its deadline (`aged`).
* `run_mlp_dp_matrix.py:115` and `run_remote_functional_matrix.py`: stack names
  without the output directory find the retained log of an earlier matrix.
* `run_remote_functional_matrix.py:128`: a deployment error returns, and an SSH
  error raises, without a removal; the next sample of that name removes first.
* `run_mlp_scalability.py:317-332`: the logs are read before the state; a task
  that completes in between is judged `incomplete-native-phase-graph`.
* `run_mlp_dp_matrix.py:163`: `result.json` says completed before the models
  are compared with the reference (line 199).
* The default matrix of `run_real_swarm.py` asks for node counts that some of
  its workloads cannot be split into; `generate_placement.py` refuses.
* `simbricks_worker_supervisor.py:213`: gateways are not watched, so a dead one
  is noticed only by requests that the router then refuses; a write whose peer
  gateway is gone waits once the ring is full, until the supervisor ends the
  slot. A reader that sleeps at a gateway which got TERMINATE is not answered by
  it and keeps it from exiting. A connector that `wait_for_path` gave up on is
  not in `children` and outlives its supervisor (`CleanExit` excepts it).

Lines where something can go wrong that no property covers: two readers of one
pipe with different sizes (`simbricks_pipe_gateway.cc:177`); stdin drained into
a simulator that has just exited (`worker.py:261`: the handler takes its error
path and the exit is not reported); `delayInfo` truncated before the first
record is looked up (`ns3_phase2.cc:347`); a torn last trace line that ends the
input silently (`ns3_phase2.cc:204`); refused requests that are logged like
completed ones, and a gateway that dies between submission and record
(`simbricks_pipe_router.py:92`, `:145`).

## 6. Not modelled, and why

* ns-3, net_sockets, SimBricks' shared memory, LEGOSim, the simulators and
  Docker are outside the repository and modelled as external where modelled
  code needs them.
* The ns-3 timing loop and the matrix multiplication are control that could be
  modelled and is not yet (section 7).
* Of the runners: SFTP, the files that are saved, the timing numbers and
  tables, the formats that docker prints. Of `run_experiments.py`: Compose's
  stop signal and the collection of the one result line.
* Shell drivers of docker in docker, latency probes, plots and summaries,
  source patches and overlays, single-process workload ports: sequential
  scripts without state that another part depends on. Vendored code.
* Floating-point results and message bytes are abstracted.

## 7. Plan

Done, in order of importance: transport (2 specifications, refinement,
proofs), worker and proxy, supervisor, broker (refinement, proof), MLP with
its measured window, phase two, metrics, generators, runners, platform node;
then theorems for all of these but MLP and generators.
Next:

1. Theorems: that phase two writes no delay file after a drop, which needs that
   a datagram is in one place at a time; the endpoints of the generators; from
   `MlpDp`, that ranks never meet a message of another phase.
2. `TimingLoop`: rounds of phase one and two over `bench` and `delayInfo`, the
   runner's and the validator's checks, torn and left-over files; composed
   with the outcome of `Ns3Phase2`.
3. `MatmulDp`: distribution of rows, message limit, collection, termination.

Abstract specifications worth adding: a timing round (a delay file is the
result of a complete replay of the trace of the same round) and a spawn
service (each request yields one simulator and one result).

## 8. Running it

In this directory: `tlc -workers 2 -config X.cfg M` for the pairs in
PROJECT.json, and `tlapm M.tla` for each `*_proofs` module. Every run takes
less than three minutes, a proof module from one to ten.
