-------------------------- MODULE TransportStartup --------------------------
(***************************************************************************)
(* How the workers bring up their mesh of SimBricks links                  *)
(* (real/simbricks_worker_supervisor.py, the main of the gateway, and the  *)
(* channels of real/generate_simbricks_topology.py).  Every worker slot    *)
(* runs one supervisor.  For each of its links it starts a gateway and a   *)
(* net_sockets proxy: first the links it listens on, then those on which   *)
(* it connects to a lower slot.  It opens the router and the worker only   *)
(* when every handshake is complete, then watches the proxies.             *)
(*                                                                         *)
(* A process is named <<slot, kind, peer>>.  A timeout is a step that may  *)
(* happen while the supervisor waits, when MayTimeOut allows it.           *)
(***************************************************************************)
EXTENDS Integers, Sequences, FiniteSets

CONSTANTS Nodes,       \* number of worker slots
          MayCrash,    \* processes that may end by themselves
          MayTimeOut,  \* slots whose waits may run out
          SlowConnect  \* slots whose connect may be answered late

Slots == 0..(Nodes - 1)
Peers(s) == Slots \ {s}
Processes ==
  {x \in Slots \X {"gateway", "net"} \X Slots : x[1] # x[3]}
    \cup (Slots \X {"router", "worker"} \X {0})

ASSUME StartupAssumption ==
  /\ Nodes \in Nat \ {0}
  /\ MayCrash \subseteq Processes
  /\ MayTimeOut \subseteq Slots /\ SlowConnect \subseteq Slots

VARIABLES
  pc,        \* pc[s]: the step of Plan[s] the supervisor is at
  sup,       \* sup[s]: starting, cleanup or ended
  process,   \* process[x]: none, trying, up or exited
  children,  \* children[s]: the processes that finally terminates
  ready      \* ready files: pairs <<slot, peer>> whose handshake completed

vars == <<pc, sup, process, children, ready>>

-----------------------------------------------------------------------------
(* The plan of a supervisor.                                               *)

Step(act, q) == [act |-> act, peer |-> q]

\* Channels come in the order of combinations(range(nodes), 2); the lower
\* slot listens.
ListenPeers(s) == [k \in 1..(Nodes - 1 - s) |-> s + k]
ConnectPeers(s) == [k \in 1..s |-> k - 1]

\* Two steps for every peer.
ListenSteps(s) ==
  [i \in 1..2 * (Nodes - 1 - s) |->
     Step(IF i % 2 = 1 THEN "gateway" ELSE "listener", ListenPeers(s)[(i + 1) \div 2])]
ConnectSteps(s) ==
  [i \in 1..2 * s |->
     Step(IF i % 2 = 1 THEN "connector" ELSE "gateway", ConnectPeers(s)[(i + 1) \div 2])]

LaunchSteps == <<Step("ready", 0), Step("stable", 0), Step("router", 0),
                 Step("worker", 0), Step("watch", 0)>>

Plan == [s \in Slots |-> ListenSteps(s) \o ConnectSteps(s) \o LaunchSteps]

Init ==
  /\ pc = [s \in Slots |-> 1]
  /\ sup = [s \in Slots |-> "starting"]
  /\ process = [x \in Processes |-> "none"]
  /\ children = [s \in Slots |-> {}]
  /\ ready = {}

At(s, act) == sup[s] = "starting" /\ Plan[s][pc[s]].act = act
Peer(s) == Plan[s][pc[s]].peer
Gateway(s, q) == <<s, "gateway", q>>
Net(s, q) == <<s, "net", q>>
Router(s) == <<s, "router", 0>>
Worker(s) == <<s, "worker", 0>>

\* Mutant: the child is not appended to children.
Starts_Unregistered(s, x) ==
  /\ process' = [process EXCEPT ![x] = "up"]
  /\ pc' = [pc EXCEPT ![s] = @ + 1]
  /\ UNCHANGED children

Starts(s, x) ==
  /\ process' = [process EXCEPT ![x] = "up"]
  /\ children' = [children EXCEPT ![s] = @ \cup {x}]
  /\ pc' = [pc EXCEPT ![s] = @ + 1]

\* An exception: the finally clause is entered.
Raises(s) == sup' = [sup EXCEPT ![s] = "cleanup"]

-----------------------------------------------------------------------------
(* Starting the links.                                                     *)

\* Mutant: a link is set up to the end before the next one is begun.
StartGateway_Serial(s) ==
  /\ At(s, "gateway")
  /\ \A q \in Peers(s) : process[Gateway(s, q)] = "up" => <<s, q>> \in ready
  /\ Starts(s, Gateway(s, Peer(s)))
  /\ UNCHANGED <<sup, ready>>

StartGateway(s) ==
  /\ At(s, "gateway")
  /\ Starts(s, Gateway(s, Peer(s)))
  /\ UNCHANGED <<sup, ready>>

\* wait_for_path finds the socket of the gateway, which may have exited after
\* it created it; then net_sockets -l.
StartListener(s) ==
  /\ At(s, "listener")
  /\ Starts(s, Net(s, Peer(s)))
  /\ UNCHANGED <<sup, ready>>

\* The gateway exited before it created its socket.
ListenerFails(s) ==
  /\ At(s, "listener")
  /\ process[Gateway(s, Peer(s))] = "exited"
  /\ Raises(s)
  /\ UNCHANGED <<pc, process, children, ready>>

\* wait_for_path finds a connector that died before it created its socket (a
\* refused connect comes later than the socket, and is retried).
ConnectorFails(s) ==
  /\ At(s, "connector")
  /\ Net(s, Peer(s)) \in MayCrash /\ process[Net(s, Peer(s))] = "exited"
  /\ Raises(s)
  /\ UNCHANGED <<pc, process, children, ready>>

Bound(s) == process[Net(Peer(s), s)] = "up"

\* start_connector_with_retry starts net_sockets -L, which exits when the
\* listener of the peer has not bound its port, or stays in connect.
TryConnector(s) ==
  /\ At(s, "connector")
  /\ process[Net(s, Peer(s))] \in {"none", "exited"}
  /\ process' = [process EXCEPT ![Net(s, Peer(s))] =
                   IF Bound(s) THEN "up" ELSE "trying"]
  /\ UNCHANGED <<pc, sup, children, ready>>

\* External: connect is refused, or succeeds late.
ConnectRefused(s, q) ==
  /\ q < s /\ process[Net(s, q)] = "trying" /\ process[Net(q, s)] # "up"
  /\ process' = [process EXCEPT ![Net(s, q)] = "exited"]
  /\ UNCHANGED <<pc, sup, children, ready>>

ConnectAccepted(s, q) ==
  /\ q < s /\ process[Net(s, q)] = "trying" /\ process[Net(q, s)] = "up"
  /\ process' = [process EXCEPT ![Net(s, q)] = "up"]
  /\ UNCHANGED <<pc, sup, children, ready>>

\* The proxy is still there half a second later: it is taken for connected,
\* although its connect may not have been answered yet.
KeepConnector(s) ==
  /\ At(s, "connector")
  /\ \/ process[Net(s, Peer(s))] = "up"
     \/ process[Net(s, Peer(s))] = "trying" /\ s \in SlowConnect
  /\ children' = [children EXCEPT ![s] = @ \cup {Net(s, Peer(s))}]
  /\ pc' = [pc EXCEPT ![s] = @ + 1]
  /\ UNCHANGED <<sup, process, ready>>

\* External: gateway and proxy of both ends exchange their introductions;
\* the gateway writes its ready file.
Handshake(s, q) ==
  /\ <<s, q>> \notin ready
  /\ \A x \in {Gateway(s, q), Gateway(q, s), Net(s, q), Net(q, s)} :
       process[x] = "up"
  /\ ready' = ready \cup {<<s, q>>}
  /\ UNCHANGED <<pc, sup, process, children>>

-----------------------------------------------------------------------------
(* Waiting, launching and watching.                                        *)

Nets(s) == {Net(s, q) : q \in Peers(s)}
\* Mutant: only the links the slot listens on are waited for.
AllReady_Listeners(s) == \A q \in Peers(s) : q > s => <<s, q>> \in ready

AllReady(s) == \A q \in Peers(s) : <<s, q>> \in ready

\* wait_for_ready returns, or finds a gateway that exited.
ReadyPassed(s) ==
  /\ At(s, "ready") /\ AllReady(s)
  /\ pc' = [pc EXCEPT ![s] = @ + 1]
  /\ UNCHANGED <<sup, process, children, ready>>

ReadyFails(s) ==
  /\ At(s, "ready") /\ ~AllReady(s)
  /\ \E q \in Peers(s) : process[Gateway(s, q)] = "exited"
  /\ Raises(s)
  /\ UNCHANGED <<pc, process, children, ready>>

\* wait_for_stable: no proxy exits for a while.
StablePassed(s) ==
  /\ At(s, "stable") /\ \A x \in Nets(s) : process[x] # "exited"
  /\ pc' = [pc EXCEPT ![s] = @ + 1]
  /\ UNCHANGED <<sup, process, children, ready>>

StartRouter(s) ==
  /\ At(s, "router") /\ Starts(s, Router(s)) /\ UNCHANGED <<sup, ready>>

StartWorker(s) ==
  /\ At(s, "worker") /\ Starts(s, Worker(s)) /\ UNCHANGED <<sup, ready>>

\* Mutant: the proxies are not polled once the worker runs.
NetLost_StableOnly(s) ==
  /\ At(s, "stable")
  /\ \E x \in Nets(s) : process[x] = "exited"
  /\ Raises(s)
  /\ UNCHANGED <<pc, process, children, ready>>

\* A poll of wait_for_stable or of the watch loop finds a proxy that exited.
NetLost(s) ==
  /\ At(s, "stable") \/ (At(s, "watch") /\ process[Worker(s)] = "up")
  /\ \E x \in Nets(s) : process[x] = "exited"
  /\ Raises(s)
  /\ UNCHANGED <<pc, process, children, ready>>

\* The worker ended: its exit code becomes the supervisor's.
WorkerEnded(s) ==
  /\ At(s, "watch") /\ process[Worker(s)] = "exited"
  /\ Raises(s)
  /\ UNCHANGED <<pc, process, children, ready>>

\* Mutant: wait_for_ready has no deadline.
TimesOut_NotReady(s) ==
  /\ s \in MayTimeOut
  /\ \/ At(s, "listener")
     \/ At(s, "connector") /\ process[Net(s, Peer(s))] # "up"
  /\ Raises(s)
  /\ UNCHANGED <<pc, process, children, ready>>

\* wait_for_path, start_connector_with_retry or wait_for_ready runs out.
TimesOut(s) ==
  /\ s \in MayTimeOut
  /\ \/ At(s, "listener")
     \/ At(s, "connector") /\ process[Net(s, Peer(s))] # "up"
     \/ At(s, "ready") /\ ~AllReady(s)
  /\ Raises(s)
  /\ UNCHANGED <<pc, process, children, ready>>

\* A process ends by itself.
Crash(x) ==
  /\ x \in MayCrash /\ process[x] = "up"
  /\ process' = [process EXCEPT ![x] = "exited"]
  /\ UNCHANGED <<pc, sup, children, ready>>

Alive(x) == process[x] \in {"up", "trying"}

\* finally: terminate, and kill what does not end within ten seconds.
StopChild(s) ==
  /\ sup[s] = "cleanup"
  /\ \E x \in children[s] :
       /\ Alive(x)
       /\ process' = [process EXCEPT ![x] = "exited"]
  /\ UNCHANGED <<pc, sup, children, ready>>

SupervisorEnds(s) ==
  /\ sup[s] = "cleanup"
  /\ \A x \in children[s] : ~Alive(x)
  /\ sup' = [sup EXCEPT ![s] = "ended"]
  /\ UNCHANGED <<pc, process, children, ready>>

-----------------------------------------------------------------------------
SupervisorStep(s) ==
  \/ StartGateway(s) \/ StartListener(s) \/ ListenerFails(s)
  \/ TryConnector(s) \/ ConnectorFails(s) \/ KeepConnector(s)
  \/ ReadyPassed(s) \/ ReadyFails(s) \/ StablePassed(s)
  \/ StartRouter(s) \/ StartWorker(s) \/ NetLost(s) \/ WorkerEnded(s)
  \/ StopChild(s) \/ SupervisorEnds(s)

LinkStep(s, q) ==
  ConnectRefused(s, q) \/ ConnectAccepted(s, q) \/ Handshake(s, q)

Next ==
  \/ \E s \in Slots : SupervisorStep(s) \/ TimesOut(s)
  \/ \E s \in Slots, q \in Slots : s # q /\ LinkStep(s, q)
  \/ \E x \in Processes : Crash(x)

Spec == Init /\ [][Next]_vars

\* Supervisors run, the links make progress, and a deadline does pass, also
\* when the connector is started again and again (strong fairness: the loop
\* compares the clock with a fixed deadline); nothing has to crash.
Fairness == /\ \A s \in Slots : WF_vars(SupervisorStep(s)) /\ SF_vars(TimesOut(s))
            /\ \A s \in Slots, q \in Slots : WF_vars(s # q /\ LinkStep(s, q))

FairSpec == Spec /\ Fairness

-----------------------------------------------------------------------------
(* What is checked.                                                        *)

\* No PipeComm request can be accepted by a router before every link of its
\* slot has been connected end to end: the gateways of both ends exist, so a
\* first write is neither refused nor lost.
NoEarlyTraffic ==
  \A s \in Slots :
    process[Router(s)] # "none" =>
      \A q \in Peers(s) : process[Gateway(q, s)] # "none" /\ <<s, q>> \in ready

\* A supervisor that has ended leaves no process that it registered, and the
\* worker never outlives it.
CleanExit ==
  \A s \in Slots :
    sup[s] = "ended" =>
      /\ ~Alive(Worker(s)) /\ ~Alive(Router(s))
      /\ \A x \in Processes : x[1] = s /\ Alive(x) =>
           x \notin children[s] /\ x[2] = "net" /\ x[3] < s

\* Every slot opens its worker unless some supervisor gave up or a process
\* died for good: the order of the steps leaves no cycle of slots that wait
\* for one another.
MeshComesUp ==
  \A s \in Slots :
    <>[](\/ process[Worker(s)] # "none"
         \/ \E q \in Slots : sup[q] # "starting"
         \/ \E x \in MayCrash : process[x] = "exited")

\* Start-up never hangs: a supervisor with deadlines opens its worker or gives
\* up, also when a connect was answered too late for the retry to notice, or
\* a process of its own or of a peer died.
StartDecides ==
  \A s \in MayTimeOut : <>(process[Worker(s)] # "none" \/ sup[s] = "ended")

\* The loss of a proxy under a running worker ends that worker.
LossEndsWorker ==
  \A s \in Slots :
    (process[Worker(s)] = "up" /\ \E x \in Nets(s) : process[x] = "exited")
      ~> process[Worker(s)] # "up"
=============================================================================
