---------------------- MODULE TransportStartup_proofs ----------------------
(***************************************************************************)
(* What the supervisors promise for any number of worker slots, whatever   *)
(* processes crash, waits run out and connects are slow: no router is open *)
(* before its links are, and a supervisor that ends leaves nothing behind  *)
(* that it had taken over.                                                 *)
(***************************************************************************)
EXTENDS TransportStartup, SequenceTheorems, TLAPS

-----------------------------------------------------------------------------
(* The plan: link steps, then ready, stable, router, worker, watch.        *)

LinkActs == {"gateway", "listener", "connector"}
Acts == LinkActs \cup {"ready", "stable", "router", "worker", "watch"}

\* What the proofs need to know of the plan of a slot.
PlanFacts(s, plan, n) ==
  /\ n \in Nat
  /\ Len(plan) = n + 5
  /\ \A i \in 1..n : plan[i].act \in LinkActs
  /\ \A i \in 1..n : plan[i].peer \in Peers(s)
  /\ \A i \in 1..n : plan[i].act = "connector" => plan[i].peer < s
  /\ plan[n + 1].act = "ready" /\ plan[n + 2].act = "stable"
  /\ plan[n + 3].act = "router" /\ plan[n + 4].act = "worker" /\ plan[n + 5].act = "watch"

LEMMA StepFields == \A x, q : Step(x, q).act = x /\ Step(x, q).peer = q
BY DEF Step

\* Two sequences, one after the other.
JoinOf(S, a, b, d) ==
  /\ d \in Seq(S) /\ Len(d) = Len(a) + Len(b)
  /\ \A i \in 1..Len(a) : d[i] = a[i]
  /\ \A i \in 1..Len(b) : d[Len(a) + i] = b[i]

LEMMA Joined ==
  \A S, a, b, d : a \in Seq(S) /\ b \in Seq(S) /\ d = a \o b => JoinOf(S, a, b, d)
BY DEF JoinOf

LEMMA Tabulated ==
  ASSUME NEW S, NEW m \in Nat, NEW f, f \in [1..m -> S]
  PROVE  f \in Seq(S) /\ Len(f) = m
OBVIOUS

LEMMA PlanShape ==
  \A s \in Slots : \E n : PlanFacts(s, Plan[s], n)
<1> TAKE s \in Slots
<1>1. s \in Nat /\ s <= Nodes - 1 /\ Nodes \in Nat
  BY StartupAssumption DEF Slots
<1> DEFINE a == ListenSteps(s)
           b == ConnectSteps(s)
           c == LaunchSteps
           p == Plan[s]
           S == {Step(x, q) : x \in Acts, q \in Int}
           m == 2 * (Nodes - 1 - s)
           k == 2 * s
<1>2. m \in Nat /\ k \in Nat
  BY <1>1
<1>3. a \in [1..m -> S] /\ \A i \in 1..m : /\ a[i].act \in {"gateway", "listener"}
                                           /\ a[i].peer \in Peers(s)
  <2>1. \A i \in 1..m : (i + 1) \div 2 \in 1..(Nodes - 1 - s)
    BY <1>1
  <2>2. \A i \in 1..m : ListenPeers(s)[(i + 1) \div 2] \in (s + 1)..(Nodes - 1)
    BY <1>1, <2>1 DEF ListenPeers
  <2>3. \A i \in 1..m : \E x \in {"gateway", "listener"}, q \in (s + 1)..(Nodes - 1) : a[i] = Step(x, q)
    BY <2>2 DEF ListenSteps
  <2>4. a = [i \in 1..m |-> a[i]]
    BY DEF ListenSteps
  <2>5. \A q \in (s + 1)..(Nodes - 1) : q \in Int /\ q \in Peers(s)
    BY <1>1 DEF Slots, Peers
  <2> HIDE DEF a, m
  <2> QED BY <1>2, <2>3, <2>4, <2>5, StepFields DEF Acts, LinkActs
<1>4. b \in [1..k -> S] /\ \A i \in 1..k : /\ b[i].act \in {"connector", "gateway"}
                                           /\ b[i].peer \in Peers(s) /\ b[i].peer < s
  <2>1. \A i \in 1..k : (i + 1) \div 2 \in 1..s
    BY <1>1
  <2>2. \A i \in 1..k : ConnectPeers(s)[(i + 1) \div 2] \in 0..(s - 1)
    BY <1>1, <2>1 DEF ConnectPeers
  <2>3. \A i \in 1..k : \E x \in {"connector", "gateway"}, q \in 0..(s - 1) : b[i] = Step(x, q)
    BY <2>2 DEF ConnectSteps
  <2>4. b = [i \in 1..k |-> b[i]]
    BY DEF ConnectSteps
  <2>5. \A q \in 0..(s - 1) : q \in Int /\ q \in Peers(s) /\ q < s
    BY <1>1 DEF Slots, Peers
  <2> HIDE DEF b, k
  <2> QED BY <1>2, <2>3, <2>4, <2>5, StepFields DEF Acts, LinkActs
<1>5. /\ c \in Seq(S) /\ Len(c) = 5
      /\ c[1].act = "ready" /\ c[2].act = "stable" /\ c[3].act = "router"
      /\ c[4].act = "worker" /\ c[5].act = "watch"
  <2>1. \A x \in Acts : Step(x, 0) \in S
    OBVIOUS
  <2> HIDE DEF S
  <2> QED BY <2>1, StepFields DEF LaunchSteps, Acts
<1>6. p = a \o b \o c
  BY DEF Plan
<1> HIDE DEF a, b, c, p, m, k, S
<1>7. /\ Len(p) = m + k + 5
      /\ \A i \in 1..m : p[i] = a[i]
      /\ \A i \in 1..k : p[m + i] = b[i]
      /\ \A i \in 1..5 : p[m + k + i] = c[i]
  <2>1. a \in Seq(S) /\ Len(a) = m
    BY <1>2, <1>3, Tabulated
  <2>2. b \in Seq(S) /\ Len(b) = k
    BY <1>2, <1>4, Tabulated
  <2>3. PICK d : d = a \o b
    OBVIOUS
  <2>4. JoinOf(S, a, b, d)
    BY <2>1, <2>2, <2>3, Joined, Zenon
  <2>5. p = d \o c
    BY <1>6, <2>3
  <2>6. d \in Seq(S)
    BY <2>4 DEF JoinOf
  <2>7. JoinOf(S, d, c, p)
    BY <1>5, <2>5, <2>6, Joined, Zenon
  <2>8. Len(d) = m + k /\ (\A i \in 1..m : d[i] = a[i]) /\ \A i \in 1..k : d[m + i] = b[i]
    BY ONLY <1>2, <2>1, <2>2, <2>4 DEF JoinOf
  <2>9. /\ Len(p) = m + k + 5 /\ (\A i \in 1..(m + k) : p[i] = d[i])
        /\ \A i \in 1..5 : p[m + k + i] = c[i]
    BY ONLY <1>2, <1>5, <2>7, <2>8 DEF JoinOf
  <2>10. /\ \A i \in 1..m : i \in 1..(m + k)
         /\ \A i \in 1..k : m + i \in 1..(m + k)
    BY ONLY <1>2
  <2> QED BY ONLY <2>8, <2>9, <2>10
<1>8. \A i \in 1..(m + k) : /\ p[i].act \in LinkActs /\ p[i].peer \in Peers(s)
                            /\ p[i].act = "connector" => p[i].peer < s
  <2> TAKE i \in 1..(m + k)
  <2>1. CASE i \in 1..m
    BY <1>3, <1>7, <2>1 DEF LinkActs
  <2>2. CASE i - m \in 1..k
    <3>1. p[i] = b[i - m]
      BY <1>2, <1>7, <2>2
    <3> QED BY <1>4, <2>2, <3>1 DEF LinkActs
  <2> QED BY <1>2, <2>1, <2>2
<1>9. /\ p[m + k + 1].act = "ready" /\ p[m + k + 2].act = "stable"
      /\ p[m + k + 3].act = "router" /\ p[m + k + 4].act = "worker"
      /\ p[m + k + 5].act = "watch"
  BY <1>5, <1>7
<1>10. PlanFacts(s, p, m + k)
  BY <1>2, <1>7, <1>8, <1>9 DEF PlanFacts
<1> QED BY <1>10 DEF p

-----------------------------------------------------------------------------
(* The inductive invariant.                                                *)

\* The steps of a plan come in order: who is past "ready" has seen all its
\* ready files, and a router exists only in a slot that has.
OrderInv ==
  /\ \A s \in Slots : \A i \in 1..(pc[s] - 1) : Plan[s][i].act = "ready" => AllReady(s)
  /\ \A s \in Slots : process[Router(s)] # "none" => AllReady(s)
  /\ \A s \in Slots : \A q \in Peers(s) :
       <<s, q>> \in ready => process[Gateway(q, s)] # "none"

\* A process belongs to the supervisor of its slot, which registered it, if
\* it is not a connector under trial; a supervisor that ended has stopped
\* all that it registered.
OwnerInv ==
  /\ \A s \in Slots : \A x \in children[s] : x \in Processes /\ x[1] = s
  /\ \A x \in Processes :
       process[x] # "none" => x \in children[x[1]] \/ (x[2] = "net" /\ x[3] < x[1])
  /\ \A s \in Slots : sup[s] = "ended" => \A x \in children[s] : ~Alive(x)

StartupType ==
  /\ pc \in [Slots -> Int]
  /\ \A s \in Slots : pc[s] \in 1..Len(Plan[s])
  /\ sup \in [Slots -> {"starting", "cleanup", "ended"}]
  /\ process \in [Processes -> {"none", "trying", "up", "exited"}]
  /\ DOMAIN children = Slots

StartupInv == StartupType /\ OrderInv /\ OwnerInv

LEMMA Names ==
  /\ \A s \in Slots : \A q \in Peers(s) :
       /\ q \in Slots /\ s \in Peers(q)
       /\ Gateway(s, q) \in Processes /\ Net(s, q) \in Processes
  /\ \A s \in Slots : Router(s) \in Processes /\ Worker(s) \in Processes
  /\ \A s, q : /\ Gateway(s, q)[1] = s /\ Gateway(s, q)[2] = "gateway"
               /\ Net(s, q)[1] = s /\ Net(s, q)[2] = "net" /\ Net(s, q)[3] = q
               /\ Router(s)[1] = s /\ Router(s)[2] = "router"
               /\ Worker(s)[1] = s /\ Worker(s)[2] = "worker"
<1>1. \A s \in Slots : \A q \in Peers(s) : q \in Slots /\ s \in Peers(q)
  BY DEF Peers
<1>2. \A s \in Slots : \A q \in Peers(s) :
        Gateway(s, q) \in Processes /\ Net(s, q) \in Processes
  <2> TAKE s \in Slots
  <2> TAKE q \in Peers(s)
  <2>1. s # q /\ q \in Slots
    BY DEF Peers
  <2> QED BY <2>1 DEF Processes, Gateway, Net
<1>3. \A s \in Slots : Router(s) \in Processes /\ Worker(s) \in Processes
  BY DEF Processes, Router, Worker
<1> QED BY <1>1, <1>2, <1>3 DEF Gateway, Net, Router, Worker

\* What is known of a supervisor that is at a step of its plan.
LEMMA AtStep ==
  ASSUME StartupType, NEW s \in Slots, NEW act, At(s, act)
  PROVE  /\ act \in LinkActs => Peer(s) \in Peers(s)
         /\ act = "connector" => Peer(s) < s
         /\ act = "router" => \E i \in 1..(pc[s] - 1) : Plan[s][i].act = "ready"
         /\ act # "watch" => pc[s] + 1 \in 1..Len(Plan[s])
<1>1. PICK n : PlanFacts(s, Plan[s], n)
  BY PlanShape
<1>2. PICK i \in Int : i = pc[s]
  BY DEF StartupType
<1>3. PICK plan : plan = Plan[s]
  OBVIOUS
<1>4. i \in 1..(n + 5) /\ n \in Nat /\ plan[i].act = act
  BY <1>1, <1>2, <1>3 DEF StartupType, PlanFacts, At
<1>5. /\ i \in 1..n => act \in LinkActs /\ plan[i].peer \in Peers(s)
      /\ i \in 1..n /\ act = "connector" => plan[i].peer < s
      /\ i = n + 1 => act = "ready"
      /\ i = n + 2 => act = "stable"
      /\ i = n + 3 => act = "router"
      /\ i = n + 4 => act = "worker"
      /\ i = n + 5 => act = "watch"
      /\ plan[n + 1].act = "ready"
  BY <1>1, <1>3, <1>4 DEF PlanFacts
<1>6. i \in 1..n \/ i = n + 1 \/ i = n + 2 \/ i = n + 3 \/ i = n + 4 \/ i = n + 5
  BY <1>4
<1>7. act \in LinkActs => i \in 1..n
  BY <1>5, <1>6 DEF LinkActs
<1>8. act = "router" => i = n + 3
  BY <1>5, <1>6 DEF LinkActs
<1>9. act # "watch" => i + 1 \in 1..(n + 5)
  BY <1>4, <1>5, <1>6
<1>10. Peer(s) = plan[i].peer /\ Len(Plan[s]) = n + 5
  BY <1>1, <1>2, <1>3 DEF Peer, PlanFacts
<1>11. act = "router" => n + 1 \in 1..(i - 1)
  BY <1>4, <1>8
<1> QED BY <1>2, <1>3, <1>5, <1>7, <1>9, <1>10, <1>11 DEF LinkActs

\* A step that moves the pc of one supervisor, past "ready" only when all
\* its ready files are there.
LEMMA PcMoves ==
  ASSUME StartupInv, NEW s \in Slots,
         pc[s] + 1 \in 1..Len(Plan[s]), pc' = [pc EXCEPT ![s] = @ + 1],
         Plan[s][pc[s]].act = "ready" => AllReady(s), ready \subseteq ready'
  PROVE  /\ pc' \in [Slots -> Int]
         /\ \A t \in Slots : pc'[t] \in 1..Len(Plan[t])
         /\ \A t \in Slots : \A i \in 1..(pc'[t] - 1) :
              Plan[t][i].act = "ready" => AllReady(t)'
<1>1. \A t \in Slots : pc[t] \in Int /\ pc'[t] = IF t = s THEN pc[s] + 1 ELSE pc[t]
  BY DEF StartupInv, StartupType
<1>2. pc' \in [Slots -> Int]
  BY DEF StartupInv, StartupType
<1>3. \A t \in Slots : pc'[t] \in 1..Len(Plan[t])
  BY <1>1 DEF StartupInv, StartupType
<1>4. \A t \in Slots : AllReady(t) => AllReady(t)'
  BY DEF AllReady
<1>5. ASSUME NEW t \in Slots, NEW i \in 1..(pc'[t] - 1), Plan[t][i].act = "ready"
      PROVE  AllReady(t)'
  <2>1. i \in 1..(pc[t] - 1) \/ (t = s /\ i = pc[s])
    BY <1>1
  <2>2. AllReady(t)
    BY <1>5, <2>1 DEF StartupInv, OrderInv
  <2> QED BY <1>4, <2>2
<1> QED BY <1>2, <1>3, <1>5

\* The same for a step that leaves pc alone.
LEMMA PcStays ==
  ASSUME StartupInv, pc' = pc, ready \subseteq ready'
  PROVE  /\ pc' \in [Slots -> Int]
         /\ \A t \in Slots : pc'[t] \in 1..Len(Plan[t])
         /\ \A t \in Slots : \A i \in 1..(pc'[t] - 1) :
              Plan[t][i].act = "ready" => AllReady(t)'
<1>1. \A t \in Slots : AllReady(t) => AllReady(t)'
  BY DEF AllReady
<1> QED BY <1>1 DEF StartupInv, StartupType, OrderInv

-----------------------------------------------------------------------------
(* The shapes a step can have.                                             *)

\* A process is started and registered by its supervisor.
LEMMA StartedKeeps ==
  ASSUME StartupInv, NEW s \in Slots, sup[s] = "starting",
         NEW x \in Processes, x[1] = s, Starts(s, x), UNCHANGED <<sup, ready>>,
         pc[s] + 1 \in 1..Len(Plan[s]), Plan[s][pc[s]].act # "ready",
         x = Router(s) => AllReady(s)
  PROVE  StartupInv'
<1>1. \A y \in Processes : process'[y] = IF y = x THEN "up" ELSE process[y]
  BY DEF StartupInv, StartupType, Starts
<1>2. \A t \in Slots : children'[t] = IF t = s THEN children[t] \cup {x} ELSE children[t]
  BY DEF StartupInv, StartupType, Starts
<1>3. StartupType'
  <2>1. /\ process' \in [Processes -> {"none", "trying", "up", "exited"}]
        /\ DOMAIN children' = Slots
    BY DEF StartupInv, StartupType, Starts
  <2> QED BY <2>1, PcMoves DEF StartupInv, StartupType, Starts
<1>4. OrderInv'
  <2>1. \A t \in Slots : AllReady(t)' <=> AllReady(t)
    BY DEF AllReady
  <2>2. \A t \in Slots : process'[Router(t)] # "none" => AllReady(t)'
    <3>1. \A t \in Slots : x = Router(t) => t = s
      BY Names, Zenon
    <3> QED BY <1>1, <2>1, <3>1, Names DEF StartupInv, OrderInv
  <2>3. \A t \in Slots : \A q \in Peers(t) :
          <<t, q>> \in ready' => process'[Gateway(q, t)] # "none"
    <3>1. \A t \in Slots : \A q \in Peers(t) : Gateway(q, t) \in Processes
      BY Names, Zenon
    <3> QED BY <1>1, <3>1 DEF StartupInv, OrderInv
  <2> QED BY <2>2, <2>3, PcMoves DEF OrderInv, Starts
<1>5. OwnerInv'
  <2>1. \A t \in Slots : \A y \in children'[t] : y \in Processes /\ y[1] = t
    <3> TAKE t \in Slots
    <3> TAKE y \in children'[t]
    <3>1. CASE y \in children[t]
      BY <3>1 DEF StartupInv, OwnerInv
    <3>2. CASE t = s /\ y = x
      BY <3>2
    <3> QED BY <1>2, <3>1, <3>2
  <2>2. \A y \in Processes : process'[y] # "none" =>
          y \in children'[y[1]] \/ (y[2] = "net" /\ y[3] < y[1])
    <3> TAKE y \in Processes
    <3>1. CASE y = x
      BY <1>2, <3>1
    <3>2. CASE y # x
      <4>1. ASSUME y \in children[y[1]], y[1] \in Slots PROVE y \in children'[y[1]]
        BY <1>2, <4>1
      <4>2. y[1] \in Slots
        BY DEF Processes
      <4> QED BY <1>1, <3>2, <4>1, <4>2 DEF StartupInv, OwnerInv
    <3> QED BY <3>1, <3>2
  <2>3. ASSUME NEW t \in Slots, sup'[t] = "ended", NEW y \in children'[t]
        PROVE  ~Alive(y)'
    <3>1. t # s
      BY <2>3
    <3>2. y \in children[t] /\ y # x
      BY <1>2, <2>1, <2>3, <3>1
    <3> QED BY <1>1, <2>1, <2>3, <3>2 DEF StartupInv, OwnerInv, Alive
  <2> QED BY <2>1, <2>2, <2>3 DEF OwnerInv
<1> QED BY <1>3, <1>4, <1>5 DEF StartupInv

\* A process changes its state and stays alive only if it was, or it is a
\* connector that its supervisor tries.
LEMMA TouchedKeeps ==
  ASSUME StartupInv, NEW x \in Processes, NEW v \in {"trying", "up", "exited"},
         process' = [process EXCEPT ![x] = v], UNCHANGED <<pc, sup, children, ready>>,
         \/ process[x] # "none" /\ (v = "exited" \/ Alive(x))
         \/ sup[x[1]] = "starting" /\ x[2] = "net" /\ x[3] < x[1]
  PROVE  StartupInv'
<1>1. \A y \in Processes : process'[y] = IF y = x THEN v ELSE process[y]
  BY DEF StartupInv, StartupType
<1>2. StartupType'
  <2>1. process' \in [Processes -> {"none", "trying", "up", "exited"}]
    BY DEF StartupInv, StartupType
  <2> QED BY <2>1 DEF StartupInv, StartupType
<1>3. OrderInv'
  <2>1. \A t \in Slots : AllReady(t)' <=> AllReady(t)
    BY DEF AllReady
  <2>2. \A t \in Slots : process'[Router(t)] # "none" => AllReady(t)'
    <3>1. \A t \in Slots : x = Router(t) => x[2] # "net"
      BY Names
    <3> QED BY <1>1, <2>1, <3>1, Names DEF StartupInv, OrderInv
  <2>3. \A t \in Slots : \A q \in Peers(t) :
          <<t, q>> \in ready' => process'[Gateway(q, t)] # "none"
    <3>1. \A t \in Slots : \A q \in Peers(t) : Gateway(q, t) \in Processes
      BY Names, Zenon
    <3> QED BY <1>1, <3>1 DEF StartupInv, OrderInv
  <2> QED BY <2>2, <2>3, PcStays DEF OrderInv
<1>4. OwnerInv'
  <2>1. \A y \in Processes : process'[y] # "none" =>
          y \in children'[y[1]] \/ (y[2] = "net" /\ y[3] < y[1])
    BY <1>1 DEF StartupInv, OwnerInv
  <2>2. ASSUME NEW t \in Slots, sup'[t] = "ended", NEW y \in children'[t]
        PROVE  ~Alive(y)'
    <3>1. y \in Processes /\ y[1] = t /\ ~Alive(y) /\ sup[y[1]] = "ended"
      BY <2>2 DEF StartupInv, OwnerInv
    <3> QED BY <1>1, <3>1 DEF Alive
  <2> QED BY <2>1, <2>2 DEF StartupInv, OwnerInv
<1> QED BY <1>2, <1>3, <1>4 DEF StartupInv

\* A supervisor enters or leaves its finally clause.
LEMMA EndingKeeps ==
  ASSUME StartupInv, NEW s \in Slots, NEW v \in {"cleanup", "ended"},
         sup' = [sup EXCEPT ![s] = v], UNCHANGED <<pc, process, children, ready>>,
         v = "ended" => \A x \in children[s] : ~Alive(x)
  PROVE  StartupInv'
<1>1. StartupType'
  <2>1. sup' \in [Slots -> {"starting", "cleanup", "ended"}]
    BY DEF StartupInv, StartupType
  <2> QED BY <2>1 DEF StartupInv, StartupType
<1>2. OrderInv'
  BY DEF StartupInv, OrderInv, AllReady
<1>3. OwnerInv'
  <2>1. \A t \in Slots : sup'[t] = IF t = s THEN v ELSE sup[t]
    BY DEF StartupInv, StartupType
  <2>2. \A x : Alive(x)' <=> Alive(x)
    BY DEF Alive
  <2> QED BY <2>1, <2>2 DEF StartupInv, OwnerInv
<1> QED BY <1>1, <1>2, <1>3 DEF StartupInv

\* A supervisor passes a step that starts nothing.
LEMMA PassedKeeps ==
  ASSUME StartupInv, NEW s \in Slots,
         pc[s] + 1 \in 1..Len(Plan[s]), pc' = [pc EXCEPT ![s] = @ + 1],
         Plan[s][pc[s]].act = "ready" => AllReady(s),
         UNCHANGED <<sup, process, children, ready>>
  PROVE  StartupInv'
<1>1. StartupType'
  BY PcMoves DEF StartupInv, StartupType
<1>2. OrderInv'
  <2>1. \A t \in Slots : AllReady(t)' <=> AllReady(t)
    BY DEF AllReady
  <2> QED BY <2>1, PcMoves DEF StartupInv, OrderInv
<1>3. OwnerInv'
  BY DEF StartupInv, OwnerInv, Alive
<1> QED BY <1>1, <1>2, <1>3 DEF StartupInv

-----------------------------------------------------------------------------
LEMMA StartupInit == Init => StartupInv
<1> SUFFICES ASSUME Init PROVE StartupInv
  OBVIOUS
<1>1. \A s \in Slots : 1 \in 1..Len(Plan[s])
  BY PlanShape DEF PlanFacts
<1>2. StartupType
  BY <1>1 DEF Init, StartupType
<1>3. OrderInv
  BY Names DEF Init, OrderInv
<1>4. OwnerInv
  BY DEF Init, OwnerInv
<1> QED BY <1>2, <1>3, <1>4 DEF StartupInv

LEMMA SupervisorKeeps ==
  ASSUME StartupInv, NEW s \in Slots, SupervisorStep(s) \/ TimesOut(s)
  PROVE  StartupInv'
<1> USE DEF StartupInv
<1>1. ASSUME NEW act, At(s, act), act # "watch"
      PROVE  pc[s] + 1 \in 1..Len(Plan[s]) /\ Plan[s][pc[s]].act = act /\ sup[s] = "starting"
  BY <1>1, AtStep DEF At
<1>2. ASSUME NEW act \in LinkActs, At(s, act) PROVE Peer(s) \in Peers(s)
  BY <1>2, AtStep
<1>3. CASE StartGateway(s)
  <2>1. PICK x : x = Gateway(s, Peer(s))
    OBVIOUS
  <2>2. x \in Processes /\ x[1] = s /\ x # Router(s)
    BY <1>2, <1>3, <2>1, Names DEF StartGateway, LinkActs
  <2> QED BY <1>1, <1>3, <2>1, <2>2, StartedKeeps DEF StartGateway
<1>4. CASE StartListener(s)
  <2>1. PICK x : x = Net(s, Peer(s))
    OBVIOUS
  <2>2. x \in Processes /\ x[1] = s /\ x # Router(s)
    BY <1>2, <1>4, <2>1, Names DEF StartListener, LinkActs
  <2> QED BY <1>1, <1>4, <2>1, <2>2, StartedKeeps DEF StartListener
<1>5. CASE TryConnector(s)
  <2>1. PICK x : x = Net(s, Peer(s))
    OBVIOUS
  <2>2. x \in Processes /\ x[1] = s /\ x[2] = "net" /\ x[3] < x[1]
    BY <1>2, <1>5, <2>1, Names, AtStep DEF TryConnector, LinkActs
  <2>3. PICK v \in {"trying", "up", "exited"} : process' = [process EXCEPT ![x] = v]
    BY <1>5, <2>1 DEF TryConnector
  <2>4. sup[x[1]] = "starting" /\ UNCHANGED <<pc, sup, children, ready>>
    BY <1>5, <2>2 DEF TryConnector, At
  <2> QED BY <2>2, <2>3, <2>4, TouchedKeeps
<1>6. CASE KeepConnector(s)
  <2>1. PICK x : x = Net(s, Peer(s))
    OBVIOUS
  <2>2. x \in Processes /\ x[1] = s
    BY <1>2, <1>6, <2>1, Names DEF KeepConnector, LinkActs
  <2>3. /\ pc[s] + 1 \in 1..Len(Plan[s]) /\ Plan[s][pc[s]].act # "ready"
        /\ sup[s] = "starting" /\ pc' = [pc EXCEPT ![s] = @ + 1]
        /\ UNCHANGED <<sup, process, ready>>
    BY <1>1, <1>6 DEF KeepConnector
  <2>4. \A t \in Slots : children'[t] = IF t = s THEN children[t] \cup {x} ELSE children[t]
    BY <1>6, <2>1 DEF KeepConnector, StartupType
  <2>5. StartupType'
    <3>1. DOMAIN children' = Slots
      BY <1>6 DEF KeepConnector, StartupType
    <3> QED BY <2>3, <3>1, PcMoves DEF StartupType
  <2>6. OrderInv'
    <3>1. \A t \in Slots : AllReady(t)' <=> AllReady(t)
      BY <2>3 DEF AllReady
    <3> QED BY <2>3, <3>1, PcMoves DEF OrderInv
  <2>7. OwnerInv'
    <3>1. \A t \in Slots : \A y \in children'[t] : y \in Processes /\ y[1] = t
      <4> TAKE t \in Slots
      <4> TAKE y \in children'[t]
      <4>1. CASE y \in children[t]
        BY <4>1 DEF OwnerInv
      <4>2. CASE t = s /\ y = x
        BY <2>2, <4>2
      <4> QED BY <2>4, <4>1, <4>2
    <3>2. \A y \in Processes : y[1] \in Slots
      BY DEF Processes
    <3>3. \A y \in Processes : process'[y] # "none" =>
            y \in children'[y[1]] \/ (y[2] = "net" /\ y[3] < y[1])
      BY <2>3, <2>4, <3>2 DEF OwnerInv
    <3>4. ASSUME NEW t \in Slots, sup'[t] = "ended", NEW y \in children'[t]
          PROVE  ~Alive(y)'
      <4>1. t # s
        BY <2>3, <3>4
      <4>2. y \in children[t] /\ ~Alive(y)
        BY <2>3, <2>4, <3>4, <4>1 DEF OwnerInv
      <4> QED BY <2>3, <4>2 DEF Alive
    <3> QED BY <3>1, <3>3, <3>4 DEF OwnerInv
  <2> QED BY <2>5, <2>6, <2>7
<1>7. CASE ReadyPassed(s)
  BY <1>1, <1>7, PassedKeeps DEF ReadyPassed
<1>8. CASE StablePassed(s)
  <2>1. /\ At(s, "stable") /\ pc' = [pc EXCEPT ![s] = @ + 1]
        /\ UNCHANGED <<sup, process, children, ready>>
    BY <1>8 DEF StablePassed
  <2>2. pc[s] + 1 \in 1..Len(Plan[s]) /\ Plan[s][pc[s]].act # "ready"
    BY <1>1, <2>1
  <2> QED BY <2>1, <2>2, PassedKeeps
<1>9. CASE StartRouter(s)
  <2>1. AllReady(s)
    BY <1>9, AtStep DEF StartRouter, OrderInv
  <2>2. PICK x : x = Router(s)
    OBVIOUS
  <2>3. x \in Processes /\ x[1] = s
    BY <2>2, Names
  <2> QED BY <1>1, <1>9, <2>1, <2>2, <2>3, StartedKeeps DEF StartRouter
<1>10. CASE StartWorker(s)
  <2>1. PICK x : x = Worker(s)
    OBVIOUS
  <2>2. x \in Processes /\ x[1] = s /\ x # Router(s)
    BY <2>1, Names
  <2> QED BY <1>1, <1>10, <2>1, <2>2, StartedKeeps DEF StartWorker
<1>11. CASE \/ ListenerFails(s) \/ ConnectorFails(s) \/ ReadyFails(s)
            \/ NetLost(s) \/ WorkerEnded(s) \/ TimesOut(s)
  <2>1. Raises(s) /\ UNCHANGED <<pc, process, children, ready>>
    BY <1>11 DEF ListenerFails, ConnectorFails, ReadyFails, NetLost, WorkerEnded, TimesOut
  <2> QED BY <2>1, EndingKeeps DEF Raises
<1>12. CASE StopChild(s)
  <2>1. PICK x \in children[s] : Alive(x) /\ process' = [process EXCEPT ![x] = "exited"]
    BY <1>12 DEF StopChild
  <2>2. x \in Processes
    BY DEF OwnerInv
  <2> QED BY <1>12, <2>1, <2>2, TouchedKeeps DEF StopChild, Alive
<1>13. CASE SupervisorEnds(s)
  BY <1>13, EndingKeeps DEF SupervisorEnds
<1> QED BY <1>3, <1>4, <1>5, <1>6, <1>7, <1>8, <1>9, <1>10, <1>11, <1>12, <1>13
        DEF SupervisorStep

LEMMA LinkKeeps ==
  ASSUME StartupInv, NEW s \in Slots, NEW q \in Slots, s # q, LinkStep(s, q)
  PROVE  StartupInv'
<1> USE DEF StartupInv
<1>1. q \in Peers(s)
  BY DEF Peers
<1>2. CASE ConnectRefused(s, q) \/ ConnectAccepted(s, q)
  <2>1. PICK x : x = Net(s, q)
    OBVIOUS
  <2>2. x \in Processes /\ Alive(x) /\ process[x] # "none"
    BY <1>1, <1>2, <2>1, Names DEF ConnectRefused, ConnectAccepted, Alive
  <2>3. PICK v \in {"trying", "up", "exited"} : process' = [process EXCEPT ![x] = v]
    BY <1>2, <2>1 DEF ConnectRefused, ConnectAccepted
  <2>4. UNCHANGED <<pc, sup, children, ready>>
    BY <1>2 DEF ConnectRefused, ConnectAccepted
  <2> QED BY <2>2, <2>3, <2>4, TouchedKeeps
<1>3. CASE Handshake(s, q)
  <2>1. /\ process[Gateway(q, s)] # "none" /\ ready' = ready \cup {<<s, q>>}
        /\ UNCHANGED <<pc, sup, process, children>>
    BY <1>3 DEF Handshake
  <2>2. OrderInv'
    <3>1. \A t \in Slots : AllReady(t) => AllReady(t)'
      BY <2>1 DEF AllReady
    <3>2. \A t \in Slots : \A p \in Peers(t) :
            <<t, p>> \in ready' => process'[Gateway(p, t)] # "none"
      BY <2>1 DEF OrderInv
    <3> QED BY <2>1, <3>1, <3>2 DEF OrderInv
  <2>3. StartupType' /\ OwnerInv'
    BY <2>1 DEF StartupType, OwnerInv, Alive
  <2> QED BY <2>2, <2>3
<1> QED BY <1>2, <1>3 DEF LinkStep

LEMMA StartupStep == StartupInv /\ [Next]_vars => StartupInv'
<1> SUFFICES ASSUME StartupInv, [Next]_vars PROVE StartupInv'
  OBVIOUS
<1>1. CASE \E x \in Processes : Crash(x)
  <2>1. PICK x \in Processes : Crash(x)
    BY <1>1
  <2> QED BY <2>1, TouchedKeeps DEF Crash
<1>2. CASE UNCHANGED vars
  BY <1>2 DEF vars, StartupInv, StartupType, OrderInv, OwnerInv, AllReady, Alive
<1> QED BY <1>1, <1>2, SupervisorKeeps, LinkKeeps DEF Next

LEMMA StartupInvHolds == Spec => []StartupInv
BY StartupInit, StartupStep, PTL DEF Spec

(***************************************************************************)
(* For any number of slots, whatever crashes, times out or connects late:  *)
(* main opens the router of a slot only after wait_for_ready has seen the  *)
(* ready file of every link, and a ready file is written only when the     *)
(* gateways of both ends run.  The pc of a supervisor is past "ready" at   *)
(* the router's step because the plan puts it there for every number of    *)
(* listening and connecting links (PlanShape).                             *)
(***************************************************************************)
THEOREM RouterOpensLast == Spec => []NoEarlyTraffic
<1>1. StartupInv => NoEarlyTraffic
  BY DEF StartupInv, OrderInv, NoEarlyTraffic, AllReady
<1> QED BY <1>1, StartupInvHolds, PTL

(***************************************************************************)
(* For any number of slots and any failures: a supervisor that has left    *)
(* its finally clause has no router, no worker and no registered process   *)
(* alive; the only thing it can leave behind is a connector that was still *)
(* under trial, which start_connector_with_retry hands over only on        *)
(* success.                                                                *)
(***************************************************************************)
THEOREM SupervisorsEndClean == Spec => []CleanExit
<1>1. StartupInv => CleanExit
  <2> SUFFICES ASSUME StartupInv, NEW s \in Slots, sup[s] = "ended"
               PROVE  /\ ~Alive(Worker(s)) /\ ~Alive(Router(s))
                      /\ \A x \in Processes : x[1] = s /\ Alive(x) =>
                           x \notin children[s] /\ x[2] = "net" /\ x[3] < s
    BY DEF CleanExit
  <2>1. \A x \in Processes : x[1] = s /\ Alive(x) =>
          x \notin children[s] /\ x[2] = "net" /\ x[3] < s
    BY DEF StartupInv, OwnerInv, Alive
  <2> QED BY <2>1, Names
<1> QED BY <1>1, StartupInvHolds, PTL
=============================================================================
