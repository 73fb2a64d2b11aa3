------------------------- MODULE PlatformNode_proofs -------------------------
(***************************************************************************)
(* Why a measurement of the stand-alone platform is one of the whole       *)
(* workload, for every placement, every number of rounds and of inputs,    *)
(* every choice of proxies and however many requests fail or time out: the *)
(* position of a task fixes how many kernels its GPU has run and how many  *)
(* delays ns-3 has calculated, and errors travel up through both gathers.  *)
(***************************************************************************)
EXTENDS PlatformNode, TLAPS

-----------------------------------------------------------------------------
(* The inductive invariant.                                                *)

Places == {"none", "run", "at-proxy", "asked", "done", "error"}
Tasks == [at : Places, round : Nat, action : Nat]

SameNode(g) == host_for_role(Cpu(CpuOf(g))) = host_for_role(Gpu(g))

\* The kernels and the moves that precede action t.action of round t.round,
\* when a round has M inputs.
KernelsBefore(M, t) == t.round + (IF t.action = M + 2 THEN 1 ELSE 0)
MovesBefore(M, t) ==
  t.round * (M + 1) + (IF t.action = M + 2 THEN M ELSE t.action - 1)

\* Task t of R rounds with M inputs has led to n kernels and d delays, if its
\* CPU and its GPU are on one node (local) or not.
Tally(R, M, local, t, n, d) ==
  /\ t \in Tasks /\ n \in Nat /\ d \in Nat
  /\ t.at = "none" => t.round = 0 /\ t.action = 1
  /\ t.at \in {"none", "run", "at-proxy", "asked"} =>
       /\ t.round < R /\ t.action \in 1..(M + 2)
       /\ n = KernelsBefore(M, t)
       /\ d = IF local THEN 0 ELSE MovesBefore(M, t)
  /\ t.at \in {"at-proxy", "asked"} => t.action = M + 1 \/ ~local
  /\ t.at = "done" => n = R /\ d = IF local THEN 0 ELSE R * (M + 1)

ConfigInv ==
  /\ config \in Configs
  /\ DOMAIN cpu = Cpus /\ DOMAIN task = Gpus
  /\ computed \in [Gpus -> Nat] /\ delays \in [Gpus -> Nat]

TallyInv ==
  \A g \in Gpus :
    Tally(Rounds, InputMessages, SameNode(g), task[g], computed[g], delays[g])

\* Errors travel up: only a task that raised leaves a request behind, a CPU
\* that answered ok has both its tasks done, and the controller goes past
\* gather only when all CPUs have.
GatherInv ==
  /\ \A g \in late : g \in Gpus /\ task[g].at = "error"
  /\ \A c \in Cpus : cpu[c] = "ok" => \A g \in GpusOf(c) : task[g].at = "done"
  /\ controller \in {"measured", "stopping", "stopped"} \/ stop_event # {} =>
       controller # "start" /\ \A c \in Cpus : cpu[c] = "ok"

PlatformInv == ConfigInv /\ TallyInv /\ GatherInv

-----------------------------------------------------------------------------
(* One action of a task.                                                   *)

LEMMA ConfigFacts ==
  ASSUME config \in Configs
  PROVE  /\ Rounds \in Nat \ {0} /\ InputMessages \in Nat
         /\ \A c \in Cpus : GpusOf(c) \subseteq Gpus
BY PlatformAssumption DEF Rounds, InputMessages, Gpus

LEMMA NextRound ==
  \A r \in Nat, m \in Nat : /\ r * (m + 1) \in Nat
                            /\ (r + 1) * (m + 1) = r * (m + 1) + m + 1
OBVIOUS

LEMMA AdvancedCases ==
  ASSUME NEW t
  PROVE  /\ t.action # Result => Advanced(t) = [t EXCEPT !.at = "run", !.action = @ + 1]
         /\ t.action = Result /\ t.round + 1 < Rounds =>
              Advanced(t) = [at |-> "run", round |-> t.round + 1, action |-> 1]
         /\ t.action = Result /\ ~(t.round + 1 < Rounds) => Advanced(t) = [t EXCEPT !.at = "done"]
<1>1. ASSUME t.action # Result
      PROVE  Advanced(t) = [t EXCEPT !.at = "run", !.action = @ + 1]
  BY <1>1, Zenon DEF Advanced
<1>2. ASSUME t.action = Result, t.round + 1 < Rounds
      PROVE  Advanced(t) = [at |-> "run", round |-> t.round + 1, action |-> 1]
  BY <1>2, Zenon DEF Advanced
<1>3. ASSUME t.action = Result, ~(t.round + 1 < Rounds)
      PROVE  Advanced(t) = [t EXCEPT !.at = "done"]
  BY <1>3, Zenon DEF Advanced
<1> QED BY <1>1, <1>2, <1>3

\* An action that ran k kernels and calculated e delays keeps the tally.
LEMMA TallyAdvances ==
  ASSUME NEW R \in Nat \ {0}, NEW M \in Nat, NEW local \in BOOLEAN,
         R = Rounds, M = InputMessages,
         NEW t, NEW n, NEW d, Tally(R, M, local, t, n, d), t.at \in {"run", "asked"},
         NEW k, k = IF t.action = M + 1 THEN 1 ELSE 0,
         NEW e, e = IF local \/ t.action = M + 1 THEN 0 ELSE 1
  PROVE  Tally(R, M, local, Advanced(t), n + k, d + e)
<1>1. /\ t \in Tasks /\ n \in Nat /\ d \in Nat
      /\ t.round < R /\ t.action \in 1..(M + 2)
      /\ n = KernelsBefore(M, t) /\ d = IF local THEN 0 ELSE MovesBefore(M, t)
  BY DEF Tally
<1>2. t.round \in Nat /\ t.action \in Nat
  BY <1>1 DEF Tasks
<1>3. Result = M + 2
  BY DEF Result
<1>4. PICK x \in Nat : x = t.round * (M + 1)
  BY <1>2, NextRound
<1>5. k \in Nat /\ e \in Nat
  OBVIOUS
<1>6. CASE t.action # M + 2
  <2>1. PICK u : u = [t EXCEPT !.at = "run", !.action = @ + 1]
    OBVIOUS
  <2>2. u \in Tasks /\ u.at = "run" /\ u.round = t.round /\ u.action = t.action + 1
    <3>1. \A v \in Tasks, a \in Places, b \in Nat : [v EXCEPT !.at = a, !.action = b] \in Tasks
      BY DEF Tasks
    <3>2. PICK b \in Nat : b = t.action + 1
      BY <1>2
    <3>3. u = [t EXCEPT !.at = "run", !.action = b]
      BY <2>1, <3>2
    <3>4. u \in Tasks
      BY <1>1, <3>1, <3>3 DEF Places
    <3>5. u.at = "run" /\ u.round = t.round /\ u.action = b
      BY <1>1, <3>3 DEF Tasks
    <3> QED BY <3>2, <3>4, <3>5
  <2>3. Advanced(t) = u
    BY <1>3, <1>6, <2>1, AdvancedCases
  <2>4. n + k = KernelsBefore(M, u)
    BY <1>1, <1>2, <1>6, <2>2 DEF KernelsBefore
  <2>5. d + e = IF local THEN 0 ELSE MovesBefore(M, u)
    BY <1>1, <1>2, <1>4, <1>6, <2>2 DEF MovesBefore
  <2>6. u.round < R /\ u.action \in 1..(M + 2)
    BY <1>1, <1>2, <1>6, <2>2
  <2> QED BY <1>1, <1>5, <2>2, <2>3, <2>4, <2>5, <2>6 DEF Tally
<1>7. CASE t.action = M + 2 /\ t.round + 1 < R
  <2>1. PICK u : u = [at |-> "run", round |-> t.round + 1, action |-> 1]
    OBVIOUS
  <2>2. u \in Tasks /\ u.at = "run" /\ u.round = t.round + 1 /\ u.action = 1
    BY <1>2, <2>1 DEF Tasks, Places
  <2>3. Advanced(t) = u
    BY <1>3, <1>7, <2>1, AdvancedCases
  <2>4. n + k = KernelsBefore(M, u)
    BY <1>1, <1>2, <1>7, <2>2 DEF KernelsBefore
  <2>5. u.round * (M + 1) = x + M + 1
    BY <1>2, <1>4, <2>2, NextRound
  <2>6. d + e = IF local THEN 0 ELSE MovesBefore(M, u)
    BY <1>1, <1>2, <1>4, <1>7, <2>2, <2>5 DEF MovesBefore
  <2>7. u.round < R /\ u.action \in 1..(M + 2)
    BY <1>2, <1>7, <2>2
  <2> QED BY <1>1, <1>5, <2>2, <2>3, <2>4, <2>6, <2>7 DEF Tally
<1>8. CASE t.action = M + 2 /\ ~(t.round + 1 < R)
  <2>1. PICK u : u = [t EXCEPT !.at = "done"]
    OBVIOUS
  <2>2. u \in Tasks /\ u.at = "done"
    BY <1>1, <2>1 DEF Tasks, Places
  <2>3. Advanced(t) = u
    BY <1>3, <1>8, <2>1, AdvancedCases
  <2>4. R = t.round + 1
    BY <1>1, <1>2, <1>8
  <2>5. R * (M + 1) = x + M + 1
    BY <1>2, <1>4, <2>4, NextRound
  <2>6. n + k = R /\ d + e = IF local THEN 0 ELSE R * (M + 1)
    BY <1>1, <1>2, <1>4, <1>8, <2>4, <2>5 DEF KernelsBefore, MovesBefore
  <2> QED BY <1>1, <1>5, <2>2, <2>3, <2>6 DEF Tally
<1> QED BY <1>6, <1>7, <1>8

-----------------------------------------------------------------------------
(* The shapes a step can have.                                             *)

\* What depends on the configuration alone.
LEMMA Fixed ==
  ASSUME config' = config
  PROVE  /\ Gpus' = Gpus /\ Cpus' = Cpus
         /\ Rounds' = Rounds /\ InputMessages' = InputMessages
         /\ \A g : SameNode(g)' = SameNode(g)
<1>1. \A role : host_for_role(role)' = host_for_role(role)
  BY Zenon DEF host_for_role, roles, Nodes, container_count
<1>2. \A g : SameNode(g)' = SameNode(g)
  BY <1>1 DEF SameNode
<1> QED BY <1>2 DEF Gpus, Cpus, Rounds, InputMessages

\* One task that has not ended changes, with its tally.
LEMMA OneTask ==
  ASSUME PlatformInv, NEW g \in Gpus, task[g].at \in {"run", "at-proxy", "asked"},
         NEW u, task' = [task EXCEPT ![g] = u],
         NEW n, computed' = [computed EXCEPT ![g] = n],
         NEW d, delays' = [delays EXCEPT ![g] = d],
         Tally(Rounds, InputMessages, SameNode(g), u, n, d),
         UNCHANGED <<config, controller, cpu, stop_event>>,
         \A h \in late' : h \in late \/ (h = g /\ u.at = "error")
  PROVE  PlatformInv'
<1>1. \A h \in Gpus : /\ task'[h] = IF h = g THEN u ELSE task[h]
                      /\ computed'[h] = IF h = g THEN n ELSE computed[h]
                      /\ delays'[h] = IF h = g THEN d ELSE delays[h]
  BY DEF PlatformInv, ConfigInv
<1>2. ConfigInv'
  <2>1. n \in Nat /\ d \in Nat
    BY DEF Tally
  <2> QED BY <2>1, Fixed DEF PlatformInv, ConfigInv
<1>3. TallyInv'
  <2>1. \A h \in Gpus : Tally(Rounds, InputMessages, SameNode(h), task'[h], computed'[h], delays'[h])
    BY <1>1 DEF PlatformInv, TallyInv
  <2> QED BY <2>1, Fixed DEF TallyInv
<1>4. GatherInv'
  <2>1. \A h \in late' : h \in Gpus /\ task'[h].at = "error"
    BY <1>1 DEF PlatformInv, GatherInv
  <2>2. \A c \in Cpus : cpu[c] = "ok" => \A h \in GpusOf(c) : h \in Gpus /\ task'[h].at = "done"
    BY <1>1, ConfigFacts DEF PlatformInv, GatherInv, ConfigInv
  <2> QED BY <2>1, <2>2, Fixed DEF PlatformInv, GatherInv
<1> QED BY <1>2, <1>3, <1>4 DEF PlatformInv

\* The tally of a task survives a change of place that is not an advance.
LEMMA TallyMoves ==
  ASSUME NEW R, NEW M, NEW local, NEW t, NEW n, NEW d, Tally(R, M, local, t, n, d),
         t.at \in {"none", "run", "at-proxy", "asked"},
         NEW a \in {"run", "at-proxy", "asked", "error"},
         a \in {"at-proxy", "asked"} => t.action = M + 1 \/ ~local
  PROVE  Tally(R, M, local, [t EXCEPT !.at = a], n, d)
<1>1. PICK u : u = [t EXCEPT !.at = a]
  OBVIOUS
<1>2. u \in Tasks /\ u.at = a /\ u.round = t.round /\ u.action = t.action
  BY <1>1 DEF Tally, Tasks, Places
<1>3. KernelsBefore(M, u) = KernelsBefore(M, t) /\ MovesBefore(M, u) = MovesBefore(M, t)
  BY <1>2 DEF KernelsBefore, MovesBefore
<1>4. Tally(R, M, local, u, n, d)
  BY <1>2, <1>3 DEF Tally
<1> QED BY <1>1, <1>4

\* A step of the controller, or of a CPU's answer, that touches no task.
LEMMA NoTask ==
  ASSUME PlatformInv, UNCHANGED <<config, task, computed, delays>>,
         late' \subseteq late, DOMAIN cpu' = Cpus,
         \A c \in Cpus : cpu'[c] = "ok" =>
           cpu[c] = "ok" \/ \A g \in GpusOf(c) : task[g].at = "done",
         controller' \in {"measured", "stopping", "stopped"} \/ stop_event' # {} =>
           controller' # "start" /\ \A c \in Cpus : cpu'[c] = "ok"
  PROVE  PlatformInv'
<1>1. ConfigInv'
  BY Fixed DEF PlatformInv, ConfigInv
<1>2. TallyInv'
  BY Fixed DEF PlatformInv, TallyInv
<1>3. GatherInv'
  BY Fixed DEF PlatformInv, GatherInv
<1> QED BY <1>1, <1>2, <1>3 DEF PlatformInv

-----------------------------------------------------------------------------
(* The steps.                                                              *)

LEMMA PlatformInit == Init => PlatformInv
<1> SUFFICES ASSUME Init PROVE PlatformInv
  OBVIOUS
<1>1. ConfigInv
  BY DEF Init, ConfigInv
<1>2. TallyInv
  <2>1. PICK t : t = [at |-> "none", round |-> 0, action |-> 1]
    OBVIOUS
  <2>2. t \in Tasks /\ t.at = "none" /\ t.round = 0 /\ t.action = 1
    BY <2>1 DEF Tasks, Places
  <2>3. Rounds \in Nat \ {0} /\ InputMessages \in Nat
    BY <1>1, ConfigFacts DEF ConfigInv
  <2>4. \A M \in Nat : KernelsBefore(M, t) = 0 /\ MovesBefore(M, t) = 0
    BY <2>2 DEF KernelsBefore, MovesBefore
  <2>5. \A R \in Nat \ {0}, M \in Nat : \A local : Tally(R, M, local, t, 0, 0)
    BY <2>2, <2>4 DEF Tally
  <2> QED BY <2>1, <2>3, <2>5 DEF Init, TallyInv
<1>3. GatherInv
  BY DEF Init, GatherInv
<1> QED BY <1>1, <1>2, <1>3 DEF PlatformInv

\* What the invariant says of one task.
LEMMA TaskOf ==
  ASSUME PlatformInv, NEW g \in Gpus
  PROVE  /\ Tally(Rounds, InputMessages, SameNode(g), task[g], computed[g], delays[g])
         /\ Rounds \in Nat \ {0} /\ InputMessages \in Nat /\ SameNode(g) \in BOOLEAN
         /\ task[g] \in Tasks /\ computed[g] \in Nat /\ delays[g] \in Nat
         /\ computed = [computed EXCEPT ![g] = computed[g]]
         /\ delays = [delays EXCEPT ![g] = delays[g]]
<1>1. Tally(Rounds, InputMessages, SameNode(g), task[g], computed[g], delays[g])
  BY DEF PlatformInv, TallyInv
<1>2. task[g] \in Tasks /\ computed[g] \in Nat /\ delays[g] \in Nat
  BY <1>1 DEF Tally
<1>3. Rounds \in Nat \ {0} /\ InputMessages \in Nat
  BY ConfigFacts DEF PlatformInv, ConfigInv
<1>4. SameNode(g) \in BOOLEAN
  BY DEF SameNode
<1>5. /\ computed = [computed EXCEPT ![g] = computed[g]]
      /\ delays = [delays EXCEPT ![g] = delays[g]]
  BY DEF PlatformInv, ConfigInv
<1> QED BY <1>1, <1>2, <1>3, <1>4, <1>5

LEMMA TaskStep ==
  ASSUME PlatformInv, NEW g \in Gpus,
         \/ RunGpu(g) \/ Forward(g) \/ Serve(g) \/ RequestFails(g) \/ RequestTimesOut(g)
  PROVE  PlatformInv'
<1> DEFINE R == Rounds
           M == InputMessages
           local == SameNode(g)
           t == task[g]
<1>1. /\ Tally(R, M, local, t, computed[g], delays[g])
      /\ R \in Nat \ {0} /\ M \in Nat /\ local \in BOOLEAN /\ t \in Tasks
      /\ computed[g] \in Nat /\ delays[g] \in Nat
      /\ computed = [computed EXCEPT ![g] = computed[g]]
      /\ delays = [delays EXCEPT ![g] = delays[g]]
  BY TaskOf
<1>2. IsLocal(g) <=> t.action # M + 1 /\ local
  BY DEF IsLocal, Kernel, SameNode
<1>3. Kernels(g) = IF t.action = M + 1 THEN 1 ELSE 0
  BY DEF Kernels, Kernel
<1>4. CASE RunGpu(g) /\ IsLocal(g)
  <2>1. t.at = "run" /\ UNCHANGED <<config, controller, cpu, late, computed, delays, stop_event>>
    BY <1>4 DEF RunGpu
  <2>2. task' = [task EXCEPT ![g] = Advanced(t)]
    BY <1>4 DEF RunGpu
  <2>3. Tally(R, M, local, Advanced(t), computed[g] + 0, delays[g] + 0)
    BY <1>1, <1>2, <1>4, <2>1, TallyAdvances
  <2>4. Tally(R, M, local, Advanced(t), computed[g], delays[g])
    BY <1>1, <2>3
  <2> QED BY <1>1, <2>1, <2>2, <2>4, OneTask
<1>5. CASE RunGpu(g) /\ ~IsLocal(g)
  <2>1. t.at = "run" /\ UNCHANGED <<config, controller, cpu, late, computed, delays, stop_event>>
    BY <1>5 DEF RunGpu
  <2>2. PICK a \in {"asked", "at-proxy"} : task' = [task EXCEPT ![g] = [t EXCEPT !.at = a]]
    BY <1>5 DEF RunGpu
  <2>3. Tally(R, M, local, [t EXCEPT !.at = a], computed[g], delays[g])
    BY <1>1, <1>2, <1>5, <2>1, TallyMoves
  <2> QED BY <1>1, <2>1, <2>2, <2>3, OneTask
<1>6. CASE Forward(g)
  <2>1. /\ t.at = "at-proxy" /\ task' = [task EXCEPT ![g] = [t EXCEPT !.at = "asked"]]
        /\ UNCHANGED <<config, controller, cpu, late, computed, delays, stop_event>>
    BY <1>6 DEF Forward
  <2>2. Tally(R, M, local, [t EXCEPT !.at = "asked"], computed[g], delays[g])
    <3>1. t.action = M + 1 \/ ~local
      BY <1>1, <2>1 DEF Tally
    <3> QED BY <1>1, <2>1, <3>1, TallyMoves
  <2> QED BY <1>1, <2>1, <2>2, OneTask
<1>7. CASE Serve(g)
  <2>1. /\ t.at = "asked" /\ task' = [task EXCEPT ![g] = Advanced(t)]
        /\ computed' = [computed EXCEPT ![g] = computed[g] + Kernels(g)]
        /\ delays' = [delays EXCEPT ![g] = delays[g] + 1 - Kernels(g)]
        /\ UNCHANGED <<config, controller, cpu, late, stop_event>>
    BY <1>7 DEF Serve
  <2>2. t.action = M + 1 \/ ~local
    BY <1>1, <2>1 DEF Tally
  <2>3. PICK k : k = Kernels(g)
    OBVIOUS
  <2>4. PICK e : e = IF local \/ t.action = M + 1 THEN 0 ELSE 1
    OBVIOUS
  <2>5. Tally(R, M, local, Advanced(t), computed[g] + k, delays[g] + e)
    BY <1>1, <1>3, <2>1, <2>3, <2>4, TallyAdvances
  <2>6. delays[g] + 1 - k = delays[g] + e
    BY <1>1, <1>3, <2>2, <2>3, <2>4
  <2> QED BY <2>1, <2>3, <2>5, <2>6, OneTask
<1>8. CASE RequestFails(g) \/ RequestTimesOut(g)
  <2>1. PICK u : u = [t EXCEPT !.at = "error"]
    OBVIOUS
  <2>2. /\ t.at \in {"asked", "at-proxy"} /\ task' = [task EXCEPT ![g] = u]
        /\ UNCHANGED <<config, controller, cpu, computed, delays, stop_event>>
        /\ late' \subseteq late \cup {g}
    BY <1>8, <2>1 DEF RequestFails, RequestTimesOut
  <2>3. u.at = "error"
    BY <1>1, <2>1 DEF Tasks
  <2>4. Tally(R, M, local, u, computed[g], delays[g])
    BY <1>1, <2>1, <2>2, TallyMoves
  <2>5. /\ task[g].at \in {"run", "at-proxy", "asked"}
        /\ UNCHANGED <<config, controller, cpu, stop_event>>
        /\ \A h \in late' : h \in late \/ (h = g /\ u.at = "error")
    BY <2>2, <2>3
  <2>6. /\ computed' = [computed EXCEPT ![g] = computed[g]]
        /\ delays' = [delays EXCEPT ![g] = delays[g]]
    BY ONLY <1>1, <2>2
  <2> QED BY <2>2, <2>4, <2>5, <2>6, OneTask
<1> QED BY <1>4, <1>5, <1>6, <1>7, <1>8

\* A request that was given up is served: its task counts no more.
LEMMA LateStep ==
  ASSUME PlatformInv, NEW g \in Gpus, ServeLate(g)
  PROVE  PlatformInv'
<1>1. PICK k \in {0, 1} : k = Kernels(g)
  BY DEF Kernels
<1>2. /\ g \in late /\ late' = late \ {g}
      /\ computed' = [computed EXCEPT ![g] = @ + k]
      /\ delays' = [delays EXCEPT ![g] = @ + 1 - k]
      /\ UNCHANGED <<config, controller, cpu, task, stop_event>>
  BY <1>1 DEF ServeLate
<1>3. task[g].at = "error"
  BY <1>2 DEF PlatformInv, GatherInv
<1>4. /\ task[g] \in Tasks /\ computed[g] \in Nat /\ delays[g] \in Nat
  BY TaskOf
<1>5. PICK n \in Nat : n = computed[g] + k
  BY <1>4
<1>6. PICK d \in Nat : d = delays[g] + 1 - k
  BY <1>4
<1>7. \A R, M, local : Tally(R, M, local, task[g], n, d)
  BY <1>3, <1>4 DEF Tally
<1>8. \A h \in Gpus : /\ computed'[h] = IF h = g THEN n ELSE computed[h]
                      /\ delays'[h] = IF h = g THEN d ELSE delays[h]
  BY <1>2, <1>5, <1>6 DEF PlatformInv, ConfigInv
<1>9. ConfigInv'
  BY <1>2, <1>4, <1>5, <1>6, Fixed DEF PlatformInv, ConfigInv
<1>10. TallyInv'
  <2>1. \A h \in Gpus : Tally(Rounds, InputMessages, SameNode(h), task[h], computed'[h], delays'[h])
    BY <1>7, <1>8 DEF PlatformInv, TallyInv
  <2> QED BY <1>2, <2>1, Fixed DEF TallyInv
<1>11. GatherInv'
  BY <1>2, Fixed DEF PlatformInv, GatherInv
<1> QED BY <1>9, <1>10, <1>11 DEF PlatformInv

\* A CPU starts the tasks of its two GPUs.
LEMMA WorkloadStep ==
  ASSUME PlatformInv, NEW c \in Cpus, cpu_workload(c)
  PROVE  PlatformInv'
<1>1. /\ \A g \in GpusOf(c) : task[g].at = "none"
      /\ cpu[c] \in {"asked", "given-up"}
      /\ cpu' = [cpu EXCEPT ![c] = IF @ = "asked" THEN "working" ELSE @]
      /\ task' = [g \in Gpus |-> IF g \in GpusOf(c) THEN [task[g] EXCEPT !.at = "run"] ELSE task[g]]
      /\ UNCHANGED <<config, controller, late, computed, delays, stop_event>>
  BY DEF cpu_workload
<1>2. ConfigInv'
  BY <1>1, Fixed DEF PlatformInv, ConfigInv
<1>3. TallyInv'
  <2>1. ASSUME NEW g \in Gpus
        PROVE  Tally(Rounds, InputMessages, SameNode(g), task'[g], computed[g], delays[g])
    <3>1. CASE g \in GpusOf(c)
      BY <1>1, <3>1, TaskOf, TallyMoves
    <3>2. CASE g \notin GpusOf(c)
      BY <1>1, <3>2, TaskOf
    <3> QED BY <3>1, <3>2
  <2> QED BY <1>1, <2>1, Fixed DEF TallyInv
<1>4. GatherInv'
  <2>1. \A d \in Cpus : cpu'[d] = "ok" <=> cpu[d] = "ok"
    BY <1>1 DEF PlatformInv, ConfigInv
  <2>2. \A g \in Gpus : task[g].at \in {"error", "done"} => task'[g] = task[g]
    BY <1>1
  <2>3. \A d \in Cpus : GpusOf(d) \subseteq Gpus
    BY ConfigFacts DEF PlatformInv, ConfigInv
  <2>4. \A g \in late : g \in Gpus /\ task'[g].at = "error"
    BY <2>2 DEF PlatformInv, GatherInv
  <2>5. \A d \in Cpus : cpu'[d] = "ok" => \A g \in GpusOf(d) : task'[g].at = "done"
    BY <2>1, <2>2, <2>3 DEF PlatformInv, GatherInv
  <2> QED BY <1>1, <2>1, <2>4, <2>5, Fixed DEF PlatformInv, GatherInv
<1> QED BY <1>2, <1>3, <1>4 DEF PlatformInv

LEMMA ControllerStep ==
  ASSUME PlatformInv,
         \/ run_controller \/ Measure \/ ControllerRaises
         \/ Shutdown \/ ShutdownFails \/ StopSelf
         \/ \E c \in Cpus : ForwardToCpu(c) \/ CpuAnswers(c) \/ CpuTimesOut(c)
  PROVE  PlatformInv'
<1>1. DOMAIN cpu = Cpus
  BY DEF PlatformInv, ConfigInv
<1>2. controller \in {"measured", "stopping", "stopped"} \/ stop_event # {} =>
        controller # "start" /\ \A c \in Cpus : cpu[c] = "ok"
  BY DEF PlatformInv, GatherInv
<1>3. CASE run_controller
  BY <1>2, <1>3, NoTask DEF run_controller
<1>4. CASE Measure \/ ControllerRaises
  BY <1>1, <1>2, <1>4, NoTask DEF Measure, ControllerRaises
<1>5. CASE Shutdown \/ ShutdownFails \/ StopSelf
  BY <1>1, <1>2, <1>5, NoTask DEF Shutdown, ShutdownFails, StopSelf
<1>6. ASSUME NEW c \in Cpus, ForwardToCpu(c) \/ CpuAnswers(c) \/ CpuTimesOut(c)
      PROVE  PlatformInv'
  <2>1. /\ UNCHANGED <<config, controller, task, late, computed, delays, stop_event>>
        /\ cpu[c] \in {"at-proxy", "asked", "working"}
    BY <1>6 DEF ForwardToCpu, CpuAnswers, CpuTimesOut
  <2>2. PICK v : /\ cpu' = [cpu EXCEPT ![c] = v]
                 /\ v = "ok" => \A g \in GpusOf(c) : task[g].at = "done"
    BY <1>6 DEF ForwardToCpu, CpuAnswers, CpuTimesOut
  <2>3. \A d \in Cpus : cpu'[d] = IF d = c THEN v ELSE cpu[d]
    BY <1>1, <2>2
  <2>4. DOMAIN cpu' = Cpus
    BY <1>1, <2>2
  <2>5. ~(controller \in {"measured", "stopping", "stopped"} \/ stop_event # {})
    BY <1>2, <2>1
  <2> QED BY <2>1, <2>2, <2>3, <2>4, <2>5, NoTask
<1> QED BY <1>3, <1>4, <1>5, <1>6

LEMMA PlatformStep == PlatformInv /\ [Next]_vars => PlatformInv'
<1> SUFFICES ASSUME PlatformInv, [Next]_vars PROVE PlatformInv'
  OBVIOUS
<1>1. CASE UNCHANGED vars
  BY <1>1, NoTask DEF vars, PlatformInv, ConfigInv, GatherInv
<1>2. CASE Next
  BY <1>2, TaskStep, LateStep, WorkloadStep, ControllerStep DEF Next, Progress, Faults
<1> QED BY <1>1, <1>2

(***************************************************************************)
(* For every configuration and however many requests fail or time out:     *)
(* once run_controller has its measurement, or a node has been told to     *)
(* stop, every GPU has run each round once, ns-3 has been asked once for   *)
(* each move between nodes, and no request is outstanding.  A request that *)
(* timed out and is served late can spoil the counts, but its task has     *)
(* raised, and the gathers of cpu_workload and of run_controller carry the *)
(* error up before a measurement is taken.                                 *)
(***************************************************************************)
THEOREM MeasurementIsWhole == Spec => []MeasuredWhole
<1>1. PlatformInv => MeasuredWhole
  <2> SUFFICES ASSUME PlatformInv,
                      controller \in {"measured", "stopping", "stopped"} \/ stop_event # {}
               PROVE  /\ late = {}
                      /\ \A g \in Gpus :
                           /\ task[g].at = "done" /\ computed[g] = Rounds
                           /\ delays[g] = (IF SameNode(g) THEN 0
                                           ELSE Rounds * (InputMessages + 1))
    BY DEF MeasuredWhole, SameNode
  <2>1. \A g \in Gpus : task[g].at = "done"
    <3>1. \A c \in Cpus : cpu[c] = "ok"
      BY DEF PlatformInv, GatherInv
    <3> QED BY <3>1 DEF PlatformInv, GatherInv, Gpus
  <2>2. late = {}
    BY <2>1 DEF PlatformInv, GatherInv
  <2> QED BY <2>1, <2>2, TaskOf DEF Tally
<1> QED BY <1>1, PlatformInit, PlatformStep, PTL DEF Spec
=============================================================================
