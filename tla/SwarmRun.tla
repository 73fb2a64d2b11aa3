------------------------------ MODULE SwarmRun ------------------------------
(***************************************************************************)
(* The runners that deploy a generated workload on a Docker Swarm, watch   *)
(* it, decide how it ended and remove it again: scripts/run_real_swarm.py  *)
(* ("real"), run_imported_swarm.py ("imported"), both with the docker      *)
(* command, and run_remote_functional_matrix.py ("functional"),            *)
(* run_mlp_scalability.py ("scalability"), run_mlp_dp_matrix.py ("mlpdp"), *)
(* over SSH.  A sample is one deployment: run_one, run_point,              *)
(* deploy_sample or run_once.                                              *)
(*                                                                         *)
(* Docker Swarm is external.  It removes a stack and its network some time *)
(* after it was told to, may reject a coordinator task and start another,  *)
(* restarts a transport that has ended, and keeps the log lines of a       *)
(* service name after the service is gone, as the comment in deploy_sample *)
(* says.  A log line is <<sample, what, n>>.  Deadlines are steps that may *)
(* happen at the head of a polling loop.                                   *)
(***************************************************************************)
EXTENDS Deployment

CONSTANTS Kinds,       \* the runners of this instance, and "hand": generators only
          Jobs,        \* Jobs[n]: what the n-th sample may be asked to deploy
          Dirs,        \* output directories
          node_count,  \* transports of a sample that was generated before
          PhaseOne,    \* PHASE_ONE_COUNTS of the workload
          expected_pipecomm_events,
          RANKS,       \* ranks of the MLP
          MaxSamples,  \* samples that are started
          MaxTasks     \* coordinator tasks of one sample

LocalRunners == {"real", "imported"}

ASSUME SwarmAssumption ==
  /\ Kinds \subseteq LocalRunners \cup {"functional", "scalability", "mlpdp", "hand"}
  /\ {node_count, PhaseOne, expected_pipecomm_events, RANKS, MaxSamples, MaxTasks}
       \subseteq Nat \ {0}

VARIABLES
  kind,     \* which runner this is
  natural,  \* --wait-for-natural-completion
  aged,     \* Docker prints how long ago a task got into its state
  job,      \* the job while it is generated, otherwise NoJob
  sample,   \* number of the sample
  dir,      \* its output directory
  used,     \* output directories that exist
  pc,       \* where the runner is
  state,    \* what coordinator_state returned
  read,     \* coordinator_log and last_transport_log of deploy_sample
  started,  \* all_phase1_started_seconds is set
  commanded,\* first_interchiplet_command_seconds is set; run_point decides by it
  blind,    \* the removal of the sample ended on a query that failed
  verdict,  \* status of the sample
  stack,    \* the stack of this name: absent, live or removing
  net,      \* its overlay network exists
  owner,    \* the sample whose deployment started its tasks
  tasks,    \* rows of docker service ps for its coordinator, latest first
  scaled,   \* the coordinator has a replica
  log       \* lines of the services of this name

run == <<kind, natural, aged, job, sample, dir, used>>
noted == <<state, read, started, commanded>>
seen == <<noted, blind, verdict>>
swarm == <<stack, net, owner, tasks, scaled, log>>
vars == <<run, pc, seen, swarm>>

-----------------------------------------------------------------------------
(* Names and log lines.                                                    *)

\* Mutant: the stack is named after its node count and repetition alone.
NameWithoutRunId(d) == "point"
\* Only deploy_sample puts the output directory into the name of the stack.
Name(d) == IF kind = "scalability" THEN d ELSE "point"
stack_name == Name(dir)

Of(lines, what) == {l \in lines : l[2] = what}
IdsOf(lines, what) == {l[3] : l \in Of(lines, what)}
Lines(what) == Of(log, what)
Ids(what) == IdsOf(log, what)
By(s, what) == {l[3] : l \in {m \in Lines(what) : m[1] = s}}
Own(what) == By(sample, what)
Workers == 1..node_count

NoJob == [ok |-> FALSE]

\* The local runners give the generators few options.  The remote runners
\* deploy what somebody generated by hand before, with any options.
Default(j) ==
  /\ j.policy = "contiguous" /\ j.phase2_backend = "popnet" /\ j.topology_nodes = j.nodes
  /\ j.base_port = 9700 /\ j.physical = << >>
  /\ j.max_instructions = {} /\ j.max_completed_cta = {} /\ j.worker_ready_timeout = {}
JobsOf(k, n) ==
  CASE k = "real" -> {[j EXCEPT !.remote_phase2 = TRUE, !.gdb_process_index = {},
                                !.sniper_fast_forward = FALSE] : j \in {i \in Jobs[n] : Default(i)}}
    [] k = "imported" -> {[j EXCEPT !.remote_phase2 = FALSE] :
                            j \in {i \in Jobs[n] : Default(i) /\ i.nodes = 1}}
    [] k = "hand" -> Jobs[n]
    [] OTHER -> {NoJob}

Init ==
  /\ kind \in Kinds /\ natural \in BOOLEAN /\ (natural => kind = "scalability")
  /\ aged \in BOOLEAN /\ (~aged => natural)
  /\ job = NoJob
  /\ sample = 0 /\ dir = "none" /\ used = {}
  /\ pc = "idle" /\ state = "none" /\ read = {} /\ verdict = "none"
  /\ started = FALSE /\ commanded = FALSE /\ blind = FALSE
  /\ stack = "absent" /\ net = FALSE /\ owner = 0
  /\ tasks = << >> /\ scaled = FALSE /\ log = {}

Goto(label) == pc' = label
End(v) == verdict' = v /\ Goto("ended")

-----------------------------------------------------------------------------
(* Docker Swarm.                                                           *)

Rows(states) == {tasks[i] : i \in DOMAIN tasks} \cap ({"Running", "Shutdown"} \X states)

\* A stack that nobody will look at again is not followed any further.
Live == stack = "live" /\ (pc = "ended" => kind # "scalability" /\ sample < MaxSamples)

\* The coordinator service gets a task, which is placed on a node or
\* rejected there; a rejected one stays listed and is replaced.
TaskStarts ==
  /\ Live /\ scaled /\ Len(tasks) < MaxTasks
  /\ Rows({"Preparing", "Running", "Complete", "Failed"}) = {}
  /\ tasks' = <<<<"Running", "Preparing">>>> \o tasks
  /\ UNCHANGED <<run, pc, seen, stack, net, owner, scaled, log>>

TaskPlaced ==
  /\ Live /\ Rows({"Preparing"}) # {}
  /\ \E row \in {<<"Running", "Running">>, <<"Running", "Rejected">>, <<"Shutdown", "Rejected">>} :
       tasks' = [tasks EXCEPT ![1] = row]
  /\ UNCHANGED <<run, pc, seen, stack, net, owner, scaled, log>>

\* The desired state of a task that is over may be either.
TaskEnds ==
  /\ Live /\ Rows({"Running"}) # {}
  /\ \E s \in {"Complete", "Failed"}, d \in {"Running", "Shutdown"} :
       tasks' = [tasks EXCEPT ![1] = <<d, s>>]
  /\ UNCHANGED <<run, pc, seen, stack, net, owner, scaled, log>>

\* What the processes of the sample that started them print, in the order
\* they can.  A coordinator may be over without its marker, and a transport
\* that is restarted prints once more that it is ready: line node_count + 1
\* is that of worker 1.  Nobody reads these lines any more once the
\* coordinator has a replica.
Prints(what, n) ==
  CASE what = "ready" -> kind = "scalability" /\ ~scaled /\ n \in 1..(node_count + 1)
                           /\ (n = node_count + 1 => 1 \in By(owner, "ready"))
    [] what = "child-failed" -> kind \in LocalRunners /\ n = 0
    [] what = "all-exit" -> kind = "imported" /\ n = 0
    [] what = "phase1" -> kind \in {"functional", "scalability"} /\ n \in 1..PhaseOne
    [] what = "exit-bad" -> kind = "scalability" /\ n = 1 /\ By(owner, "phase1") # {}
    [] what = "intercmd" -> kind = "functional" /\ n = 0 /\ By(owner, "phase1") # {}
    [] what = "metric" -> kind = "scalability" /\ ~natural /\ By(owner, "phase1") # {}
                            /\ n = 1 + Cardinality(By(owner, "metric"))
                            /\ n <= expected_pipecomm_events
    [] what = "phase2" -> natural /\ n = 0 /\ By(owner, "phase1") = 1..PhaseOne
    [] what \in {"model", "other-model"} -> kind = "mlpdp" /\ n \in 1..RANKS
                            /\ n \notin By(owner, "model") \cup By(owner, "other-model")

LogLine ==
  /\ Live
  /\ \E what \in {"ready", "child-failed", "all-exit", "phase1", "exit-bad", "intercmd",
                  "metric", "phase2", "model", "other-model"},
        n \in 0..(1 + node_count + PhaseOne + expected_pipecomm_events + RANKS) :
       /\ what = "ready" \/ Rows({"Running"}) # {}
       /\ Prints(what, n)
       /\ log' = log \cup {<<owner, what, n>>}
  /\ UNCHANGED <<run, pc, seen, stack, net, owner, tasks, scaled>>

\* Asynchronous removal: the stack and its network go one after the other.
StackGone ==
  /\ stack = "removing" /\ stack' = "absent"
  /\ UNCHANGED <<run, pc, seen, net, owner, tasks, scaled, log>>

NetworkGone ==
  /\ net /\ stack # "live" /\ net' = FALSE
  /\ UNCHANGED <<run, pc, seen, stack, owner, tasks, scaled, log>>

-----------------------------------------------------------------------------
(* From the start of a sample to its deployment.                           *)

\* Swarm has nothing of a name that was never deployed.
NewName ==
  /\ stack' = "absent" /\ net' = FALSE /\ owner' = 0
  /\ tasks' = << >> /\ scaled' = FALSE /\ log' = {}

\* The output directory must not exist yet.
Start ==
  /\ pc \in {"idle", "ended"} /\ sample < MaxSamples
  /\ sample' = sample + 1
  /\ state' = "none" /\ read' = {} /\ started' = FALSE /\ commanded' = FALSE /\ blind' = FALSE
  /\ \/ used # {} /\ End("aborted") /\ UNCHANGED <<job, dir, used, swarm>>
     \/ /\ dir' \in Dirs \ used /\ used' = used \cup {dir'}
        /\ verdict' = "none" /\ job' \in JobsOf(kind, sample')
        /\ Goto(IF kind \in LocalRunners \cup {"hand"} THEN "generate" ELSE "settle-rm")
        /\ IF Name(dir') = stack_name THEN UNCHANGED swarm ELSE NewName
  /\ UNCHANGED <<kind, natural, aged>>

\* require_active_swarm and require_node_labels, then the generators.
SwarmFits(j) ==
  /\ j.swarm_active
  /\ Len(j.labels) >= j.nodes
  /\ \A s \in Range0(j.nodes) : \E i \in DOMAIN j.labels : s \in j.labels[i]

Accepted == (kind \in LocalRunners => SwarmFits(job)) /\ Deployed(job).ok

Generate ==
  /\ pc = "generate"
  /\ IF Accepted
     THEN IF kind = "hand" THEN End("generated") ELSE Goto("settle") /\ UNCHANGED verdict
     ELSE End("aborted")
  /\ job' = NoJob
  /\ UNCHANGED <<kind, natural, aged, sample, dir, used, noted, blind, swarm>>

IncompleteSource ==
  /\ pc = "generate" /\ kind = "imported" /\ End("aborted")
  /\ job' = NoJob
  /\ UNCHANGED <<kind, natural, aged, sample, dir, used, noted, blind, swarm>>

\* docker stack rm; its exit code is ignored.
Remove == stack' \in {stack, IF stack = "live" THEN "removing" ELSE stack}

\* The queries of one look at the Swarm that fail.  The remote runners look
\* neither at the exit code of docker stack ls nor at why docker network
\* inspect has failed, so that a failure counts as the answer "gone"; the
\* local ones raise.
Unanswered == IF kind \in LocalRunners THEN {{}} ELSE SUBSET {"stack", "network"}
\* Mutant: nothing is waited for.
GoneAtOnce(failed) == TRUE
Gone(failed) ==
  /\ stack = "absent" \/ "stack" \in failed
  /\ ~net \/ "network" \in failed

\* wait_for_removal of the remote runners removes first.
SettleRemove ==
  /\ pc = "settle-rm" /\ Remove /\ Goto("settle")
  /\ UNCHANGED <<run, seen, net, owner, tasks, scaled, log>>

Settled ==
  /\ pc = "settle" /\ (\E failed \in Unanswered : Gone(failed)) /\ Goto("deploy")
  /\ UNCHANGED <<run, seen, swarm>>

SettleTimeout ==
  /\ pc = "settle" /\ End("not-removed")
  /\ UNCHANGED <<run, noted, blind, swarm>>

\* rewrite_prewarm_stack gives the coordinator no replica.
WithCoordinator == kind # "scalability"

\* Where a stack of this name was left alive, services that have not
\* changed keep their tasks.
Deploy ==
  /\ pc = "deploy"
  /\ stack' = "live" /\ net' = TRUE /\ scaled' = WithCoordinator
  /\ \/ owner' = sample /\ tasks' = << >>
     \/ stack = "live" /\ UNCHANGED <<owner, tasks>>
  /\ Goto(IF WithCoordinator THEN "poll" ELSE "prewarm")
  /\ UNCHANGED <<run, seen, log>>

\* The deployment fails, before or after the stack exists.  run_one is
\* inside its try; the remote runners return or raise at once.
DeployFails ==
  /\ pc = "deploy"
  /\ \/ UNCHANGED swarm
     \/ /\ stack' = "live" /\ net' = TRUE /\ owner' = sample /\ tasks' = << >>
        /\ scaled' \in {FALSE, WithCoordinator} /\ UNCHANGED log
  /\ verdict' = "deployment-error"
  /\ Goto(IF kind \in LocalRunners THEN "collect" ELSE "ended")
  /\ UNCHANGED <<run, noted, blind>>

-----------------------------------------------------------------------------
(* Polling.                                                                *)

\* The first of these states that some task is in, the latest row otherwise.
coordinator_state ==
  LET preference == <<"Complete", "Running", "Failed", "Rejected">>
      found == {i \in DOMAIN preference : Rows({preference[i]}) # {}}
  IN CASE found # {} -> preference[Smallest(found)]
       [] found = {} /\ tasks # << >> -> "Preparing"
       [] OTHER -> "missing"

PollState ==
  /\ pc = "poll" /\ kind \in LocalRunners
  /\ state' = coordinator_state /\ Goto("decide")
  /\ UNCHANGED <<run, read, started, commanded, blind, verdict, swarm>>

native_failures == Lines("child-failed") # {}

\* run_one of run_real_swarm.py reads the log once the task is complete.
DecideReal ==
  CASE state = "Complete" -> IF native_failures THEN "native-process-failed" ELSE "ok"
    [] state \in {"Failed", "Rejected"} -> "coordinator-failed"
    [] OTHER -> "none"

\* run_one of run_imported_swarm.py reads the live log at every poll.
DecideImported ==
  CASE native_failures -> "native-process-failed"
    [] ~native_failures /\ state = "Complete" ->
         IF Lines("all-exit") # {} THEN "ok" ELSE "no-marker"
    [] ~native_failures /\ state \in {"Failed", "Rejected", "missing"} -> "coordinator-failed"
    [] OTHER -> "none"

Decide ==
  /\ pc = "decide"
  /\ verdict' = (IF kind = "real" THEN DecideReal ELSE DecideImported)
  /\ Goto(IF verdict' = "none" THEN "poll" ELSE "collect")
  /\ UNCHANGED <<run, noted, blind, swarm>>

phase_one_count(lines) == Cardinality(IdsOf(lines, "phase1"))

\* run_point latches both signs of life.
PollFunctional ==
  /\ pc = "poll" /\ kind = "functional"
  /\ started' = (started \/ phase_one_count(log) >= PhaseOne)
  /\ commanded' = (commanded \/ Lines("intercmd") # {})
  /\ IF started' /\ commanded' THEN verdict' = "ok" /\ Goto("collect")
     ELSE UNCHANGED <<verdict, pc>>
  /\ UNCHANGED <<run, state, read, blind, swarm>>

\* deploy_sample counts the lines, whoever printed them.
Prewarmed ==
  /\ pc = "prewarm" /\ Cardinality(Lines("ready")) >= node_count /\ Goto("scale")
  /\ UNCHANGED <<run, seen, swarm>>

Scale ==
  /\ pc = "scale" /\ scaled' = TRUE /\ Goto("poll")
  /\ UNCHANGED <<run, seen, stack, net, owner, tasks, log>>

\* The logs are read first, and the state of the tasks after that.
ReadLogs ==
  /\ pc = "poll" /\ kind = "scalability"
  /\ read' = log /\ Goto("judge")
  /\ UNCHANGED <<run, state, started, commanded, blind, verdict, swarm>>

\* Of the tasks that shall run, the first that is over; a state is over only
\* when nothing follows its name, and Docker may print its age there.
coordinator_terminal_state ==
  LET over == {i \in DOMAIN tasks : ~aged /\ tasks[i][1] = "Running"
                                       /\ tasks[i][2] \in {"Complete", "Failed", "Rejected"}}
  IN CASE over = {} -> "none"
       [] over # {} /\ tasks[Smallest(over)][2] = "Complete" -> "complete"
       [] OTHER -> "failed"

DecideNatural ==
  CASE coordinator_terminal_state = "failed" -> "coordinator-failed"
    [] coordinator_terminal_state = "complete" ->
         IF phase_one_count(read) >= PhaseOne /\ Of(read, "phase2") # {} THEN "ok"
         ELSE "incomplete-native-phase-graph"
    [] OTHER -> "none"

\* The fixed epoch counts records only once all of phase one was seen.
DecideEpoch ==
  IF started' /\ Cardinality(Of(read, "metric")) >= expected_pipecomm_events THEN "ok" ELSE "none"

PollScalability ==
  /\ pc = "judge"
  /\ LET bad == Of(read, "exit-bad") # {}
         over == bad \/ (natural /\ DecideNatural # "none")
     IN /\ started' = (started \/ (~over /\ phase_one_count(read) >= PhaseOne))
        /\ verdict' = (CASE bad -> "phase-one-failed"
                         [] ~bad /\ natural -> DecideNatural
                         [] OTHER -> DecideEpoch)
  /\ read' = {} /\ Goto(IF verdict' = "none" THEN "poll" ELSE "collect")
  /\ UNCHANGED <<run, state, commanded, blind, swarm>>

\* models_from_logs raises, and the loop goes on, until every rank has
\* printed one model and none has printed two.
models_from_logs ==
  Ids("model") \cup Ids("other-model") = 1..RANKS /\ Ids("model") \cap Ids("other-model") = {}

\* run_once compares the ranks with each other, main with the reference.
assert_equivalent ==
  CASE Ids("other-model") = {} -> "ok"
    [] Ids("model") = {} -> "differs-from-reference"
    [] OTHER -> "error"

PollMlpDp ==
  /\ pc = "poll" /\ kind = "mlpdp" /\ models_from_logs
  /\ verdict' = assert_equivalent
  /\ Goto("collect")
  /\ UNCHANGED <<run, noted, blind, swarm>>

\* Mutants: a timeout raised outside the try; no deadline of the prewarm loop.
DeadlineUnprotected ==
  /\ pc \in {"poll", "prewarm"} /\ End("timeout")
  /\ UNCHANGED <<run, noted, blind, swarm>>
DeadlineOfPollOnly ==
  /\ pc = "poll" /\ verdict' = "timeout"
  /\ Goto(IF kind = "mlpdp" THEN "remove" ELSE "collect")
  /\ UNCHANGED <<run, noted, blind, swarm>>
Deadline ==
  /\ pc \in {"poll", "prewarm"}
  /\ verdict' = (IF pc = "prewarm" THEN "prewarm-timeout" ELSE "timeout")
  /\ Goto(IF pc = "prewarm" \/ kind = "mlpdp" THEN "remove" ELSE "collect")
  /\ UNCHANGED <<run, noted, blind, swarm>>

\* A docker or SSH command fails.  run_one and run_once clean up in finally,
\* run_point and deploy_sample let the exception pass.
CommandFails ==
  /\ pc \in {"settle-rm", "settle", "prewarm", "scale", "poll", "decide", "judge", "collect",
             "remove"}
  /\ pc \in {"collect", "remove"} => kind \notin LocalRunners
  /\ verdict' = (CASE pc \in {"settle-rm", "settle"} -> "aborted"
                   [] pc = "remove" -> "not-removed"
                   [] OTHER -> "error")
  /\ Goto(CASE verdict' = "error" /\ kind \in LocalRunners -> "collect"
            [] verdict' = "error" /\ kind = "mlpdp" -> "remove"
            [] OTHER -> "ended")
  /\ read' = {}
  /\ UNCHANGED <<run, state, started, commanded, blind, swarm>>

-----------------------------------------------------------------------------
(* Logs are saved, then the stack is removed.                              *)

Collect ==
  /\ pc = "collect" /\ Goto("remove")
  /\ UNCHANGED <<run, seen, swarm>>

RemoveStack ==
  /\ pc = "remove" /\ Remove /\ Goto("removal")
  /\ UNCHANGED <<run, seen, net, owner, tasks, scaled, log>>

Removed ==
  /\ pc = "removal" /\ Goto("ended")
  /\ \E failed \in Unanswered : Gone(failed) /\ blind' = (failed # {})
  /\ UNCHANGED <<run, noted, verdict, swarm>>

\* The wait is over, or a command of it fails.
RemovalTimeout ==
  /\ pc = "removal" /\ End("not-removed")
  /\ UNCHANGED <<run, noted, blind, swarm>>

\* The runner is killed and no finally runs.
Killed ==
  /\ pc \notin {"idle", "ended"} /\ End("killed")
  /\ UNCHANGED <<run, noted, blind, swarm>>

Runner ==
  \/ SettleRemove \/ Settled \/ Deploy \/ PollState \/ Decide
  \/ PollFunctional \/ Prewarmed \/ Scale \/ ReadLogs \/ PollScalability \/ PollMlpDp
  \/ Collect \/ RemoveStack \/ Removed
Timeouts == SettleTimeout \/ Deadline \/ RemovalTimeout
Faults == IncompleteSource \/ DeployFails \/ CommandFails \/ Killed
Docker == TaskStarts \/ TaskPlaced \/ TaskEnds \/ LogLine \/ StackGone \/ NetworkGone
Next == Start \/ Generate \/ Runner \/ Timeouts \/ Faults \/ Docker

Spec == Init /\ [][Next]_vars

\* A deadline passes once and stays passed, and a loop that goes on comes
\* back to the test of its deadline.
FairSpec ==
  /\ Spec /\ WF_vars(Runner) /\ WF_vars(SettleTimeout) /\ WF_vars(RemovalTimeout)
  /\ SF_vars(Deadline)

-----------------------------------------------------------------------------
(* Properties.                                                             *)

Generated == pc = "generate" /\ Accepted

\* The five generators agree: a process runs on the worker that the routing
\* gives for its chiplet, that worker is a service of the stack (which some
\* node of the Swarm can host when the runner has looked at the labels), and
\* two workers with processes of one workload have a channel with a listener
\* on the lower slot.
EndpointsAgree ==
  Generated =>
    LET d == Deployed(job)
        at(p) == CHOOSE s \in p.worker : TRUE
        chiplet(i) == process_coordinates(job.phase1[i])
    IN /\ \A i \in DOMAIN d.yaml.phase1 :
            LET s == at(d.yaml.phase1[i]) IN
            /\ d.routing.coordinate_to_worker_slot[chiplet(i)] = s
            /\ \E v \in d.stack.services :
                 /\ <<"worker", s>> \in v.aliases
                 /\ kind \in LocalRunners =>
                      \E n \in DOMAIN job.labels : v.label \subseteq job.labels[n]
       /\ \A i, k \in DOMAIN d.yaml.phase1 :
            LET s == at(d.yaml.phase1[i])  t == at(d.yaml.phase1[k]) IN
            s < t => /\ <<s, t>> \in DOMAIN d.routing.channel_by_worker_pair
                     /\ \E c \in d.topology.channels :
                          c.listener_slot = s /\ c.connector_slot = t
       /\ \A s \in Range0(job.nodes) :
            Cardinality({i \in DOMAIN d.placement.processes :
                           d.placement.processes[i].node_slot = s})
              = Len(d.placement.processes) \div job.nodes

\* communication_aware_mlp_order keeps as many CPU-to-GPU edges local as any
\* grouping of equal capacity can; rank_aware_mlp_order keeps CPU, MNSIM and
\* the GPUs of rank 0 together and the GPUs of rank 1 together.
AffinityKept ==
  Generated =>
    LET slot(i) == SlotOf(Deployed(job).placement, "phase1", i)
        room == 8 \div job.nodes - 1
    IN /\ job.policy = "communication-aware" =>
            Cardinality({g \in 0..3 : slot(g) = slot(4)}) = Smallest({4, room})
       /\ job.policy = "rank-aware" =>
            slot(0) = slot(4) /\ slot(1) = slot(4) /\ slot(6) = slot(4) /\ slot(2) = slot(3)

\* A run without the limits on instructions is the run that was generated
\* without them: what deploy_sample removes from the YAML is what the
\* generator put in.  A limit on completed CTAs stays.
LimitsRemovable ==
  Generated =>
    \A i \in DOMAIN job.phase1 :
      remove_sniper_fast_forward(remove_gpgpu_instruction_limits(
        Deployed(job).yaml.phase1[i].args))
      = Deployed([job EXCEPT !.max_instructions = {},
                             !.sniper_fast_forward = FALSE]).yaml.phase1[i].args

\* What the generators write agrees, program with program and option with
\* option.
GeneratorsAgree == EndpointsAgree /\ AffinityKept /\ LimitsRemovable

Restarted == By(owner, "ready") \ Workers # {}

\* deploy_sample starts the coordinator only once every worker of this very
\* sample is ready, unless a transport was restarted: then its second line
\* stands for the line of a worker that is not.
WorkersAwaited ==
  kind = "scalability" /\ scaled => Workers \subseteq By(owner, "ready") \/ Restarted

\* Verdicts after which the runner has come through its removal.
Cleaned ==
  {"ok", "timeout", "prewarm-timeout", "native-process-failed", "coordinator-failed",
   "no-marker", "phase-one-failed", "incomplete-native-phase-graph", "differs-from-reference"}
    \cup (IF kind \in LocalRunners \cup {"mlpdp"} THEN {"error"} ELSE {})
    \cup (IF kind \in LocalRunners THEN {"deployment-error"} ELSE {})

\* A sample that came to its removal leaves nothing behind in the Swarm, on
\* every path that leads there, provided that Docker answered the queries of
\* the wait; for the local runners it did, as they raise otherwise.
EndedClean == pc = "ended" /\ verdict \in Cleaned /\ ~blind => stack = "absent" /\ ~net

AllOwn == \A l \in log : l[1] = sample

\* What a success stands for, of tasks and lines of this sample alone.
Earned ==
  CASE kind = "real" -> owner = sample /\ Rows({"Complete"}) # {} /\ Own("child-failed") = {}
    [] kind = "imported" -> owner = sample /\ Rows({"Complete"}) # {} /\ Own("child-failed") = {}
                              /\ (AllOwn => Own("all-exit") # {})
    [] kind = "functional" -> AllOwn => Own("phase1") = 1..PhaseOne /\ Own("intercmd") # {}
    [] kind = "scalability" ->
         /\ Own("phase1") = 1..PhaseOne
         /\ IF natural THEN owner = sample /\ Rows({"Complete"}) # {} /\ Own("phase2") # {}
            ELSE Cardinality(Own("metric")) = expected_pipecomm_events
    [] kind = "mlpdp" -> AllOwn => Own("model") = 1..RANKS

\* A success is the success of this sample: not of the tasks of a stack that
\* a killed runner has left, and for deploy_sample not of log lines that
\* Docker kept.  The others use one stack name for every output directory;
\* what they take from the log is theirs only if the name has no history.
SuccessIsEarned == pc = "ended" /\ verdict = "ok" => Earned

\* Provided that docker commands return, a sample that has been generated
\* ends, at the latest by its deadlines: no loop waits for a log line, a task
\* or a removal alone.
SampleEnds == pc \notin {"idle", "generate", "ended"} ~> pc = "ended"
=============================================================================
