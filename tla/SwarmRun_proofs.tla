-------------------------- MODULE SwarmRun_proofs --------------------------
(***************************************************************************)
(* What the Swarm runners guarantee of a sample, for any number of samples *)
(* and tasks, any output directories, jobs and counts: it leaves a clean   *)
(* Swarm behind if Docker answered, its coordinator waits for its workers, *)
(* and it is reported as a success only for what it did itself.            *)
(***************************************************************************)
EXTENDS SwarmRun, FiniteSetTheorems, SequenceTheorems, WellFoundedInduction, TLAPS

USE SwarmAssumption

(***************************************************************************)
(* Before a local sample and after any sample nothing of its name is left. *)
(***************************************************************************)
CleanInv == (kind \in LocalRunners /\ pc = "deploy" => stack = "absent") /\ EndedClean

LEMMA CleanInit == Init => CleanInv
  BY DEF Init, CleanInv, EndedClean

\* A step of the runner that neither enters nor leaves these two places.
LEMMA CleanElsewhere ==
  ASSUME pc' \notin {"deploy", "ended"}
  PROVE  CleanInv'
  BY DEF CleanInv, EndedClean

LEMMA CleanVerdict ==
  ASSUME pc' = "ended", verdict' \in {"aborted", "generated", "not-removed", "killed"}
  PROVE  CleanInv'
  BY DEF CleanInv, EndedClean, Cleaned, LocalRunners

LEMMA CleanStep == CleanInv /\ [Next]_vars => CleanInv'
<1> SUFFICES ASSUME CleanInv, [Next]_vars PROVE CleanInv'
  OBVIOUS
<1>1. CASE Start
  BY <1>1, CleanElsewhere, CleanVerdict DEF Start, End, Goto
<1>2. CASE Generate \/ IncompleteSource
  BY <1>2, CleanElsewhere, CleanVerdict DEF Generate, IncompleteSource, End, Goto
<1>3. CASE \/ SettleRemove \/ Deploy \/ PollState \/ Decide \/ Prewarmed \/ Scale
           \/ PollMlpDp \/ Collect \/ RemoveStack \/ Deadline
  BY <1>3, CleanElsewhere
  DEF SettleRemove, Deploy, PollState, Decide, Prewarmed, Scale, PollMlpDp, Collect,
      RemoveStack, Deadline, Goto
<1>4. CASE PollFunctional \/ ReadLogs \/ PollScalability
  BY <1>4, CleanElsewhere DEF PollFunctional, ReadLogs, PollScalability, Goto
<1>5. CASE Settled
  BY <1>5 DEF Settled, Goto, Gone, Unanswered, CleanInv, EndedClean, run, seen, swarm
<1>6. CASE Removed
  BY <1>6 DEF Removed, Goto, Gone, CleanInv, EndedClean, swarm
<1>7. CASE SettleTimeout \/ RemovalTimeout \/ Killed
  BY <1>7, CleanVerdict DEF SettleTimeout, RemovalTimeout, Killed, End, Goto
<1>8. CASE DeployFails
  <2>1. CASE kind \in LocalRunners
    BY <1>8, <2>1, CleanElsewhere DEF DeployFails, Goto
  <2>2. CASE kind \notin LocalRunners
    BY <1>8, <2>2 DEF DeployFails, Goto, CleanInv, EndedClean, Cleaned, run
  <2> QED BY <2>1, <2>2
<1>9. CASE CommandFails
  <2>1. CASE verdict' # "error"
    <3>1. verdict' \in {"aborted", "not-removed"} /\ pc' = "ended"
      BY <1>9, <2>1, Zenon DEF CommandFails, Goto
    <3> QED BY <3>1, CleanVerdict
  <2>2. CASE verdict' = "error" /\ kind \in LocalRunners \cup {"mlpdp"}
    <3>1. pc' \in {"collect", "remove"}
      BY <1>9, <2>2 DEF CommandFails, Goto, LocalRunners
    <3> QED BY <3>1, CleanElsewhere
  <2>3. CASE verdict' = "error" /\ kind \notin LocalRunners \cup {"mlpdp"}
    <3>1. pc' = "ended" /\ kind' = kind
      BY <1>9, <2>3 DEF CommandFails, Goto, run
    <3> QED BY <2>3, <3>1 DEF CleanInv, EndedClean, Cleaned
  <2> QED BY <2>1, <2>2, <2>3
<1>10. CASE \/ TaskStarts \/ TaskPlaced \/ TaskEnds \/ LogLine
            \/ StackGone \/ NetworkGone \/ UNCHANGED vars
  <2>1. /\ UNCHANGED <<kind, pc, blind, verdict>>
        /\ stack' \in {stack, "absent"} /\ (~net => ~net')
    BY <1>10 DEF TaskStarts, TaskPlaced, TaskEnds, LogLine, StackGone, NetworkGone, run, seen,
       swarm, vars
  <2> QED BY <2>1 DEF CleanInv, EndedClean, Cleaned
<1> QED
  BY <1>1, <1>2, <1>3, <1>4, <1>5, <1>6, <1>7, <1>8, <1>9, <1>10
  DEF Next, Runner, Timeouts, Faults, Docker

LEMMA CleanInvHolds == Spec => []CleanInv
  BY CleanInit, CleanStep, PTL DEF Spec

\* A sample that came to its removal, on any path through run_one, run_point,
\* deploy_sample and run_once, has left neither its stack nor its network in
\* the Swarm, if Docker answered the queries of the wait.
THEOREM EndsClean == Spec => []EndedClean
<1>1. CleanInv => EndedClean
  BY DEF CleanInv
<1> QED BY <1>1, CleanInvHolds, PTL

(***************************************************************************)
(* A success is the success of the sample it is reported for.              *)
(***************************************************************************)
Desired == {"Running", "Shutdown"}
TaskStates == {"Preparing", "Running", "Complete", "Failed", "Rejected"}

\* Swarm replaces rejected tasks only, so all rows but the latest are
\* rejected ones.
TaskInv ==
  /\ tasks \in Seq(Desired \X TaskStates)
  /\ \A i \in DOMAIN tasks : i # 1 => tasks[i][2] = "Rejected"

LogInv ==
  \A l \in log :
    /\ l[2] = "phase1" => l[3] \in 1..PhaseOne
    /\ l[2] = "metric" => l = <<l[1], l[2], l[3]>> /\ l[3] \in 1..expected_pipecomm_events
    /\ l[2] = "ready" => l = <<l[1], l[2], l[3]>> /\ l[3] \in 1..(node_count + 1)

\* deploy_sample names the stack after an output directory that is new.
NameInv ==
  /\ dir \notin used => log = {} /\ stack = "absent"
  /\ IF pc = "idle" THEN used = {} ELSE dir \in used
  /\ kind = "scalability" /\ (pc \notin {"idle", "ended"} \/ verdict = "ok") => AllOwn

\* What the runner remembers of earlier polls still holds.
SeenInv ==
  /\ kind \in Kinds /\ read \subseteq log
  /\ started => Ids("phase1") = 1..PhaseOne
  /\ commanded => Lines("intercmd") # {}
  /\ pc = "decide" => /\ kind \in LocalRunners
                      /\ state = "Complete" => Rows({"Complete"}) # {}
  /\ pc = "judge" => kind = "scalability"

OkInv ==
  verdict = "ok" =>
    /\ pc \in {"collect", "remove", "removal", "ended"} /\ kind # "hand"
    /\ kind \in LocalRunners => Rows({"Complete"}) # {} /\ Lines("child-failed") = {}
    /\ kind = "imported" => Lines("all-exit") # {}
    /\ kind = "functional" => started /\ commanded
    /\ kind = "scalability" =>
         /\ Ids("phase1") = 1..PhaseOne
         /\ natural => Rows({"Complete"}) # {} /\ Lines("phase2") # {}
         /\ ~natural => Ids("metric") = 1..expected_pipecomm_events
    /\ kind = "mlpdp" /\ AllOwn => Ids("model") = 1..RANKS

SuccessInv == TaskInv /\ LogInv /\ NameInv /\ SeenInv /\ OkInv

\* These runners find no stack of their name alive when they deploy, so that
\* the tasks they look at are their own.
Fresh == LocalRunners \cup {"scalability"}
Undeployed == {"generate", "settle-rm", "settle", "deploy"}
Watching == {"prewarm", "scale", "poll", "decide", "judge"}
OwnerInv ==
  /\ kind = "scalability" /\ pc \in Undeployed => stack = "absent"
  /\ kind = "scalability" /\ pc \notin Undeployed \cup {"idle", "ended"} => owner = sample
  /\ kind \in LocalRunners /\ pc = "deploy" => stack = "absent"
  /\ kind \in LocalRunners /\ pc \in Watching => owner = sample
  /\ kind \in Fresh /\ verdict = "ok" => owner = sample

LEMMA FullSet ==
  ASSUME NEW n \in Nat, NEW S, S \subseteq 1..n, Cardinality(S) >= n
  PROVE  S = 1..n
<1>1. IsFiniteSet(1..n) /\ Cardinality(1..n) = n
  BY FS_Interval
<1>2. IsFiniteSet(S) /\ Cardinality(S) <= n /\ (Cardinality(1..n) = Cardinality(S) => 1..n = S)
  BY <1>1, FS_Subset
<1>3. Cardinality(S) \in Nat
  BY <1>2, FS_CardinalityType
<1> QED BY <1>1, <1>2, <1>3

\* As many log lines of one sample as there are numbers: all numbers.
LEMMA FullLines ==
  ASSUME NEW n \in Nat, NEW s, NEW what, NEW T,
         \A l \in T : l = <<s, what, l[3]>> /\ l[3] \in 1..n,
         Cardinality(T) >= n
  PROVE  {l[3] : l \in T} = 1..n
<1> DEFINE f == [l \in T |-> l[3]]
<1>2. f \in Injection(T, 1..n)
  <2>1. f \in [T -> 1..n]
    OBVIOUS
  <2>2. ASSUME NEW a \in T, NEW b \in T, f[a] = f[b] PROVE a = b
    BY <2>2
  <2> HIDE DEF f
  <2> QED BY <2>1, <2>2 DEF Injection, IsInjective
<1>3. IsFiniteSet(1..n) /\ Cardinality(1..n) = n
  BY FS_Interval
<1>4. /\ IsFiniteSet(T) /\ Cardinality(T) <= Cardinality(1..n)
      /\ Cardinality(T) = Cardinality(1..n) => f \in Surjection(T, 1..n)
  <2> HIDE DEF f
  <2> QED BY <1>2, <1>3, FS_Injection
<1>5. Cardinality(T) = n
  <2>1. Cardinality(T) \in Nat
    BY <1>4, FS_CardinalityType
  <2> QED BY <1>3, <1>4, <2>1
<1>6. f \in Surjection(T, 1..n)
  BY <1>3, <1>4, <1>5
<1>7. \A k \in 1..n : \E l \in T : l[3] = k
  BY <1>6 DEF Surjection
<1> QED BY <1>7

LEMMA SmallestIn ==
  ASSUME NEW S, S \subseteq Nat, S # {}
  PROVE  Smallest(S) \in S
<1> DEFINE R == OpToRel(<, Nat)
<1>1. IsWellFoundedOn(R, Nat)
  BY NatLessThanWellFounded
<1>2. \A m, n \in Nat : m < n => <<m, n>> \in R
  BY DEF OpToRel
<1> HIDE DEF R
<1>3. PICK n \in S : \A m \in S : <<m, n>> \notin R
  BY <1>1, WFMin
<1>4. ASSUME NEW m \in S PROVE n <= m
  <2>1. m \in Nat /\ n \in Nat /\ ~(m < n)
    BY <1>2, <1>3
  <2> QED BY <2>1
<1> QED BY <1>4 DEF Smallest

LEMMA RowsOf ==
  ASSUME TaskInv, NEW s \in TaskStates
  PROVE  Rows({s}) # {} <=> \E i \in DOMAIN tasks : tasks[i][2] = s
<1>1. \A i \in DOMAIN tasks : tasks[i] \in Desired \X TaskStates
  BY DEF TaskInv
<1> QED BY <1>1 DEF Rows, Desired

\* Once the coordinator is complete its tasks do not change any more.
LEMMA CompleteStays ==
  ASSUME TaskInv, Rows({"Complete"}) # {}
  PROVE  Rows({"Preparing"}) = {} /\ Rows({"Running"}) = {}
<1>1. PICK i \in DOMAIN tasks : tasks[i][2] = "Complete"
  BY RowsOf DEF TaskStates
<1>2. i = 1 /\ \A k \in DOMAIN tasks : tasks[k][2] \in {"Complete", "Rejected"}
  BY <1>1 DEF TaskInv
<1> QED BY <1>2, RowsOf DEF TaskStates

kept == <<kind, natural, sample, dir, used, started, commanded>>
Judging == {"collect", "remove", "removal", "ended"}

\* A step of the runner that looks at nothing new.
LEMMA QuietStep ==
  ASSUME SuccessInv, UNCHANGED <<kept, tasks, log>>, read' \in {read, {}},
         pc \notin {"idle", "ended"}, pc' \notin {"idle", "decide", "judge"},
         verdict' = "ok" => verdict = "ok" /\ pc' \in Judging
  PROVE  SuccessInv'
<1>1. /\ \A w : Lines(w)' = Lines(w) /\ Ids(w)' = Ids(w)
      /\ \A s : Rows(s)' = Rows(s)
      /\ AllOwn' <=> AllOwn
  BY DEF kept, Lines, Ids, Rows, AllOwn
<1>2. TaskInv' /\ LogInv'
  BY DEF SuccessInv, TaskInv, LogInv
<1>3. NameInv'
  BY <1>1 DEF kept, SuccessInv, NameInv
<1>4. SeenInv'
  BY <1>1 DEF kept, SuccessInv, SeenInv
<1>5. OkInv'
  BY <1>1 DEF kept, SuccessInv, OkInv, Judging
<1> QED BY <1>2, <1>3, <1>4, <1>5 DEF SuccessInv

LEMMA SuccessInit == Init => SuccessInv
  BY DEF Init, SuccessInv, TaskInv, LogInv, NameInv, SeenInv, OkInv
LEMMA OwnerInit == Init => OwnerInv
  BY DEF Init, OwnerInv, Undeployed, Watching

LEMMA TaskStep ==
  ASSUME SuccessInv, TaskStarts \/ TaskPlaced \/ TaskEnds \/ LogLine
  PROVE  /\ TaskInv' /\ LogInv'
         /\ Rows({"Complete"}) # {} => UNCHANGED tasks
         /\ Rows({"Complete"}) # {} => \A l \in log' \ log : l[2] = "ready"
         /\ log \subseteq log'
         /\ \A l \in log' \ log : l[1] = owner /\ (l[2] = "model" => l[3] \in 1..RANKS)
         /\ UNCHANGED <<kept, pc, verdict, state, read, stack>>
<1> USE DEF SuccessInv
<1>0. /\ UNCHANGED <<kept, pc, verdict, state, read, stack>>
      /\ Rows({"Complete"}) # {} => Rows({"Preparing"}) = {} /\ Rows({"Running"}) = {}
  BY CompleteStays DEF TaskStarts, TaskPlaced, TaskEnds, LogLine, kept, run, seen, noted
<1>1. CASE TaskStarts
  <2> DEFINE new == <<"Running", "Preparing">>
  <2>1. new \in Desired \X TaskStates
    BY DEF Desired, TaskStates
  <2>2. tasks' = <<new>> \o tasks /\ UNCHANGED log
    BY <1>1 DEF TaskStarts
  <2>3. \A i \in DOMAIN tasks : tasks[i][2] = "Rejected"
    <3>1. ASSUME NEW i \in DOMAIN tasks PROVE tasks[i][2] = "Rejected"
      <4>1. tasks[i] \in Desired \X TaskStates
        BY DEF TaskInv
      <4>2. tasks[i] \notin Rows({"Preparing", "Running", "Complete", "Failed"})
        BY <1>1 DEF TaskStarts
      <4> QED BY <4>1, <4>2 DEF Rows, Desired, TaskStates
    <3> QED BY <3>1
  <2>4. Rows({"Complete"}) = {}
    BY <2>3, RowsOf DEF TaskStates
  <2>5. TaskInv'
    <3>1. tasks \in Seq(Desired \X TaskStates)
      BY DEF TaskInv
    <3>2. <<new>> \in Seq(Desired \X TaskStates)
      BY <2>1
    <3> HIDE DEF new
    <3>3. tasks' \in Seq(Desired \X TaskStates)
      BY <2>2, <3>1, <3>2
    <3>4. ASSUME NEW i \in DOMAIN tasks', i # 1 PROVE tasks'[i][2] = "Rejected"
      <4>1. i - 1 \in DOMAIN tasks /\ tasks'[i] = tasks[i - 1]
        BY <2>2, <3>1, <3>2, <3>4
      <4> QED BY <2>3, <4>1
    <3> QED BY <3>3, <3>4 DEF TaskInv
  <2> QED BY <1>0, <2>2, <2>4, <2>5 DEF LogInv, kept
<1>2. CASE TaskPlaced \/ TaskEnds
  <2>1. PICK row \in Desired \X TaskStates : tasks' = [tasks EXCEPT ![1] = row]
    BY <1>2 DEF TaskPlaced, TaskEnds, Desired, TaskStates
  <2>2. Rows({"Complete"}) = {}
    BY <1>0, <1>2 DEF TaskPlaced, TaskEnds
  <2>3. TaskInv'
    <3>1. tasks \in Seq(Desired \X TaskStates)
      BY DEF TaskInv
    <3>2. /\ tasks' \in Seq(Desired \X TaskStates) /\ DOMAIN tasks' = DOMAIN tasks
          /\ \A i \in DOMAIN tasks : i # 1 => tasks'[i] = tasks[i]
      <4> DEFINE X == Desired \X TaskStates
      <4>1. tasks \in Seq(X) /\ row \in X
        BY <3>1
      <4>2. DOMAIN tasks # {}
        BY <1>2 DEF TaskPlaced, TaskEnds, Rows
      <4> HIDE DEF X
      <4>3. 1 \in 1..Len(tasks) /\ DOMAIN tasks = 1..Len(tasks)
        BY ONLY <4>1, <4>2
      <4>4. tasks' \in Seq(X) /\ Len(tasks') = Len(tasks)
        BY ONLY <2>1, <4>1, <4>3, ExceptSeq
      <4>5. \A i \in DOMAIN tasks : i # 1 => tasks'[i] = tasks[i]
        BY ONLY <2>1, <4>1
      <4> QED BY <4>3, <4>4, <4>5 DEF X
    <3> QED BY <3>2 DEF TaskInv
  <2>4. UNCHANGED log
    BY <1>2 DEF TaskPlaced, TaskEnds
  <2>5. LogInv'
    BY <2>4 DEF LogInv
  <2> QED BY <1>0, <2>2, <2>3, <2>4, <2>5 DEF kept
<1>3. CASE LogLine
  <2>1. PICK what, n :
          /\ what = "ready" \/ Rows({"Running"}) # {}
          /\ Prints(what, n) /\ log' = log \cup {<<owner, what, n>>}
          /\ what \in {"ready", "child-failed", "all-exit", "phase1", "exit-bad", "intercmd",
                       "metric", "phase2", "model", "other-model"}
    BY <1>3 DEF LogLine
  <2>2. /\ what = "phase1" => n \in 1..PhaseOne
        /\ what = "metric" => n \in 1..expected_pipecomm_events
        /\ what = "ready" => n \in 1..(node_count + 1)
        /\ what = "model" => n \in 1..RANKS
    <3>1. what = "phase1" => n \in 1..PhaseOne
      BY <2>1 DEF Prints
    <3>2. what = "metric" => n \in 1..expected_pipecomm_events
      <4>1. what = "metric" => /\ n = 1 + Cardinality(By(owner, "metric"))
                               /\ n <= expected_pipecomm_events
        BY <2>1 DEF Prints
      <4>2. By(owner, "metric") \subseteq 1..expected_pipecomm_events
        BY DEF LogInv, By, Lines, Of
      <4>3. IsFiniteSet(1..expected_pipecomm_events)
        <5>1. 1 \in Int /\ expected_pipecomm_events \in Int
          BY SwarmAssumption
        <5> QED BY ONLY <5>1, FS_Interval, Zenon
      <4>4. Cardinality(By(owner, "metric")) \in Nat
        BY <4>2, <4>3, FS_Subset, FS_CardinalityType
      <4> QED BY <4>1, <4>4
    <3>3. what = "model" => n \in 1..RANKS
      BY <2>1 DEF Prints
    <3>4. what = "ready" => n \in 1..(node_count + 1)
      BY <2>1 DEF Prints
    <3> QED BY <3>1, <3>2, <3>3, <3>4
  <2>3. UNCHANGED tasks
    BY <1>3 DEF LogLine
  <2>4. TaskInv' /\ LogInv'
    BY <2>1, <2>2, <2>3 DEF TaskInv, LogInv
  <2>5. \A l \in log' \ log : l[1] = owner /\ l[2] = what /\ l[3] = n
    BY <2>1
  <2>6. log \subseteq log'
    BY <2>1
  <2>7. Rows({"Complete"}) # {} => what = "ready"
    BY <1>0, <2>1
  <2> QED BY <1>0, <2>2, <2>3, <2>4, <2>5, <2>6, <2>7 DEF kept
<1> QED BY <1>1, <1>2, <1>3

\* Docker's steps take nothing away from what the runner saw.
LEMMA DockerStep ==
  ASSUME SuccessInv, OwnerInv, TaskStarts \/ TaskPlaced \/ TaskEnds \/ LogLine
  PROVE  SuccessInv'
<1>0. stack = "live" /\ (kind = "scalability" => pc # "ended")
  BY DEF TaskStarts, TaskPlaced, TaskEnds, LogLine, Live
<1>1. /\ TaskInv' /\ LogInv' /\ log \subseteq log'
      /\ UNCHANGED <<kept, pc, verdict, state, read, stack>>
      /\ \A l \in log' \ log : l[1] = owner
  BY TaskStep
<1>2. Rows({"Complete"}) # {} => /\ Rows({"Complete"})' # {}
                                 /\ Lines("child-failed")' = Lines("child-failed")
  BY TaskStep DEF Rows, Lines, Of
<1>3. \A w : Lines(w) \subseteq Lines(w)' /\ Ids(w) \subseteq Ids(w)'
  BY <1>1 DEF Lines, Ids, IdsOf, Of
<1>4. /\ Ids("phase1")' \subseteq 1..PhaseOne
      /\ Ids("metric")' \subseteq 1..expected_pipecomm_events
  BY <1>1 DEF LogInv, Ids, IdsOf, Of
<1>5. NameInv'
  <2>1. stack' # "absent" /\ dir \in used /\ pc # "idle"
    BY <1>0, <1>1 DEF SuccessInv, NameInv
  <2>2. kind = "scalability" /\ pc \notin {"idle", "ended"} => AllOwn' /\ pc' # "ended"
    <3> SUFFICES ASSUME kind = "scalability", pc \notin {"idle", "ended"} PROVE AllOwn'
      BY <1>1
    <3>1. AllOwn
      BY DEF SuccessInv, NameInv
    <3>2. owner = sample
      BY <1>0 DEF OwnerInv, Undeployed
    <3> QED BY <1>1, <3>1, <3>2 DEF AllOwn, kept
  <2> QED BY <1>0, <1>1, <2>1, <2>2 DEF SuccessInv, NameInv, kept
<1>6. SeenInv'
  BY <1>1, <1>2, <1>3, <1>4 DEF SuccessInv, SeenInv, kept
<1>7. AllOwn' /\ Ids("model") = 1..RANKS => Ids("model")' = 1..RANKS
  <2> SUFFICES ASSUME AllOwn', Ids("model") = 1..RANKS PROVE Ids("model")' = 1..RANKS
    OBVIOUS
  <2>1. \A l \in log' \ log : l[2] = "model" => l[3] \in 1..RANKS
    BY TaskStep
  <2> QED BY <1>3, <2>1 DEF Ids, IdsOf, Of
<1>8. AllOwn' => AllOwn
  BY <1>1 DEF AllOwn, kept
<1>9. OkInv'
  <2> SUFFICES ASSUME verdict' = "ok" PROVE OkInv'
    BY DEF OkInv
  <2> QED BY <1>1, <1>2, <1>3, <1>4, <1>7, <1>8 DEF SuccessInv, OkInv, kept
<1> QED BY <1>1, <1>5, <1>6, <1>9 DEF SuccessInv

\* A new name, or the old one with all that is left of it.
LEMMA StartStep ==
  ASSUME SuccessInv, Start
  PROVE  /\ SuccessInv'
         /\ kind' = "scalability" /\ pc' # "ended" => stack' = "absent"
<1>1. /\ UNCHANGED <<kind, natural>> /\ started' = FALSE /\ commanded' = FALSE /\ read' = {}
      /\ (tasks' = tasks /\ log' = log) \/ (tasks' = << >> /\ log' = {})
      /\ verdict' \in {"none", "aborted"} /\ pc' \in {"ended", "generate", "settle-rm"}
  BY DEF Start, NewName, End, Goto, swarm
<1>2. TaskInv' /\ LogInv'
  <2>1. CASE tasks' = tasks /\ log' = log
    BY <2>1 DEF SuccessInv, TaskInv, LogInv
  <2>2. CASE tasks' = << >> /\ log' = {}
    BY <2>2 DEF TaskInv, LogInv
  <2> QED BY <1>1, <2>1, <2>2
<1>6. OkInv' /\ SeenInv'
  BY <1>1 DEF SuccessInv, OkInv, SeenInv
<1>3. dir' \in used'
  BY DEF Start, SuccessInv, NameInv, End, Goto
<1>4. kind = "scalability" /\ pc' # "ended" => log' = {} /\ stack' = "absent"
  <2>1. SUFFICES ASSUME kind = "scalability", pc' # "ended" PROVE log' = {} /\ stack' = "absent"
    OBVIOUS
  <2>2. dir' \notin used /\ IF Name(dir') = stack_name THEN UNCHANGED swarm ELSE NewName
    BY <2>1 DEF Start, End, Goto
  <2>3. CASE dir' = dir
    BY <2>2, <2>3 DEF SuccessInv, NameInv, Name, stack_name, swarm
  <2>4. CASE dir' # dir
    BY <2>1, <2>2, <2>4 DEF Name, stack_name, NewName
  <2> QED BY <2>3, <2>4
<1>5. NameInv'
  BY <1>1, <1>3, <1>4 DEF NameInv, AllOwn
<1> QED BY <1>1, <1>2, <1>4, <1>5, <1>6 DEF SuccessInv

\* A deployment changes no log.
LEMMA DeployStep ==
  ASSUME SuccessInv, Deploy \/ DeployFails
  PROVE  SuccessInv'
<1>1. /\ UNCHANGED <<kept, log, read>> /\ tasks' \in {tasks, << >>} /\ pc = "deploy"
      /\ pc' \notin {"idle", "decide", "judge"} /\ verdict' \in {verdict, "deployment-error"}
  BY DEF Deploy, DeployFails, Goto, kept, run, seen, noted, swarm
<1>2. verdict # "ok"
  BY <1>1 DEF SuccessInv, OkInv
<1>3. TaskInv' /\ LogInv' /\ OkInv'
  <2>1. TaskInv'
    <3>1. CASE tasks' = tasks
      BY <3>1 DEF SuccessInv, TaskInv
    <3>2. CASE tasks' = << >>
      BY <3>2 DEF TaskInv
    <3> QED BY <1>1, <3>1, <3>2
  <2> QED BY <1>1, <1>2, <2>1 DEF SuccessInv, LogInv, OkInv
<1>4. NameInv' /\ SeenInv'
  BY <1>1, <1>2 DEF SuccessInv, NameInv, SeenInv, AllOwn, Ids, IdsOf, Lines, Of, kept
<1> QED BY <1>3, <1>4 DEF SuccessInv

\* A poll changes neither the Swarm nor the sample.
LEMMA PollKeeps ==
  ASSUME SuccessInv, UNCHANGED <<kind, natural, sample, dir, used, tasks, log>>,
         pc \in {"poll", "decide", "judge"}, pc' # "idle"
  PROVE  /\ TaskInv' /\ LogInv' /\ NameInv'
         /\ \A w : Lines(w)' = Lines(w) /\ Ids(w)' = Ids(w)
         /\ \A s : Rows(s)' = Rows(s)
         /\ AllOwn' <=> AllOwn
  BY DEF SuccessInv, TaskInv, LogInv, NameInv, AllOwn, Lines, Ids, IdsOf, Of, Rows

LEMMA StateOfComplete == coordinator_state = "Complete" => Rows({"Complete"}) # {}
<1> SUFFICES ASSUME Rows({"Complete"}) = {} PROVE coordinator_state # "Complete"
  OBVIOUS
<1> DEFINE preference == <<"Complete", "Running", "Failed", "Rejected">>
           found == {i \in DOMAIN preference : Rows({preference[i]}) # {}}
<1>1. found \subseteq 2..4
  OBVIOUS
<1>2. found # {} => Smallest(found) \in found
  <2>1. found \subseteq Nat
    BY <1>1
  <2> HIDE DEF found
  <2> QED BY <2>1, SmallestIn
<1>3. \A i \in 2..4 : preference[i] # "Complete"
  OBVIOUS
<1>4. found # {} => preference[Smallest(found)] # "Complete"
  BY <1>1, <1>2, <1>3
<1> HIDE DEF found
<1> QED BY <1>4, Zenon DEF coordinator_state, found

LEMMA LocalPoll ==
  ASSUME SuccessInv, PollState \/ Decide
  PROVE  SuccessInv'
<1>1. /\ UNCHANGED <<kept, tasks, log, read>> /\ pc \in {"poll", "decide"}
      /\ pc' \notin {"idle", "judge"}
      /\ pc' = "decide" => PollState
      /\ Decide => pc = "decide" /\ (verdict' = "ok" => pc' = "collect")
      /\ PollState => verdict' = verdict /\ kind \in LocalRunners /\ state' = coordinator_state
  BY DEF PollState, Decide, Goto, kept, run, noted, swarm
<1>2. /\ TaskInv' /\ LogInv' /\ NameInv'
      /\ \A w : Lines(w)' = Lines(w) /\ Ids(w)' = Ids(w)
      /\ \A s : Rows(s)' = Rows(s)
      /\ AllOwn' <=> AllOwn
  BY <1>1, PollKeeps DEF kept
<1>3. SeenInv'
  BY <1>1, <1>2, StateOfComplete DEF SuccessInv, SeenInv, kept
<1>4. verdict # "ok"
  BY <1>1 DEF SuccessInv, OkInv
<1>5. Decide /\ verdict' = "ok" => /\ state = "Complete" /\ kind \in LocalRunners
                                   /\ Lines("child-failed") = {}
                                   /\ kind = "imported" => Lines("all-exit") # {}
  <2> SUFFICES ASSUME Decide, verdict' = "ok"
               PROVE  /\ state = "Complete" /\ kind \in LocalRunners
                      /\ Lines("child-failed") = {}
                      /\ kind = "imported" => Lines("all-exit") # {}
    OBVIOUS
  <2>1. kind \in LocalRunners
    BY DEF Decide, SuccessInv, SeenInv
  <2>2. DecideReal = "ok" => state = "Complete" /\ ~native_failures
    BY Zenon DEF DecideReal
  <2>3. DecideImported = "ok" =>
          state = "Complete" /\ ~native_failures /\ Lines("all-exit") # {}
    BY Zenon DEF DecideImported
  <2> QED BY <2>1, <2>2, <2>3 DEF Decide, native_failures
<1>6. OkInv'
  BY <1>1, <1>2, <1>4, <1>5 DEF SuccessInv, OkInv, SeenInv, LocalRunners, kept
<1> QED BY <1>2, <1>3, <1>6 DEF SuccessInv

LEMMA PhaseOneSeen ==
  ASSUME LogInv, NEW lines, lines \subseteq log, phase_one_count(lines) >= PhaseOne
  PROVE  Ids("phase1") = 1..PhaseOne
<1>1. Ids("phase1") \subseteq 1..PhaseOne /\ IdsOf(lines, "phase1") \subseteq Ids("phase1")
  BY DEF LogInv, Ids, IdsOf, Of
<1>2. IdsOf(lines, "phase1") = 1..PhaseOne
  BY <1>1, FullSet DEF phase_one_count
<1> QED BY <1>1, <1>2

LEMMA FunctionalPoll ==
  ASSUME SuccessInv, PollFunctional
  PROVE  SuccessInv'
<1>1. /\ UNCHANGED <<kind, natural, sample, dir, used, tasks, log>>
      /\ pc = "poll" /\ pc' \in {"poll", "collect"} /\ kind = "functional"
      /\ verdict' = "ok" => verdict = "ok" \/ (pc' = "collect" /\ started' /\ commanded')
      /\ started' => started \/ phase_one_count(log) >= PhaseOne
      /\ commanded' => commanded \/ Lines("intercmd") # {}
      /\ read' = read
  BY DEF PollFunctional, Goto, run, swarm
<1>2. /\ TaskInv' /\ LogInv' /\ NameInv'
      /\ \A w : Lines(w)' = Lines(w) /\ Ids(w)' = Ids(w)
  BY <1>1, PollKeeps
<1>3. SeenInv'
  BY <1>1, <1>2, PhaseOneSeen DEF SuccessInv, SeenInv
<1>4. OkInv'
  BY <1>1 DEF SuccessInv, OkInv, LocalRunners
<1> QED BY <1>2, <1>3, <1>4 DEF SuccessInv

LEMMA TerminalComplete ==
  ASSUME TaskInv, coordinator_terminal_state = "complete"
  PROVE  Rows({"Complete"}) # {}
<1> DEFINE over == {i \in DOMAIN tasks : ~aged /\ tasks[i][1] = "Running"
                                           /\ tasks[i][2] \in {"Complete", "Failed", "Rejected"}}
<1>1. over # {} /\ tasks[Smallest(over)][2] = "Complete"
  BY Zenon DEF coordinator_terminal_state
<1>2. over \subseteq Nat
  BY DEF TaskInv
<1>3. Smallest(over) \in over
  BY <1>1, <1>2, SmallestIn
<1>4. Smallest(over) \in DOMAIN tasks
  BY <1>3
<1> QED BY <1>1, <1>4, RowsOf DEF TaskStates

LEMMA LogsRead ==
  ASSUME SuccessInv, ReadLogs
  PROVE  SuccessInv'
<1>1. /\ UNCHANGED <<kept, tasks, log, verdict>> /\ read' = log
      /\ pc = "poll" /\ pc' = "judge" /\ kind = "scalability"
  BY DEF ReadLogs, Goto, kept, run, swarm
<1>2. /\ TaskInv' /\ LogInv' /\ NameInv'
      /\ \A w : Lines(w)' = Lines(w) /\ Ids(w)' = Ids(w)
  BY <1>1, PollKeeps DEF kept
<1>3. SeenInv' /\ OkInv'
  BY <1>1, <1>2 DEF SuccessInv, SeenInv, OkInv, kept
<1> QED BY <1>2, <1>3 DEF SuccessInv

LEMMA ScalabilityPoll ==
  ASSUME SuccessInv, PollScalability
  PROVE  SuccessInv'
<1>1. /\ UNCHANGED <<kind, natural, sample, dir, used, commanded, tasks, log>> /\ read' = {}
      /\ pc = "judge" /\ pc' \in {"poll", "collect"}
      /\ verdict' = "ok" => pc' = "collect"
      /\ started' => started \/ phase_one_count(read) >= PhaseOne
  BY DEF PollScalability, Goto, run, swarm
<1>2. /\ TaskInv' /\ LogInv' /\ NameInv'
      /\ \A w : Lines(w)' = Lines(w) /\ Ids(w)' = Ids(w)
      /\ \A s : Rows(s)' = Rows(s)
  BY <1>1, PollKeeps
<1>0. kind = "scalability" /\ read \subseteq log /\ LogInv /\ AllOwn
  BY <1>1 DEF SuccessInv, SeenInv, NameInv
<1>3. SeenInv'
  BY <1>0, <1>1, <1>2, PhaseOneSeen DEF SuccessInv, SeenInv
<1>4. verdict' = "ok" /\ natural =>
        coordinator_terminal_state = "complete" /\ phase_one_count(read) >= PhaseOne
          /\ Lines("phase2") # {}
  <2>1. verdict' = "ok" /\ natural => DecideNatural = "ok"
    BY Zenon DEF PollScalability
  <2>2. DecideNatural = "ok" =>
          coordinator_terminal_state = "complete" /\ phase_one_count(read) >= PhaseOne
            /\ Of(read, "phase2") # {}
    BY Zenon DEF DecideNatural
  <2> QED BY <1>0, <2>1, <2>2 DEF Lines, Of
<1>5. verdict' = "ok" /\ ~natural =>
        started' /\ Cardinality(Of(read, "metric")) >= expected_pipecomm_events
  <2>1. verdict' = "ok" /\ ~natural => DecideEpoch = "ok"
    BY Zenon DEF PollScalability
  <2> QED BY <2>1 DEF DecideEpoch
<1>7. verdict' = "ok" => Ids("phase1") = 1..PhaseOne
  BY <1>0, <1>2, <1>3, <1>4, <1>5, PhaseOneSeen DEF SeenInv
<1>8. verdict' = "ok" /\ natural => Rows({"Complete"}) # {}
  BY <1>4, TerminalComplete DEF SuccessInv
<1>9. verdict' = "ok" /\ ~natural => Ids("metric") = 1..expected_pipecomm_events
  <2> SUFFICES ASSUME Cardinality(Of(read, "metric")) >= expected_pipecomm_events
               PROVE  Ids("metric") = 1..expected_pipecomm_events
    BY <1>5
  <2>1. PICK T : T = Of(read, "metric")
    OBVIOUS
  <2>2. \A l \in T : /\ l = <<sample, "metric", l[3]>>
                    /\ l[3] \in 1..expected_pipecomm_events
    BY <1>0, <2>1 DEF LogInv, AllOwn, Of
  <2>3. {l[3] : l \in T} = 1..expected_pipecomm_events
    BY <2>1, <2>2, FullLines
  <2>4. Ids("metric") \subseteq 1..expected_pipecomm_events
    BY <1>0 DEF LogInv, Ids, IdsOf, Of
  <2>5. {l[3] : l \in T} \subseteq Ids("metric")
    BY <1>0, <2>1 DEF Ids, IdsOf, Of
  <2> QED BY <2>3, <2>4, <2>5
<1>10. OkInv'
  BY <1>0, <1>1, <1>2, <1>4, <1>7, <1>8, <1>9 DEF OkInv, LocalRunners
<1> QED BY <1>2, <1>3, <1>10 DEF SuccessInv

LEMMA MlpDpPoll ==
  ASSUME SuccessInv, PollMlpDp
  PROVE  SuccessInv'
<1>1. /\ UNCHANGED <<kept, tasks, log, read>> /\ pc = "poll" /\ pc' = "collect"
      /\ kind = "mlpdp" /\ models_from_logs /\ verdict' = assert_equivalent
  BY DEF PollMlpDp, Goto, kept, run, noted, swarm
<1>2. /\ TaskInv' /\ LogInv' /\ NameInv'
      /\ \A w : Lines(w)' = Lines(w) /\ Ids(w)' = Ids(w)
  BY <1>1, PollKeeps DEF kept
<1>3. SeenInv'
  BY <1>1, <1>2 DEF SuccessInv, SeenInv, kept
<1>4. assert_equivalent = "ok" => Ids("other-model") = {}
  BY Zenon DEF assert_equivalent
<1>5. OkInv'
  BY <1>1, <1>2, <1>4 DEF OkInv, models_from_logs, LocalRunners, kept
<1> QED BY <1>2, <1>3, <1>5 DEF SuccessInv

LEMMA SuccessStep == SuccessInv /\ OwnerInv /\ [Next]_vars => SuccessInv'
<1> SUFFICES ASSUME SuccessInv, OwnerInv, [Next]_vars PROVE SuccessInv'
  OBVIOUS
<1>0. verdict = "ok" => pc \in Judging
  BY DEF SuccessInv, OkInv, Judging
<1>1. CASE \/ Generate \/ IncompleteSource \/ SettleTimeout \/ RemovalTimeout \/ Killed
           \/ Deadline
  <2>1. UNCHANGED <<kept, tasks, log, read>> /\ pc \notin {"idle", "ended"}
    BY <1>1 DEF Generate, IncompleteSource, SettleTimeout, RemovalTimeout, Killed, Deadline,
       kept, run, noted, swarm
  <2>2. /\ pc' \notin {"idle", "decide", "judge"}
        /\ (verdict' = verdict /\ pc = "generate") \/ verdict' # "ok"
    BY <1>1 DEF Generate, IncompleteSource, SettleTimeout, RemovalTimeout, Killed, Deadline,
       End, Goto
  <2>3. pc = "generate" => verdict # "ok"
    BY <1>0 DEF Judging
  <2> QED BY <2>1, <2>2, <2>3, QuietStep
<1>2. CASE SettleRemove \/ Settled \/ Prewarmed \/ Scale \/ Collect \/ RemoveStack \/ Removed
  <2>1. UNCHANGED <<kept, tasks, log, read, verdict>> /\ pc \notin {"idle", "ended"}
    BY <1>2 DEF SettleRemove, Settled, Prewarmed, Scale, Collect, RemoveStack, Removed, kept,
       run, seen, noted, swarm
  <2>2. pc' \notin {"idle", "decide", "judge"} /\ (pc \in Judging => pc' \in Judging)
    BY <1>2 DEF SettleRemove, Settled, Prewarmed, Scale, Collect, RemoveStack, Removed, Goto,
       Judging
  <2> QED BY <1>0, <2>1, <2>2, QuietStep
<1>3. CASE CommandFails
  <2>1. UNCHANGED <<kept, tasks, log>> /\ read' = {} /\ pc \notin {"idle", "ended"}
    BY <1>3 DEF CommandFails, kept, run, swarm
  <2>2. pc' \in {"collect", "remove", "ended"} /\ verdict' \in {"aborted", "not-removed", "error"}
    BY <1>3, Zenon DEF CommandFails, Goto
  <2> QED BY <2>1, <2>2, QuietStep
<1>4. CASE StackGone \/ NetworkGone \/ UNCHANGED vars
  <2>1. UNCHANGED <<kept, tasks, log, pc, verdict, state, read>> /\ stack' \in {stack, "absent"}
    BY <1>4 DEF StackGone, NetworkGone, kept, run, seen, noted, swarm, vars
  <2> QED BY <2>1 DEF SuccessInv, TaskInv, LogInv, NameInv, SeenInv, OkInv, AllOwn, Ids, IdsOf,
     Lines, Of, Rows, kept
<1> QED
  BY <1>1, <1>2, <1>3, <1>4, StartStep, DeployStep, LocalPoll, FunctionalPoll, LogsRead,
     ScalabilityPoll, MlpDpPoll, DockerStep
  DEF Next, Runner, Timeouts, Faults, Docker

LEMMA OwnerStep == SuccessInv /\ OwnerInv /\ [Next]_vars => OwnerInv'
<1> SUFFICES ASSUME SuccessInv, OwnerInv, [Next]_vars PROVE OwnerInv'
  OBVIOUS
<1>0. verdict = "ok" => pc \in Judging
  BY DEF SuccessInv, OkInv, Judging
<1>1. CASE Start
  <2>1. /\ kind' = "scalability" /\ pc' # "ended" => stack' = "absent"
        /\ verdict' # "ok" /\ pc' \in {"ended", "generate", "settle-rm"}
    BY <1>1, StartStep DEF Start, End, Goto
  <2> QED BY <2>1 DEF OwnerInv, Undeployed, Watching
<1>2. CASE Generate \/ IncompleteSource \/ SettleTimeout \/ RemovalTimeout \/ Killed
  <2>1. /\ UNCHANGED <<kind, stack>>
        /\ pc' = "ended" \/ (pc' = "settle" /\ pc = "generate")
        /\ verdict' # "ok" \/ (verdict' = verdict /\ pc = "generate")
    BY <1>2 DEF Generate, IncompleteSource, SettleTimeout, RemovalTimeout, Killed, End, Goto, run,
       swarm
  <2> QED BY <1>0, <2>1 DEF OwnerInv, Undeployed, Watching, Judging
<1>3. CASE SettleRemove \/ Settled
  <2>1. /\ UNCHANGED <<kind, sample, owner, verdict>> /\ verdict # "ok"
        /\ stack = "absent" => stack' = "absent"
        /\ (pc = "settle-rm" /\ pc' = "settle") \/ (pc = "settle" /\ pc' = "deploy")
    BY <1>0, <1>3 DEF SettleRemove, Settled, Remove, Goto, Judging, run, seen, swarm
  <2>2. kind \in LocalRunners /\ pc' = "deploy" => stack' = "absent"
    BY <1>3, <2>1 DEF SettleRemove, Settled, Gone, Unanswered, Goto, swarm
  <2> QED BY <2>1, <2>2 DEF OwnerInv, Undeployed, Watching, Fresh
<1>4. CASE Deploy \/ DeployFails
  <2>1. /\ UNCHANGED <<kind, sample>> /\ pc = "deploy" /\ verdict # "ok"
        /\ verdict' \in {verdict, "deployment-error"}
        /\ pc' \in {"poll", "prewarm"} /\ stack = "absent" => owner' = sample
        /\ pc' \in {"poll", "prewarm", "collect", "ended"}
        /\ pc' = "collect" => kind \in LocalRunners
    BY <1>0, <1>4 DEF Deploy, DeployFails, Goto, Judging, run, seen
  <2> QED BY <2>1 DEF OwnerInv, Undeployed, Watching, Fresh, LocalRunners
<1>5. CASE \/ PollState \/ Decide \/ PollFunctional \/ Prewarmed \/ Scale \/ ReadLogs
           \/ PollScalability \/ PollMlpDp \/ Deadline
  <2>1. UNCHANGED <<kind, sample, owner>> /\ pc \in Watching
    BY <1>5 DEF PollState, Decide, PollFunctional, Prewarmed, Scale, ReadLogs, PollScalability,
       PollMlpDp, Deadline, Watching, run, swarm
  <2>2. pc' \in Watching \cup {"collect", "remove"}
    BY <1>5 DEF PollState, Decide, PollFunctional, Prewarmed, Scale, ReadLogs, PollScalability,
       PollMlpDp, Deadline, Watching, Goto
  <2> QED BY <2>1, <2>2 DEF OwnerInv, Undeployed, Watching, Fresh
<1>6. CASE CommandFails
  <2>1. UNCHANGED <<kind, sample, owner>>
    BY <1>6 DEF CommandFails, run, swarm
  <2>2. /\ verdict' \in {"aborted", "not-removed", "error"}
        /\ pc' = "ended" \/ (pc' \in {"collect", "remove"} /\ kind \in LocalRunners \cup {"mlpdp"})
    BY <1>6, Zenon DEF CommandFails, Goto
  <2> QED BY <2>1, <2>2 DEF OwnerInv, Undeployed, Watching, LocalRunners
<1>7. CASE Collect \/ RemoveStack \/ Removed
  <2>1. /\ UNCHANGED <<kind, sample, owner, verdict>> /\ pc \in {"collect", "remove", "removal"}
        /\ pc' \in {"remove", "removal", "ended"}
    BY <1>7 DEF Collect, RemoveStack, Removed, Goto, run, seen, swarm
  <2> QED BY <2>1 DEF OwnerInv, Undeployed, Watching
<1>8. CASE Docker \/ UNCHANGED vars
  <2>1. UNCHANGED <<kind, sample, owner, verdict, pc>> /\ stack' \in {stack, "absent"}
    BY <1>8 DEF Docker, TaskStarts, TaskPlaced, TaskEnds, LogLine, StackGone, NetworkGone, run,
       seen, swarm, vars
  <2> QED BY <2>1 DEF OwnerInv
<1> QED
  BY <1>1, <1>2, <1>3, <1>4, <1>5, <1>6, <1>7, <1>8 DEF Next, Runner, Timeouts, Faults

LEMMA SuccessInvHolds == Spec => [](SuccessInv /\ OwnerInv)
  BY SuccessInit, OwnerInit, SuccessStep, OwnerStep, PTL DEF Spec

\* A success is reported only for what this very sample did: run_one and
\* deploy_sample look at tasks that they have started themselves, whoever was
\* killed before, and deploy_sample at lines of a name that is new; what the
\* others take from the log is theirs if the name has no history.
THEOREM SuccessEarned == Spec => []SuccessIsEarned
<1>2. SuccessInv /\ OwnerInv => SuccessIsEarned
  <2> SUFFICES ASSUME SuccessInv, OwnerInv, pc = "ended", verdict = "ok" PROVE Earned
    BY DEF SuccessIsEarned
  <2>1. AllOwn => \A w \in {"phase1", "intercmd", "phase2", "metric", "model", "all-exit"} :
                    /\ Own(w) = Ids(w)
                    /\ Lines(w) # {} => Own(w) # {}
    BY DEF AllOwn, Own, By, Ids, IdsOf, Lines, Of
  <2>2. Lines("child-failed") = {} => Own("child-failed") = {}
    BY DEF Own, By
  <2>3. CASE kind \in LocalRunners
    <3>1. /\ owner = sample /\ Rows({"Complete"}) # {} /\ Own("child-failed") = {}
          /\ kind = "imported" => (AllOwn => Own("all-exit") # {})
      BY <2>1, <2>2, <2>3 DEF SuccessInv, OkInv, OwnerInv, Fresh
    <3>2. CASE kind = "real"
      BY <3>1, <3>2, Zenon DEF Earned
    <3>3. CASE kind = "imported"
      BY <3>1, <3>3, Zenon DEF Earned
    <3> QED BY <2>3, <3>2, <3>3 DEF LocalRunners
  <2>4. CASE kind = "functional"
    <3>1. AllOwn => Own("phase1") = 1..PhaseOne /\ Own("intercmd") # {}
      BY <2>1, <2>4 DEF SuccessInv, OkInv, SeenInv
    <3> QED BY <2>4, <3>1, Zenon DEF Earned
  <2>5. CASE kind = "scalability"
    <3>1. AllOwn /\ owner = sample
      BY <2>5 DEF SuccessInv, NameInv, OwnerInv, Fresh
    <3>2. /\ Own("phase1") = 1..PhaseOne
          /\ natural => Rows({"Complete"}) # {} /\ Own("phase2") # {}
          /\ ~natural => Own("metric") = 1..expected_pipecomm_events
      BY <2>1, <2>5, <3>1 DEF SuccessInv, OkInv
    <3>3. Cardinality(1..expected_pipecomm_events) = expected_pipecomm_events
      BY FS_Interval
    <3> QED BY <2>5, <3>1, <3>2, <3>3, Zenon DEF Earned
  <2>6. CASE kind = "mlpdp"
    <3>1. AllOwn => Own("model") = 1..RANKS
      BY <2>1, <2>6 DEF SuccessInv, OkInv
    <3> QED BY <2>6, <3>1, Zenon DEF Earned
  <2> QED BY <2>3, <2>4, <2>5, <2>6 DEF SuccessInv, SeenInv, OkInv
<1> QED BY <1>2, SuccessInvHolds, PTL

(***************************************************************************)
(* The coordinator of a prewarmed sample.                                  *)
(***************************************************************************)
Awaited == Workers \subseteq By(owner, "ready") \/ Restarted
ReadyInv == kind = "scalability" /\ (scaled \/ pc = "scale") => Awaited

\* node_count lines of numbers up to node_count + 1.
LEMMA AllReady ==
  ASSUME SuccessInv, OwnerInv, kind = "scalability", pc = "prewarm",
         Cardinality(Lines("ready")) >= node_count
  PROVE  Awaited
<1> SUFFICES ASSUME ~Restarted PROVE Workers \subseteq By(owner, "ready")
  BY DEF Awaited
<1>1. AllOwn /\ LogInv /\ owner = sample
  BY DEF SuccessInv, NameInv, OwnerInv, Undeployed
<1>2. PICK T : T = Lines("ready")
  OBVIOUS
<1>3. By(owner, "ready") = {l[3] : l \in T}
  BY <1>1, <1>2 DEF By, AllOwn, Lines, Of
<1>4. \A l \in T : l = <<sample, "ready", l[3]>> /\ l[3] \in 1..node_count
  <2>1. \A l \in T : l = <<sample, "ready", l[3]>>
    BY <1>1, <1>2 DEF LogInv, AllOwn, Lines, Of
  <2>2. \A l \in T : l[3] \in 1..node_count
    BY <1>3 DEF Restarted, Workers
  <2> QED BY <2>1, <2>2
<1>5. {l[3] : l \in T} = 1..node_count
  BY <1>2, <1>4, FullLines
<1> QED BY <1>3, <1>5 DEF Workers

LEMMA ReadyStep == SuccessInv /\ OwnerInv /\ ReadyInv /\ [Next]_vars => ReadyInv'
<1> SUFFICES ASSUME SuccessInv, OwnerInv, ReadyInv, [Next]_vars,
                    kind' = "scalability", scaled' \/ pc' = "scale"
             PROVE  Awaited'
  BY DEF ReadyInv
<1>1. owner' = owner /\ log \subseteq log' /\ Awaited => Awaited'
  <2> SUFFICES ASSUME owner' = owner, log \subseteq log', Awaited PROVE Awaited'
    OBVIOUS
  <2>1. By(owner, "ready") \subseteq By(owner, "ready")'
    BY DEF By, Lines, Of
  <2>2. Workers' = Workers
    BY DEF Workers
  <2> QED BY <2>1, <2>2 DEF Awaited, Restarted
<1>2. CASE Start
  <2>1. UNCHANGED <<kind, swarm>> /\ pc' # "scale"
    BY <1>2 DEF Start, End, Goto, NewName
  <2> QED BY <1>1, <2>1 DEF ReadyInv, swarm
<1>3. CASE Deploy \/ DeployFails
  <2>1. UNCHANGED <<kind, swarm>> /\ pc' # "scale"
    BY <1>3 DEF Deploy, DeployFails, Goto, WithCoordinator, run
  <2> QED BY <1>1, <2>1 DEF ReadyInv, swarm
<1>4. CASE Prewarmed
  BY <1>1, <1>4, AllReady DEF Prewarmed, run, swarm
<1>5. CASE Docker
  <2>1. UNCHANGED <<kind, pc, owner, scaled>> /\ log \subseteq log'
    BY <1>5 DEF Docker, TaskStarts, TaskPlaced, TaskEnds, LogLine, StackGone, NetworkGone, run
  <2> QED BY <1>1, <2>1 DEF ReadyInv
<1>6. CASE \/ Generate \/ SettleRemove \/ Settled \/ PollState \/ Decide \/ PollFunctional
           \/ Scale \/ ReadLogs \/ PollScalability \/ PollMlpDp \/ Collect \/ RemoveStack
           \/ Removed
  <2>1. UNCHANGED <<kind, owner, log>> /\ (scaled' => scaled \/ pc = "scale") /\ pc' # "scale"
    BY <1>6 DEF Generate, SettleRemove, Settled, PollState, Decide, PollFunctional, Scale,
       ReadLogs, PollScalability, PollMlpDp, Collect, RemoveStack, Removed, End, Goto, run, swarm
  <2> QED BY <1>1, <2>1 DEF ReadyInv
<1>7. CASE Timeouts \/ IncompleteSource \/ CommandFails \/ Killed \/ UNCHANGED vars
  <2>1. UNCHANGED <<kind, swarm>>
    BY <1>7 DEF Timeouts, SettleTimeout, Deadline, RemovalTimeout, IncompleteSource, CommandFails,
       Killed, run, vars
  <2>2. pc' = "scale" => pc = "scale"
    BY <1>7 DEF Timeouts, SettleTimeout, Deadline, RemovalTimeout, IncompleteSource, CommandFails,
       Killed, End, Goto, vars
  <2> QED BY <1>1, <2>1, <2>2 DEF ReadyInv, swarm
<1> QED
  BY <1>2, <1>3, <1>4, <1>5, <1>6, <1>7 DEF Next, Runner, Faults

\* deploy_sample gives the coordinator a replica only when every worker of
\* this sample has printed that it is ready, or a transport was restarted and
\* its second line was counted; no line of an earlier sample counts.
THEOREM CoordinatorWaits == Spec => []WorkersAwaited
<1>1. Init => ReadyInv
  BY DEF Init, ReadyInv
<1>2. ReadyInv => WorkersAwaited
  BY DEF ReadyInv, WorkersAwaited, Awaited
<1> QED BY <1>1, <1>2, ReadyStep, SuccessInvHolds, PTL DEF Spec
=============================================================================
