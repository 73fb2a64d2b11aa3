----------------------- MODULE WorkerProtocol_proofs -----------------------
(***************************************************************************)
(* What the worker and its proxies promise, for any number of simulators   *)
(* and of output chunks: no simulator starts while the shared asset is     *)
(* being copied, no two simulators share a work directory, and a proxy     *)
(* that returns its simulator's exit code has shown all of its output.     *)
(***************************************************************************)
EXTENDS WorkerProtocol, FiniteSetTheorems, SequenceTheorems, WellFoundedInduction, TLAPS

-----------------------------------------------------------------------------
(* A connection is made once.                                              *)

HandlerStates ==
  {"none", "accepted", "asset", "copying", "launch", "running", "drain", "gather",
   "closed"}
ProxyStates == {"connecting", "waiting", "running", "done"}

\* There is no coroutine for a proxy that has not connected.
HandInv ==
  /\ handler \in [Procs -> HandlerStates]
  /\ proxy \in [Procs -> ProxyStates]
  /\ \A p \in Procs : proxy[p] = "connecting" => handler[p] = "none"

LEMMA HandInit == Init => HandInv
  BY DEF Init, HandInv, HandlerStates, ProxyStates

LEMMA HandStep == HandInv /\ [Next]_vars => HandInv'
<1> SUFFICES ASSUME HandInv, [Next]_vars PROVE HandInv'
  OBVIOUS
<1> USE DEF HandInv, HandlerStates, ProxyStates
<1>1. CASE UNCHANGED vars
  BY <1>1 DEF vars
<1>2. CASE Listen \/ WorkerDies
  BY <1>2 DEF Listen, WorkerDies
<1>3. ASSUME NEW p \in Procs,
             \/ ProxyStep(p) \/ ProxyStdin(p) \/ ProxyDies(p)
      PROVE  HandInv'
  BY <1>3 DEF ProxyStep, Connect, ConnectTimeout, ProxyRead, ProxyEof, ProxyStdin, ProxyDies,
     ProxyEnds
<1>4. ASSUME NEW p \in Procs,
             \/ MakeWorkdir(p) \/ AssetPresent(p) \/ AssetCopy(p)
             \/ AssetCopied(p) \/ AssetFailed(p) \/ Launch(p) \/ LaunchCutOff(p)
             \/ RejectSpawn(p) \/ SetupFailed(p)
      PROVE  HandInv'
  BY <1>4 DEF MakeWorkdir, AssetPresent, AssetCopy, AssetCopied, AssetFailed, Launch,
     LaunchCutOff, RejectSpawn, SetupFailed, Refuse
<1>5. ASSUME NEW p \in Procs,
             \/ Reap(p) \/ LoopExit(p) \/ LoopStdin(p) \/ Drained(p) \/ LoopStdinBroken(p)
             \/ LoopEof(p) \/ SendExit(p) \/ ChildExit(p) \/ ChildTerminated(p)
             \/ (\E s \in Streams : ForwardStream(p, s))
             \/ (\E s \in Outputs : ChildWrite(p, s))
      PROVE  HandInv'
  BY <1>5 DEF Reap, LoopExit, LoopStdin, Drained, LoopStdinBroken, LoopEof, SendExit, ChildExit,
     ChildTerminated, ChildEnds, ForwardStream, ChildWrite, Refuse
<1> QED BY <1>1, <1>2, <1>3, <1>4, <1>5 DEF Next, HandlerStep

-----------------------------------------------------------------------------
(* The shared asset.                                                       *)

\* A coroutine that copies holds the lock, an asset that is being copied has
\* its coroutine unless the worker is gone, and a worker that is gone serves
\* no one: its half copy is never looked at.  What a failed cp has left has
\* a refused spawn.
BeforeChild == {"none", "accepted", "asset", "copying", "launch"}
AssetStates == {"absent", "copying", "partial", "complete"}
AssetInv ==
  /\ handler \in [Procs -> HandlerStates]
  /\ child \in [Procs -> {"none", "running", "exited", "reaped"}]
  /\ started \in [Procs -> AssetStates]
  /\ asset \in AssetStates
  /\ \A p \in Procs : handler[p] = "copying" => lock = p /\ asset = "copying"
  /\ \A p \in Procs : handler[p] = "launch" => asset \in {"partial", "complete"}
  /\ \A p \in Procs : handler[p] \in BeforeChild => child[p] = "none"
  /\ asset = "copying" =>
       workerUp = "dead" \/ \E p \in Procs : handler[p] = "copying"
  /\ asset = "partial" =>
       \E q \in Procs : handler[q] = "closed" /\ child[q] = "none"
  /\ workerUp = "dead" => \A p \in Procs : handler[p] \in {"none", "closed"}
  /\ AssetSettled

LEMMA AssetInit == Init => AssetInv
  BY DEF Init, AssetInv, AssetSettled, AssetStates, HandlerStates

\* Steps that leave the asset, the lock and the worker alone, start no
\* simulator, and move a handler only forwards past the launch or to its end.
QuietFor(p) ==
  /\ UNCHANGED <<asset, lock, workerUp, started>>
  /\ \/ handler' = handler
     \/ /\ handler[p] \notin {"copying", "closed"}
        /\ workerUp # "dead" \/ handler[p] # "none"
        /\ \E h \in HandlerStates \ {"copying", "launch"} :
             /\ h \in BeforeChild => handler[p] \in BeforeChild
             /\ handler' = [handler EXCEPT ![p] = h]
  /\ \/ child' = child
     \/ /\ child[p] # "none"
        /\ \E c \in {"running", "exited", "reaped"} : child' = [child EXCEPT ![p] = c]

LEMMA AssetQuiet ==
  ASSUME WorkerAssumption, AssetInv, NEW p \in Procs, QuietFor(p)
  PROVE  AssetInv'
<1>1. /\ handler' \in [Procs -> HandlerStates]
      /\ child' \in [Procs -> {"none", "running", "exited", "reaped"}]
  BY DEF AssetInv, QuietFor
<1>2. \A q \in Procs : /\ handler'[q] = "copying" <=> handler[q] = "copying"
                       /\ handler'[q] = "launch" => handler[q] = "launch"
  BY DEF AssetInv, QuietFor
<1>3. workerUp = "dead" => \A q \in Procs : handler'[q] \in {"none", "closed"}
  BY DEF AssetInv, QuietFor
<1>4. \A q \in Procs : child'[q] # "none" => child[q] # "none"
  BY DEF AssetInv, QuietFor
<1>5. \A q \in Procs : /\ handler[q] = "closed" => handler'[q] = "closed"
                       /\ handler'[q] \in BeforeChild => handler[q] \in BeforeChild
  BY DEF AssetInv, QuietFor
<1> QED BY <1>1, <1>2, <1>3, <1>4, <1>5 DEF AssetInv, AssetSettled, QuietFor

LEMMA AssetStep ==
  WorkerAssumption /\ HandInv /\ AssetInv /\ [Next]_vars => AssetInv'
<1> SUFFICES ASSUME WorkerAssumption, HandInv, AssetInv, [Next]_vars
             PROVE  AssetInv'
  OBVIOUS
<1> USE DEF HandlerStates, BeforeChild, AssetStates
<1>1. CASE UNCHANGED vars
  BY <1>1 DEF vars, AssetInv, AssetSettled
<1>2. CASE Listen
  BY <1>2 DEF Listen, fileVars, childVars, AssetInv, AssetSettled
<1>3. CASE WorkerDies
  BY <1>3 DEF WorkerDies, fileVars, childVars, AssetInv, AssetSettled
<1>4. ASSUME NEW p \in Procs,
             \/ ConnectTimeout(p) \/ ProxyRead(p) \/ ProxyEof(p) \/ ProxyStdin(p)
             \/ ProxyDies(p)
             \/ (\E s \in Streams : ForwardStream(p, s))
             \/ (\E s \in Outputs : ChildWrite(p, s))
      PROVE  AssetInv'
  <2>1. UNCHANGED <<asset, lock, workerUp, started, handler, child>>
    BY <1>4 DEF ConnectTimeout, ProxyRead, ProxyEof, ProxyStdin, ProxyDies,
       ForwardStream, ChildWrite, fileVars, childVars
  <2> QED BY <2>1 DEF AssetInv, AssetSettled
<1>5. ASSUME NEW p \in Procs,
             \/ Connect(p) \/ MakeWorkdir(p) \/ RejectSpawn(p) \/ SetupFailed(p)
             \/ LoopStdin(p) \/ Drained(p) \/ LoopExit(p) \/ LoopEof(p) \/ SendExit(p)
      PROVE  AssetInv'
  <2>1. QuietFor(p)
    BY <1>5 DEF Connect, MakeWorkdir, RejectSpawn, SetupFailed, LoopStdin, Drained, LoopExit,
       LoopEof, SendExit, Refuse, fileVars, childVars, QuietFor, AssetInv, HandInv
  <2> QED BY <2>1, AssetQuiet
<1>6. ASSUME NEW p \in Procs,
             \/ Reap(p) \/ LoopStdinBroken(p) \/ ChildExit(p) \/ ChildTerminated(p)
      PROVE  AssetInv'
  <2>1. QuietFor(p)
    BY <1>6 DEF Reap, LoopStdinBroken, ChildExit, ChildTerminated, ChildEnds, Refuse,
       fileVars, childVars, QuietFor, AssetInv
  <2> QED BY <2>1, AssetQuiet
<1>7. ASSUME NEW p \in Procs, AssetPresent(p)
      PROVE  AssetInv'
  <2>1. asset \in {"partial", "complete"} /\ workerUp # "dead"
    BY <1>7 DEF AssetPresent, AssetInv, WorkerAssumption
  <2> QED BY <1>7, <2>1 DEF AssetPresent, AssetInv, AssetSettled, fileVars, childVars
<1>8. ASSUME NEW p \in Procs, AssetCopy(p) \/ AssetCopied(p) \/ AssetFailed(p)
      PROVE  AssetInv'
  <2>1. CASE AssetCopy(p)
    BY <2>1 DEF AssetCopy, AssetInv, AssetSettled, childVars
  <2>2. CASE AssetCopied(p)
    BY <2>2 DEF AssetCopied, AssetInv, AssetSettled, childVars
  <2>3. CASE AssetFailed(p)
    BY <2>3 DEF AssetFailed, Refuse, AssetInv, AssetSettled, childVars, WorkerAssumption
  <2> QED BY <1>8, <2>1, <2>2, <2>3
<1>9. ASSUME NEW p \in Procs, Launch(p) \/ LaunchCutOff(p)
      PROVE  AssetInv'
  BY <1>9 DEF Launch, LaunchCutOff, Refuse, AssetInv, AssetSettled, fileVars, childVars
<1> QED
  BY <1>1, <1>2, <1>3, <1>4, <1>5, <1>6, <1>7, <1>8, <1>9 DEF Next, ProxyStep, HandlerStep

\* No simulator starts on an asset that is missing or being copied, whatever
\* requests run at once and whenever the worker dies: the lock of
\* worker.py:24-26.  What it starts on is incomplete only if a cp has failed
\* (worker.py:189), and then a spawn was refused.
THEOREM AssetIsSettled == Spec => []AssetSettled
<1> USE WorkerAssumption
<1>1. Init => HandInv /\ AssetInv
  BY HandInit, AssetInit
<1>2. (HandInv /\ AssetInv) /\ [Next]_vars => (HandInv /\ AssetInv)'
  BY HandStep, AssetStep
<1>3. HandInv /\ AssetInv => AssetSettled
  BY DEF AssetInv
<1> QED BY <1>1, <1>2, <1>3, PTL DEF Spec

-----------------------------------------------------------------------------
(* Work directories.                                                       *)

\* Every directory was made for the one simulator that has it, under its
\* process_id, and a coroutine that has not made one yet has none.
DirInv ==
  /\ workdir \in [Procs -> {<< >>} \cup ({processId[p] : p \in Procs} \X Nat)]
  /\ << >> \notin dirs
  /\ dirs \subseteq {workdir[p] : p \in Procs}
  /\ \A p \in Procs : workdir[p] # << >> => workdir[p] \in dirs
  /\ \A p \in Procs : handler[p] \in {"none", "accepted"} => workdir[p] = << >>
  /\ OwnWorkdir

\* A set of naturals has a smallest element.
LEMMA SmallestIn ==
  ASSUME NEW S, S \subseteq Nat, S # {}
  PROVE  \E n \in S : \A m \in S : n <= m
<1> DEFINE R == OpToRel(<, Nat)
<1>1. IsWellFoundedOn(R, Nat)
  BY NatLessThanWellFounded
<1>2. \A m, n \in Nat : m < n => <<m, n>> \in R
  BY DEF OpToRel
<1> HIDE DEF R
<1>3. PICK n \in S : \A m \in S : <<m, n>> \notin R
  BY <1>1, WFMin
<1>4. ASSUME NEW m \in S PROVE n <= m
  <2>1. m \in Nat /\ n \in Nat /\ ~(m < n)
    BY <1>2, <1>3
  <2> QED BY <2>1
<1> QED BY <1>4

\* One suffix more than there are simulators: one of them is free.
LEMMA SuffixFree ==
  ASSUME WorkerAssumption, DirInv, NEW p \in Procs
  PROVE  \E k \in Suffixes(p) : <<processId[p], k>> \notin dirs
<1> SUFFICES ASSUME \A k \in Suffixes(p) : <<processId[p], k>> \in dirs
             PROVE  FALSE
  OBVIOUS
<1> DEFINE n == Cardinality(Procs)
           f == [k \in 0..n |-> CHOOSE q \in Procs : workdir[q] = <<processId[p], k>>]
<1>1. IsFiniteSet(Procs) /\ n \in Nat
  BY FS_CardinalityType DEF WorkerAssumption
<1>2. IsFiniteSet(0..n) /\ Cardinality(0..n) = n + 1
  BY <1>1, FS_Interval
<1>3. \A k \in 0..n : f[k] \in Procs /\ workdir[f[k]] = <<processId[p], k>>
  <2> TAKE k \in 0..n
  <2>1. <<processId[p], k>> \in dirs
    BY DEF Suffixes
  <2>2. \E q \in Procs : workdir[q] = <<processId[p], k>>
    BY <2>1 DEF DirInv
  <2> QED BY <2>2
<1>4. f \in [0..n -> Procs]
  BY <1>3
<1> HIDE DEF f, n
<1>5. \A j, k \in 0..n : j # k => f[j] # f[k]
  <2> TAKE j, k \in 0..n
  <2>1. <<processId[p], j>> # <<processId[p], k>> \/ j = k
    OBVIOUS
  <2> QED BY <1>3, <2>1
<1>6. ~ (n + 1 > Cardinality(Procs))
  BY <1>1, <1>2, <1>4, <1>5, FS_PigeonHole
<1> QED BY <1>1, <1>6 DEF n

LEMMA FreshDirIsFresh ==
  ASSUME WorkerAssumption, DirInv, NEW p \in Procs
  PROVE  \E k \in Nat : FreshDir(p) = <<processId[p], k>> /\ FreshDir(p) \notin dirs
<1> DEFINE free == {k \in Suffixes(p) : <<processId[p], k>> \notin dirs}
<1>1. free # {} /\ free \subseteq Nat
  <2>1. Cardinality(Procs) \in Nat
    BY FS_CardinalityType DEF WorkerAssumption
  <2> QED BY <2>1, SuffixFree DEF Suffixes
<1>2. \E k \in free : \A j \in free : k <= j
  BY <1>1, SmallestIn
<1>3. PICK k \in free : k = CHOOSE i \in free : \A j \in free : i <= j
  BY <1>2
<1> QED BY <1>1, <1>3 DEF FreshDir

\* Steps that make no directory.
LEMMA DirQuiet ==
  ASSUME DirInv, UNCHANGED <<workdir, dirs>>,
         \A p \in Procs : handler'[p] \in {"none", "accepted"} =>
                            handler[p] \in {"none", "accepted"}
  PROVE  DirInv'
  BY DEF DirInv, OwnWorkdir

LEMMA DirStep == WorkerAssumption /\ HandInv /\ DirInv /\ [Next]_vars => DirInv'
<1> SUFFICES ASSUME WorkerAssumption, HandInv, DirInv, [Next]_vars PROVE DirInv'
  OBVIOUS
<1> USE DEF HandInv, HandlerStates
<1>1. CASE UNCHANGED vars
  BY <1>1, DirQuiet DEF vars
<1>2. CASE Listen \/ WorkerDies
  BY <1>2, DirQuiet DEF Listen, WorkerDies, fileVars
<1>3. ASSUME NEW p \in Procs,
             \/ ProxyStep(p) \/ ProxyStdin(p) \/ ProxyDies(p)
      PROVE  DirInv'
  BY <1>3, DirQuiet DEF ProxyStep, Connect, ConnectTimeout, ProxyRead, ProxyEof, ProxyStdin,
     ProxyDies, fileVars
<1>4. ASSUME NEW p \in Procs,
             \/ AssetPresent(p) \/ AssetCopy(p)
             \/ AssetCopied(p) \/ AssetFailed(p) \/ Launch(p) \/ LaunchCutOff(p)
             \/ RejectSpawn(p) \/ SetupFailed(p)
      PROVE  DirInv'
  BY <1>4, DirQuiet DEF AssetPresent, AssetCopy, AssetCopied, AssetFailed, Launch,
     LaunchCutOff, RejectSpawn, SetupFailed, Refuse, fileVars
<1>5. ASSUME NEW p \in Procs,
             \/ Reap(p) \/ LoopExit(p) \/ LoopStdin(p) \/ Drained(p) \/ LoopStdinBroken(p)
             \/ LoopEof(p) \/ SendExit(p) \/ ChildExit(p) \/ ChildTerminated(p)
             \/ (\E s \in Streams : ForwardStream(p, s))
             \/ (\E s \in Outputs : ChildWrite(p, s))
      PROVE  DirInv'
  BY <1>5, DirQuiet DEF Reap, LoopExit, LoopStdin, Drained, LoopStdinBroken, LoopEof, SendExit,
     ChildExit, ChildTerminated, ChildEnds, ForwardStream, ChildWrite, Refuse, fileVars
<1>6. ASSUME NEW p \in Procs, MakeWorkdir(p)
      PROVE  DirInv'
  <2> DEFINE d == FreshDir(p)
  <2>1. PICK k \in Nat : d = <<processId[p], k>> /\ d \notin dirs
    BY FreshDirIsFresh
  <2>2. d # << >>
    BY <2>1
  <2>3. d \in {processId[q] : q \in Procs} \X Nat
    BY <2>1
  <2> HIDE DEF d
  <2>4. /\ workdir' = [workdir EXCEPT ![p] = d]
        /\ dirs' = dirs \cup {d}
        /\ workdir[p] = << >>
        /\ \A q \in Procs : handler'[q] \in {"none", "accepted"} =>
                              q # p /\ handler[q] \in {"none", "accepted"}
    BY <1>6 DEF MakeWorkdir, DirInv, d
  <2>5. workdir' \in [Procs -> {<< >>} \cup ({processId[q] : q \in Procs} \X Nat)]
    BY <2>3, <2>4 DEF DirInv
  <2>6. /\ workdir'[p] = d
        /\ \A q \in Procs : q # p => workdir'[q] = workdir[q]
    BY <2>4 DEF DirInv
  <2>7. dirs' \subseteq {workdir'[q] : q \in Procs}
    <3> SUFFICES ASSUME NEW e \in dirs' PROVE \E q \in Procs : e = workdir'[q]
      OBVIOUS
    <3>1. CASE e = d
      BY <3>1, <2>6
    <3>2. CASE e \in dirs
      <4>1. PICK q \in Procs : e = workdir[q]
        BY <3>2 DEF DirInv
      <4>2. CASE q # p
        BY <4>1, <4>2, <2>6
      <4>3. CASE q = p
        BY <4>1, <4>3, <2>4, <3>2 DEF DirInv
      <4> QED BY <4>2, <4>3
    <3> QED BY <3>1, <3>2, <2>4
  <2>8. \A q \in Procs : workdir'[q] # << >> => workdir'[q] \in dirs'
    <3>1. d \in dirs' /\ \A e \in dirs : e \in dirs'
      BY <2>4
    <3>2. \A q \in Procs : workdir[q] # << >> => workdir[q] \in dirs
      BY DEF DirInv
    <3> QED BY <2>6, <3>1, <3>2, Zenon
  <2>9. OwnWorkdir'
    <3>1. \A q \in Procs : workdir[q] # d
      BY <2>1, <2>2 DEF DirInv
    <3>2. \A q, r \in Procs : q # r /\ workdir[q] # << >> => workdir[q] # workdir[r]
      BY DEF DirInv, OwnWorkdir
    <3>3. \A q, r \in Procs : q # r /\ workdir'[q] # << >> => workdir'[q] # workdir'[r]
      BY ONLY <2>6, <3>1, <3>2, Zenon
    <3> QED BY <3>3 DEF OwnWorkdir
  <2>10. << >> \notin dirs'
    BY <2>2, <2>4 DEF DirInv
  <2>11. \A q \in Procs : handler'[q] \in {"none", "accepted"} => workdir'[q] = << >>
    BY <2>4, <2>6 DEF DirInv
  <2> QED BY <2>5, <2>7, <2>8, <2>9, <2>10, <2>11 DEF DirInv
<1> QED BY <1>1, <1>2, <1>3, <1>4, <1>5, <1>6 DEF Next, HandlerStep

\* Every simulator has a work directory of its own (worker.py:150-157), also
\* when one YAML process is started any number of times: its suffixes never
\* run out and none is given twice.
THEOREM WorkdirsDiffer == Spec => []OwnWorkdir
<1> USE WorkerAssumption
<1>1. Init => HandInv /\ DirInv
  <2>1. Init => DirInv
    BY DEF Init, DirInv, OwnWorkdir
  <2> QED BY <2>1, HandInit
<1>2. (HandInv /\ DirInv) /\ [Next]_vars => (HandInv /\ DirInv)'
  BY HandStep, DirStep
<1>3. HandInv /\ DirInv => OwnWorkdir
  BY DEF DirInv
<1> QED BY <1>1, <1>2, <1>3, PTL DEF Spec

-----------------------------------------------------------------------------
(* Output.                                                                 *)

Frames ==
  [op : {"output"}, stream : Outputs, value : Nat]
    \cup [op : {"diagnostic", "started", "error", "exit"}, stream : {""}, value : Int]

IsOutput(f, s) == f.op = "output" /\ f.stream = s

\* Queue q carries, in order and without a gap, what is missing in sh of the
\* first n chunks of stream s.
Relayed(q, sh, s, n) ==
  /\ Len(sh) <= n
  /\ \A k \in 1..Len(sh) : sh[k] = k
  /\ \A i \in 1..Len(q) : IsOutput(q[i], s) => q[i].value \in Len(sh) + 1..n
  /\ \A i, j \in 1..Len(q) :
       i < j /\ IsOutput(q[i], s) /\ IsOutput(q[j], s) => q[i].value < q[j].value
  /\ \A k \in Len(sh) + 1..n :
       \E i \in 1..Len(q) : IsOutput(q[i], s) /\ q[i].value = k

\* The exit frame is under way, or the proxy has ended with its code.
Settled(q, r) == r \in {0, 2} \/ \E i \in 1..Len(q) : q[i].op = "exit"

\* The state of one simulator: the frames q under way, its handler h, its
\* proxy x with result r, the child c with its code cd, and the chunks
\* written, forwarded and shown.
Faithful(q, h, x, r, c, cd, pr, fw, sh) ==
  /\ q \in Seq(Frames)
  /\ h \in HandlerStates
  /\ cd \in Int
  /\ pr \in [Outputs -> Nat] /\ fw \in [Streams -> Nat]
  /\ sh \in [Outputs -> Seq(Nat)]
  /\ \A i \in 1..Len(q) : q[i].op = "exit" => i = Len(q) /\ q[i].value = cd
  /\ r \in {0, 2} =>
       x = "done" /\ r = cd /\ \A s \in Outputs : Len(sh[s]) = pr[s]
  /\ Settled(q, r) => h = "closed" /\ c = "reaped"
  /\ \A s \in Outputs : \E n \in Nat :
       /\ Relayed(q, sh[s], s, n)
       /\ s \in Streams => n = fw[s]
       /\ s = "marker" /\ h # "closed" => n = 0
       /\ Settled(q, r) => n = pr[s]

FaithfulAt(p) ==
  Faithful(toProxy[p], handler[p], proxy[p], result[p], child[p], code[p],
           produced[p], forwarded[p], shown[p])

OutputType ==
  /\ toProxy \in [Procs -> Seq(Frames)]
  /\ result \in [Procs -> Int]
  /\ child \in [Procs -> {"none", "running", "exited", "reaped"}]
  /\ code \in [Procs -> Int]
  /\ produced \in [Procs -> [Outputs -> Nat]]
  /\ forwarded \in [Procs -> [Streams -> Nat]]
  /\ shown \in [Procs -> [Outputs -> Seq(Nat)]]

OutputInv == HandInv /\ OutputType /\ \A p \in Procs : FaithfulAt(p)

LEMMA ControlFrame ==
  \A o \in {"diagnostic", "started", "error", "exit"}, t \in {""}, v \in Int :
    [op |-> o, stream |-> t, value |-> v] \in Frames
  BY DEF Frames

LEMMA ConcatSeq ==
  \A q, fs \in Seq(Frames) :
    /\ q \o fs \in Seq(Frames)
    /\ Len(q \o fs) = Len(q) + Len(fs)
    /\ \A i \in 1..Len(q) : (q \o fs)[i] = q[i]
    /\ \A i \in 1..Len(fs) : (q \o fs)[Len(q) + i] = fs[i]
    /\ \A i \in 1..Len(q) + Len(fs) :
         i \in 1..Len(q) \/ \E j \in 1..Len(fs) : i = Len(q) + j
<1> SUFFICES ASSUME NEW q \in Seq(Frames), NEW fs \in Seq(Frames)
             PROVE  /\ q \o fs \in Seq(Frames)
                    /\ Len(q \o fs) = Len(q) + Len(fs)
                    /\ \A i \in 1..Len(q) : (q \o fs)[i] = q[i]
                    /\ \A i \in 1..Len(fs) : (q \o fs)[Len(q) + i] = fs[i]
                    /\ \A i \in 1..Len(q) + Len(fs) :
                         i \in 1..Len(q) \/ \E j \in 1..Len(fs) : i = Len(q) + j
  OBVIOUS
<1>1. \A i \in 1..Len(q) + Len(fs) :
        i \in 1..Len(q) \/ \E j \in 1..Len(fs) : i = Len(q) + j
  <2> SUFFICES ASSUME NEW i \in 1..Len(q) + Len(fs), i \notin 1..Len(q)
               PROVE  \E j \in 1..Len(fs) : i = Len(q) + j
    OBVIOUS
  <2>1. i - Len(q) \in 1..Len(fs) /\ i = Len(q) + (i - Len(q))
    BY LenProperties
  <2> QED BY <2>1
<1> QED BY <1>1, LenProperties

\* Sending m more chunks of s, and then frames that are not of s.
LEMMA RelayedSend ==
  ASSUME NEW q \in Seq(Frames), NEW fs \in Seq(Frames), NEW sh \in Seq(Nat),
         NEW s, NEW n \in Nat, NEW m \in Nat, Relayed(q, sh, s, n), m <= Len(fs),
         \A k \in 1..Len(fs) : IF k <= m THEN IsOutput(fs[k], s) /\ fs[k].value = n + k
                                         ELSE ~IsOutput(fs[k], s)
  PROVE  Relayed(q \o fs, sh, s, n + m)
<1> DEFINE r == q \o fs
<1>0. Len(q) \in Nat /\ Len(fs) \in Nat /\ Len(sh) \in Nat
  BY LenProperties
<1>1. /\ Len(r) = Len(q) + Len(fs)
      /\ \A i \in 1..Len(q) : r[i] = q[i]
      /\ \A i \in 1..Len(fs) : r[Len(q) + i] = fs[i]
      /\ \A i \in 1..Len(q) + Len(fs) :
           i \in 1..Len(q) \/ \E j \in 1..Len(fs) : i = Len(q) + j
  BY ConcatSeq
<1>Order. /\ \A i \in 1..Len(q) : IsOutput(q[i], s) => q[i].value \in Len(sh) + 1..n
          /\ \A i, j \in 1..Len(q) :
               i < j /\ IsOutput(q[i], s) /\ IsOutput(q[j], s) => q[i].value < q[j].value
  BY DEF Relayed
<1> HIDE DEF r
<1>2. ASSUME NEW i \in 1..Len(r), IsOutput(r[i], s)
      PROVE  \/ i \in 1..Len(q) /\ IsOutput(q[i], s) /\ r[i] = q[i]
                /\ r[i].value \in Len(sh) + 1..n
             \/ \E k \in 1..m : i = Len(q) + k /\ r[i].value = n + k
  <2>1. CASE i \in 1..Len(q)
    <3>1. r[i] = q[i] /\ IsOutput(q[i], s)
      BY <1>1, <1>2, <2>1
    <3> QED BY <2>1, <3>1, <1>Order
  <2>2. ASSUME NEW j \in 1..Len(fs), i = Len(q) + j
        PROVE  j \in 1..m /\ r[i].value = n + j
    <3>1. r[i] = fs[j] /\ IsOutput(fs[j], s)
      BY <1>1, <1>2, <2>2
    <3> QED BY <1>0, <3>1
  <2> QED BY <1>1, <2>1, <2>2
<1>3. Len(sh) <= n + m /\ \A k \in 1..Len(sh) : sh[k] = k
  BY <1>0 DEF Relayed
<1>4. \A i \in 1..Len(r) : IsOutput(r[i], s) => r[i].value \in Len(sh) + 1..n + m
  BY <1>0, <1>2, <1>3 DEF Relayed
<1>5. ASSUME NEW i \in 1..Len(r), NEW j \in 1..Len(r),
             i < j, IsOutput(r[i], s), IsOutput(r[j], s)
      PROVE  r[i].value < r[j].value
  <2>1. CASE j \in 1..Len(q)
    <3>1. i \in 1..Len(q)
      BY <1>0, <1>5, <2>1
    <3>2. r[i] = q[i] /\ r[j] = q[j]
      BY <1>1, <2>1, <3>1
    <3> QED BY <1>5, <2>1, <3>1, <3>2, <1>Order
  <2>2. CASE j \notin 1..Len(q)
    <3>1. PICK k \in 1..m : j = Len(q) + k /\ r[j].value = n + k
      BY <1>2, <1>5, <2>2
    <3>2. CASE i \in 1..Len(q) /\ r[i].value \in Len(sh) + 1..n
      BY <1>0, <3>1, <3>2
    <3>3. ASSUME NEW l \in 1..m, i = Len(q) + l, r[i].value = n + l
          PROVE  r[i].value < r[j].value
      BY <1>0, <1>5, <3>1, <3>3
    <3> QED BY <1>2, <1>5, <3>2, <3>3
  <2> QED BY <2>1, <2>2
<1>6. ASSUME NEW k \in Len(sh) + 1..n + m
      PROVE  \E i \in 1..Len(r) : IsOutput(r[i], s) /\ r[i].value = k
  <2>1. CASE k \in Len(sh) + 1..n
    <3>1. PICK i \in 1..Len(q) : IsOutput(q[i], s) /\ q[i].value = k
      BY <2>1 DEF Relayed
    <3> QED BY <1>0, <1>1, <3>1
  <2>2. CASE k > n
    <3>1. k - n \in 1..m /\ k - n \in 1..Len(fs) /\ n + (k - n) = k
      BY <1>0, <1>6, <2>2
    <3>2. Len(q) + (k - n) \in 1..Len(r)
      BY <1>0, <1>1, <3>1
    <3>3. IsOutput(fs[k - n], s) /\ fs[k - n].value = k
      BY <3>1
    <3> QED BY <1>1, <3>1, <3>2, <3>3
  <2> QED BY <1>0, <1>6, <2>1, <2>2
<1> QED BY <1>3, <1>4, <1>5, <1>6 DEF Relayed, r

LEMMA TailSeq ==
  \A q \in Seq(Frames) : q # << >> =>
    /\ Tail(q) \in Seq(Frames) /\ Head(q) = q[1] /\ Head(q) \in Frames
    /\ Len(q) \in Nat \ {0} /\ Len(Tail(q)) = Len(q) - 1
    /\ \A i \in 1..Len(Tail(q)) : Tail(q)[i] = q[i + 1] /\ i + 1 \in 1..Len(q)
    /\ \A i \in 2..Len(q) : q[i] = Tail(q)[i - 1] /\ i - 1 \in 1..Len(Tail(q))
  BY HeadTailProperties, EmptySeq, LenProperties, ElementOfSeq

LEMMA RelayedSkip ==
  ASSUME NEW q \in Seq(Frames), q # << >>, NEW sh \in Seq(Nat), NEW s, NEW n \in Nat,
         Relayed(q, sh, s, n), ~IsOutput(Head(q), s)
  PROVE  Relayed(Tail(q), sh, s, n)
<1> DEFINE t == Tail(q)
<1>1. /\ Head(q) = q[1] /\ Len(q) \in Nat \ {0} /\ Len(t) = Len(q) - 1
      /\ \A i \in 1..Len(t) : t[i] = q[i + 1] /\ i + 1 \in 1..Len(q)
      /\ \A i \in 2..Len(q) : q[i] = t[i - 1] /\ i - 1 \in 1..Len(t)
  BY TailSeq
<1>Order. \A i, j \in 1..Len(q) :
            i < j /\ IsOutput(q[i], s) /\ IsOutput(q[j], s) => q[i].value < q[j].value
  BY DEF Relayed
<1> HIDE DEF t
<1>2. ASSUME NEW k \in Len(sh) + 1..n
      PROVE  \E i \in 1..Len(t) : IsOutput(t[i], s) /\ t[i].value = k
  <2>1. PICK i \in 1..Len(q) : IsOutput(q[i], s) /\ q[i].value = k
    BY DEF Relayed
  <2>2. i \in 2..Len(q)
    BY <1>1, <2>1
  <2> QED BY <1>1, <2>1, <2>2
<1>3. \A i, j \in 1..Len(t) :
        i < j /\ IsOutput(t[i], s) /\ IsOutput(t[j], s) => t[i].value < t[j].value
  <2> SUFFICES ASSUME NEW i \in 1..Len(t), NEW j \in 1..Len(t), i < j,
                      IsOutput(t[i], s), IsOutput(t[j], s)
               PROVE  t[i].value < t[j].value
    OBVIOUS
  <2>1. /\ t[i] = q[i + 1] /\ i + 1 \in 1..Len(q)
        /\ t[j] = q[j + 1] /\ j + 1 \in 1..Len(q) /\ i + 1 < j + 1
    BY <1>1
  <2> QED BY <2>1, <1>Order
<1> QED BY <1>1, <1>2, <1>3 DEF Relayed, t

LEMMA RelayedShow ==
  ASSUME NEW q \in Seq(Frames), q # << >>, NEW sh \in Seq(Nat), NEW s, NEW n \in Nat,
         Relayed(q, sh, s, n), IsOutput(Head(q), s)
  PROVE  Relayed(Tail(q), Append(sh, Head(q).value), s, n)
<1> DEFINE t == Tail(q)
           v == Head(q).value
           r == Append(sh, v)
<1>1. /\ Head(q) = q[1] /\ Len(q) \in Nat \ {0} /\ Len(t) = Len(q) - 1
      /\ \A i \in 1..Len(t) : t[i] = q[i + 1] /\ i + 1 \in 1..Len(q)
      /\ \A i \in 2..Len(q) : q[i] = t[i - 1] /\ i - 1 \in 1..Len(t)
      /\ Len(sh) \in Nat
  BY TailSeq, LenProperties
<1>2. v \in Len(sh) + 1..n /\ 1 \in 1..Len(q) /\ n \in Int
  BY <1>1 DEF Relayed
<1>Order. \A i, j \in 1..Len(q) :
            i < j /\ IsOutput(q[i], s) /\ IsOutput(q[j], s) => q[i].value < q[j].value
  BY DEF Relayed
<1>Range. \A i \in 1..Len(q) : IsOutput(q[i], s) => q[i].value \in Len(sh) + 1..n
  BY DEF Relayed
<1>3. v = Len(sh) + 1
  <2>1. PICK i \in 1..Len(q) : IsOutput(q[i], s) /\ q[i].value = Len(sh) + 1
    <3>1. Len(sh) + 1 \in Len(sh) + 1..n
      BY <1>1, <1>2
    <3> QED BY <3>1 DEF Relayed
  <2>2. 1 < i => v < Len(sh) + 1
    BY <1>1, <1>2, <2>1 DEF Relayed
  <2> QED BY <1>1, <1>2, <2>1, <2>2
<1>4. Len(r) = Len(sh) + 1 /\ \A k \in 1..Len(r) : r[k] = k
  <2>1. Len(r) = Len(sh) + 1 /\ r[Len(sh) + 1] = v /\ \A k \in 1..Len(sh) : r[k] = sh[k]
    BY <1>1, <1>2, AppendProperties
  <2> QED BY <1>1, <1>3, <2>1 DEF Relayed
<1> HIDE DEF t, v, r
<1>5. \A i \in 1..Len(t) : IsOutput(t[i], s) => t[i].value \in Len(r) + 1..n
  <2> SUFFICES ASSUME NEW i \in 1..Len(t), IsOutput(t[i], s)
               PROVE  t[i].value \in Len(r) + 1..n
    OBVIOUS
  <2>1. t[i] = q[i + 1] /\ i + 1 \in 1..Len(q) /\ 1 < i + 1 /\ IsOutput(q[1], s)
    BY <1>1
  <2>2. v < t[i].value /\ t[i].value \in Len(sh) + 1..n
    BY <1>1, <1>2, <2>1, <1>Order, <1>Range DEF v
  <2> QED BY <1>1, <1>2, <1>3, <1>4, <2>2
<1>6. \A i, j \in 1..Len(t) :
        i < j /\ IsOutput(t[i], s) /\ IsOutput(t[j], s) => t[i].value < t[j].value
  <2> SUFFICES ASSUME NEW i \in 1..Len(t), NEW j \in 1..Len(t), i < j,
                      IsOutput(t[i], s), IsOutput(t[j], s)
               PROVE  t[i].value < t[j].value
    OBVIOUS
  <2>1. /\ t[i] = q[i + 1] /\ i + 1 \in 1..Len(q)
        /\ t[j] = q[j + 1] /\ j + 1 \in 1..Len(q) /\ i + 1 < j + 1
    BY <1>1
  <2> QED BY <2>1, <1>Order
<1>7. ASSUME NEW k \in Len(r) + 1..n
      PROVE  \E i \in 1..Len(t) : IsOutput(t[i], s) /\ t[i].value = k
  <2>1. PICK i \in 1..Len(q) : IsOutput(q[i], s) /\ q[i].value = k
    <3>1. k \in Len(sh) + 1..n
      BY <1>1, <1>4, <1>7
    <3> QED BY <3>1 DEF Relayed
  <2>2. i \in 2..Len(q)
    BY <1>1, <1>3, <1>4, <1>7, <2>1 DEF v
  <2> QED BY <1>1, <2>1, <2>2
<1>8. Len(r) <= n
  BY <1>1, <1>2, <1>3, <1>4
<1> QED BY <1>4, <1>5, <1>6, <1>7, <1>8 DEF Relayed, t, v, r

\* Steps that neither send nor show a frame.
LEMMA FaithfulQuiet ==
  ASSUME NEW q, NEW h, NEW x, NEW r, NEW c, NEW cd, NEW pr, NEW fw, NEW sh,
         Faithful(q, h, x, r, c, cd, pr, fw, sh),
         NEW h2 \in HandlerStates, NEW x2, NEW r2, NEW c2, NEW cd2 \in Int,
         NEW pr2 \in [Outputs -> Nat],
         Settled(q, r) => h2 = "closed" /\ c2 = "reaped" /\ cd2 = cd /\ pr2 = pr,
         h = "closed" => h2 = "closed",
         r2 \in {0, 2} => r2 = r /\ x2 = x
  PROVE  Faithful(q, h2, x2, r2, c2, cd2, pr2, fw, sh)
<1>1. Settled(q, r2) => Settled(q, r)
  BY DEF Settled
<1>2. \A i \in 1..Len(q) : q[i].op = "exit" => i = Len(q) /\ q[i].value = cd2
  BY DEF Faithful, Settled
<1>3. r2 \in {0, 2} =>
        x2 = "done" /\ r2 = cd2 /\ \A s \in Outputs : Len(sh[s]) = pr2[s]
  BY DEF Faithful, Settled
<1>4. ASSUME NEW s \in Outputs
      PROVE  \E n \in Nat : /\ Relayed(q, sh[s], s, n)
                            /\ s \in Streams => n = fw[s]
                            /\ s = "marker" /\ h2 # "closed" => n = 0
                            /\ Settled(q, r2) => n = pr2[s]
  BY <1>1 DEF Faithful
<1> QED BY <1>1, <1>2, <1>3, <1>4 DEF Faithful

\* Frames that are neither output nor exit are sent.
LEMMA FaithfulSend ==
  ASSUME NEW q, NEW h, NEW x, NEW r, NEW c, NEW cd, NEW pr, NEW fw, NEW sh,
         Faithful(q, h, x, r, c, cd, pr, fw, sh), h # "closed",
         NEW fs \in Seq(Frames), \A i \in 1..Len(fs) : fs[i].op \notin {"output", "exit"},
         NEW h2 \in HandlerStates, NEW c2, NEW cd2 \in Int
  PROVE  Faithful(q \o fs, h2, x, r, c2, cd2, pr, fw, sh)
<1>1. q \in Seq(Frames) /\ ~Settled(q, r)
  BY DEF Faithful
<1>2. \A i \in 1..Len(q \o fs) : (q \o fs)[i].op # "exit"
  <2>1. \A i \in 1..Len(fs) : fs[i].op # "exit"
    OBVIOUS
  <2>2. \A i \in 1..Len(q) : q[i].op # "exit"
    BY <1>1 DEF Settled
  <2> QED BY <1>1, <2>1, <2>2, ConcatSeq
<1>3. ~Settled(q \o fs, r)
  BY <1>1, <1>2 DEF Settled
<1>4. ASSUME NEW s \in Outputs
      PROVE  \E n \in Nat : /\ Relayed(q \o fs, sh[s], s, n)
                            /\ s \in Streams => n = fw[s]
                            /\ s = "marker" /\ h2 # "closed" => n = 0
  <2>1. PICK n \in Nat : /\ Relayed(q, sh[s], s, n)
                         /\ s \in Streams => n = fw[s]
                         /\ s = "marker" => n = 0
    BY DEF Faithful
  <2>2. sh[s] \in Seq(Nat)
    BY DEF Faithful
  <2>3. \A k \in 1..Len(fs) : IF k <= 0 THEN IsOutput(fs[k], s) /\ fs[k].value = n + k
                                         ELSE ~IsOutput(fs[k], s)
    BY DEF IsOutput
  <2>4. Relayed(q \o fs, sh[s], s, n + 0)
    BY <1>1, <2>1, <2>2, <2>3, LenProperties, RelayedSend
  <2>5. Relayed(q \o fs, sh[s], s, n)
    BY <2>4
  <2> QED BY <2>1, <2>5
<1>5. q \o fs \in Seq(Frames) /\ r \notin {0, 2}
  BY <1>1, ConcatSeq DEF Settled
<1> QED BY <1>2, <1>3, <1>4, <1>5 DEF Faithful

\* forward_stream sends the next chunk.
LEMMA FaithfulForward ==
  ASSUME NEW q, NEW h, NEW x, NEW r, NEW c, NEW cd, NEW pr, NEW fw, NEW sh,
         Faithful(q, h, x, r, c, cd, pr, fw, sh), h # "closed", NEW t \in Streams
  PROVE  Faithful(q \o <<Output(t, fw[t] + 1)>>, h, x, r, c, cd, pr,
                  [fw EXCEPT ![t] = @ + 1], sh)
<1> DEFINE fs == <<Output(t, fw[t] + 1)>>
           fw2 == [fw EXCEPT ![t] = @ + 1]
<1>0. fw[t] \in Nat /\ fw2 \in [Streams -> Nat] /\ fw2[t] = fw[t] + 1
  BY DEF Faithful
<1>1. q \in Seq(Frames) /\ ~Settled(q, r)
  BY DEF Faithful
<1>2. fs \in Seq(Frames) /\ Len(fs) = 1 /\ fs[1] = Output(t, fw[t] + 1)
      /\ fs[1].op = "output" /\ fs[1].stream = t /\ fs[1].value = fw[t] + 1
  <2>1. Output(t, fw[t] + 1) \in Frames
    BY <1>0 DEF Output, Frames, Outputs
  <2> QED BY <2>1 DEF Output
<1> HIDE DEF fs, fw2
<1>3. \A i \in 1..Len(q \o fs) : (q \o fs)[i].op # "exit"
  <2>1. \A i \in 1..Len(fs) : fs[i].op # "exit"
    BY <1>2
  <2>2. \A i \in 1..Len(q) : q[i].op # "exit"
    BY <1>1 DEF Settled
  <2> QED BY <1>1, <1>2, <2>1, <2>2, ConcatSeq
<1>4. ~Settled(q \o fs, r)
  BY <1>1, <1>3 DEF Settled
<1>5. ASSUME NEW s \in Outputs
      PROVE  \E n \in Nat : /\ Relayed(q \o fs, sh[s], s, n)
                            /\ s \in Streams => n = fw2[s]
                            /\ s = "marker" => n = 0
  <2>1. PICK n \in Nat : /\ Relayed(q, sh[s], s, n)
                         /\ s \in Streams => n = fw[s]
                         /\ s = "marker" => n = 0
    BY DEF Faithful
  <2>2. sh[s] \in Seq(Nat)
    BY DEF Faithful
  <2>3. CASE s = t
    <3>1. n = fw[t]
      BY <2>1, <2>3
    <3>2. \A k \in 1..Len(fs) : IF k <= 1 THEN IsOutput(fs[k], s) /\ fs[k].value = n + k
                                           ELSE ~IsOutput(fs[k], s)
      BY <1>2, <2>3, <3>1 DEF IsOutput
    <3>3. Relayed(q \o fs, sh[s], s, n + 1)
      <4>1. 1 \in Nat /\ 1 <= Len(fs)
        BY <1>2
      <4> QED BY ONLY <1>1, <1>2, <2>1, <2>2, <3>2, <4>1, RelayedSend
    <3>4. s # "marker" /\ n + 1 \in Nat /\ n + 1 = fw2[s]
      BY <1>0, <2>3, <3>1 DEF Streams
    <3> QED BY <3>3, <3>4
  <2>4. CASE s # t
    <3>2. \A k \in 1..Len(fs) : IF k <= 0 THEN IsOutput(fs[k], s) /\ fs[k].value = n + k
                                           ELSE ~IsOutput(fs[k], s)
      BY <1>2, <2>4 DEF IsOutput
    <3>3. Relayed(q \o fs, sh[s], s, n + 0)
      <4>1. 0 \in Nat /\ 0 <= Len(fs)
        BY <1>2
      <4> QED BY ONLY <1>1, <1>2, <2>1, <2>2, <3>2, <4>1, RelayedSend
    <3>4. s \in Streams => n = fw2[s]
      BY <2>1, <2>4 DEF fw2, Faithful
    <3>5. Relayed(q \o fs, sh[s], s, n)
      BY <3>3
    <3> QED BY <2>1, <3>4, <3>5
  <2> QED BY <2>3, <2>4
<1>6. q \o fs \in Seq(Frames) /\ r \notin {0, 2}
  BY <1>1, <1>2, ConcatSeq DEF Settled
<1>7. Faithful(q \o fs, h, x, r, c, cd, pr, fw2, sh)
  BY <1>0, <1>3, <1>4, <1>5, <1>6 DEF Faithful
<1> QED BY <1>7 DEF fs, fw2

\* The marker, if the simulator wrote one, and the exit frame are sent.
LEMMA FaithfulExit ==
  ASSUME NEW q, NEW h, NEW x, NEW r, NEW c, NEW cd, NEW pr, NEW fw, NEW sh,
         Faithful(q, h, x, r, c, cd, pr, fw, sh), h # "closed", c = "reaped",
         \A s \in Streams : fw[s] = pr[s]
  PROVE  Faithful(q \o ([k \in 1..pr["marker"] |-> Output("marker", k)] \o <<ExitFrame(cd)>>),
                  "closed", x, r, c, cd, pr, fw, sh)
<1> DEFINE m == pr["marker"]
           M == [k \in 1..m |-> Output("marker", k)]
           e == <<ExitFrame(cd)>>
           fs == M \o e
<1>0. m \in Nat
  BY DEF Faithful, Outputs
<1>1. q \in Seq(Frames) /\ ~Settled(q, r)
  BY DEF Faithful
<1>2. M \in Seq(Frames) /\ Len(M) = m /\ \A k \in 1..m : M[k] = Output("marker", k)
  <2>1. \A k \in 1..m : Output("marker", k) \in Frames
    BY <1>0 DEF Output, Frames, Outputs
  <2> QED BY <1>0, <2>1
<1>3. e \in Seq(Frames) /\ Len(e) = 1 /\ e[1] = ExitFrame(cd)
  <2>1. ExitFrame(cd) \in Frames
    BY DEF ExitFrame, Frames, Faithful
  <2> QED BY <2>1
<1> HIDE DEF m, M, e
<1>4. /\ fs \in Seq(Frames) /\ Len(fs) = m + 1
      /\ \A k \in 1..m : fs[k] = Output("marker", k)
      /\ fs[m + 1] = ExitFrame(cd)
  <2>1. /\ fs \in Seq(Frames) /\ Len(fs) = Len(M) + Len(e)
        /\ \A i \in 1..Len(M) : fs[i] = M[i]
        /\ \A i \in 1..Len(e) : fs[Len(M) + i] = e[i]
    BY ONLY <1>2, <1>3, ConcatSeq
  <2> HIDE DEF fs
  <2>2. fs[m + 1] = e[1] /\ \A k \in 1..m : fs[k] = M[k]
    BY <1>0, <1>2, <1>3, <2>1
  <2> QED BY <1>2, <1>3, <2>1, <2>2
<1>5. /\ \A k \in 1..m : fs[k].op = "output" /\ fs[k].stream = "marker" /\ fs[k].value = k
      /\ fs[m + 1].op = "exit" /\ fs[m + 1].value = cd
  <2> HIDE DEF fs
  <2>1. \A k : Output("marker", k).op = "output" /\ Output("marker", k).stream = "marker"
              /\ Output("marker", k).value = k
    BY DEF Output
  <2>2. ExitFrame(cd).op = "exit" /\ ExitFrame(cd).value = cd
    BY DEF ExitFrame
  <2> QED BY ONLY <1>4, <2>1, <2>2, Zenon
<1> HIDE DEF fs
<1>6. /\ q \o fs \in Seq(Frames) /\ Len(q) \in Nat /\ Len(q \o fs) = Len(q) + m + 1
      /\ \A i \in 1..Len(q) : (q \o fs)[i] = q[i]
      /\ \A i \in 1..m + 1 : (q \o fs)[Len(q) + i] = fs[i]
      /\ \A i \in 1..Len(q \o fs) :
           i \in 1..Len(q) \/ \E j \in 1..m + 1 : i = Len(q) + j
  <2>1. /\ q \o fs \in Seq(Frames) /\ Len(q \o fs) = Len(q) + Len(fs)
        /\ \A i \in 1..Len(q) : (q \o fs)[i] = q[i]
        /\ \A i \in 1..Len(fs) : (q \o fs)[Len(q) + i] = fs[i]
        /\ \A i \in 1..Len(q) + Len(fs) :
             i \in 1..Len(q) \/ \E j \in 1..Len(fs) : i = Len(q) + j
    BY ONLY <1>1, <1>4, ConcatSeq
  <2>2. Len(q) \in Nat
    BY <1>1, LenProperties
  <2> QED BY <1>0, <1>4, <2>1, <2>2
<1>7. \A i \in 1..Len(q \o fs) :
        (q \o fs)[i].op = "exit" => i = Len(q \o fs) /\ (q \o fs)[i].value = cd
  <2> SUFFICES ASSUME NEW i \in 1..Len(q \o fs), (q \o fs)[i].op = "exit"
               PROVE  i = Len(q \o fs) /\ (q \o fs)[i].value = cd
    OBVIOUS
  <2>1. i \notin 1..Len(q)
    BY <1>1, <1>6 DEF Settled
  <2>2. PICK j \in 1..m + 1 : i = Len(q) + j
    BY <1>6, <2>1
  <2>3. j = m + 1
    <3>1. fs[j].op = "exit"
      BY <1>6, <2>2
    <3>2. j \notin 1..m
      BY <1>5, <3>1
    <3> QED BY <1>0, <3>2
  <2> QED BY <1>0, <1>5, <1>6, <2>2, <2>3
<1>8. ASSUME NEW s \in Outputs
      PROVE  \E n \in Nat : /\ Relayed(q \o fs, sh[s], s, n)
                            /\ s \in Streams => n = fw[s]
                            /\ n = pr[s]
  <2>1. PICK n \in Nat : /\ Relayed(q, sh[s], s, n)
                         /\ s \in Streams => n = fw[s]
                         /\ s = "marker" => n = 0
    BY DEF Faithful
  <2>2. sh[s] \in Seq(Nat)
    BY DEF Faithful
  <2>3. CASE s = "marker"
    <3>1. n = 0 /\ s \notin Streams /\ pr[s] = m
      BY <2>1, <2>3 DEF Streams, m
    <3>2. \A k \in 1..Len(fs) : IF k <= m THEN IsOutput(fs[k], s) /\ fs[k].value = n + k
                                           ELSE ~IsOutput(fs[k], s)
      BY <1>0, <1>4, <1>5, <2>3, <3>1 DEF IsOutput
    <3>3. m <= Len(fs)
      BY <1>0, <1>4
    <3>4. Relayed(q \o fs, sh[s], s, n + m)
      BY ONLY <1>0, <1>1, <1>4, <2>1, <2>2, <3>2, <3>3, RelayedSend
    <3>5. n + m = m
      BY <1>0, <3>1
    <3> QED BY <1>0, <3>1, <3>4, <3>5
  <2>4. CASE s \in Streams
    <3>1. s # "marker" /\ n = pr[s]
      BY <2>1, <2>4 DEF Streams
    <3>2. \A k \in 1..Len(fs) : IF k <= 0 THEN IsOutput(fs[k], s) /\ fs[k].value = n + k
                                           ELSE ~IsOutput(fs[k], s)
      BY <1>0, <1>4, <1>5, <3>1 DEF IsOutput
    <3>3. 0 \in Nat /\ 0 <= Len(fs)
      BY <1>0, <1>4
    <3>4. Relayed(q \o fs, sh[s], s, n + 0)
      BY ONLY <1>1, <1>4, <2>1, <2>2, <3>2, <3>3, RelayedSend
    <3>5. n + 0 = n
      OBVIOUS
    <3> QED BY <2>1, <3>1, <3>4, <3>5
  <2> QED BY <2>3, <2>4 DEF Outputs
<1>9. r \notin {0, 2} /\ "closed" \in HandlerStates
  BY <1>1 DEF Settled, HandlerStates
<1>10. Faithful(q \o fs, "closed", x, r, c, cd, pr, fw, sh)
  BY <1>6, <1>7, <1>8, <1>9 DEF Faithful
<1> QED BY <1>10 DEF fs, M, e, m

\* The proxy reads a frame that is neither output nor exit.
LEMMA FaithfulSkip ==
  ASSUME NEW q, NEW h, NEW x, NEW r, NEW c, NEW cd, NEW pr, NEW fw, NEW sh,
         Faithful(q, h, x, r, c, cd, pr, fw, sh), q # << >>, x # "done",
         Head(q).op \notin {"output", "exit"}, NEW x2, NEW r2, r2 \notin {0, 2} \/ r2 = r
  PROVE  Faithful(Tail(q), h, x2, r2, c, cd, pr, fw, sh)
<1> DEFINE tl == Tail(q)
<1>1. q \in Seq(Frames) /\ r \notin {0, 2} /\ r2 \notin {0, 2}
  BY DEF Faithful
<1>2. /\ tl \in Seq(Frames) /\ Len(q) \in Nat \ {0} /\ Len(tl) = Len(q) - 1
      /\ \A i \in 1..Len(tl) : tl[i] = q[i + 1] /\ i + 1 \in 1..Len(q)
  BY <1>1, TailSeq
<1> HIDE DEF tl
<1>3. Settled(tl, r2) => Settled(q, r)
  BY <1>1, <1>2 DEF Settled
<1>4. \A i \in 1..Len(tl) :
        tl[i].op = "exit" => i = Len(tl) /\ tl[i].value = cd
  <2>1. \A i \in 1..Len(q) : q[i].op = "exit" => i = Len(q) /\ q[i].value = cd
    BY DEF Faithful
  <2> SUFFICES ASSUME NEW i \in 1..Len(tl), tl[i].op = "exit"
               PROVE  i = Len(tl) /\ tl[i].value = cd
    OBVIOUS
  <2>2. tl[i] = q[i + 1] /\ i + 1 \in 1..Len(q)
    BY <1>2
  <2>3. i + 1 = Len(q) /\ q[i + 1].value = cd
    BY <2>1, <2>2
  <2> QED BY <1>2, <2>2, <2>3
<1>5. ASSUME NEW s \in Outputs
      PROVE  \E n \in Nat : /\ Relayed(tl, sh[s], s, n)
                            /\ s \in Streams => n = fw[s]
                            /\ s = "marker" /\ h # "closed" => n = 0
                            /\ Settled(tl, r2) => n = pr[s]
  <2>1. PICK n \in Nat : /\ Relayed(q, sh[s], s, n)
                         /\ s \in Streams => n = fw[s]
                         /\ s = "marker" /\ h # "closed" => n = 0
                         /\ Settled(q, r) => n = pr[s]
    BY DEF Faithful
  <2>2. sh[s] \in Seq(Nat) /\ ~IsOutput(Head(q), s)
    BY DEF Faithful, IsOutput
  <2>3. Relayed(tl, sh[s], s, n)
    BY <1>1, <2>1, <2>2, RelayedSkip DEF tl
  <2> QED BY <1>3, <2>1, <2>3
<1> QED BY <1>1, <1>2, <1>3, <1>4, <1>5 DEF Faithful, tl

\* The proxy shows a chunk.
LEMMA FaithfulShow ==
  ASSUME NEW q, NEW h, NEW x, NEW r, NEW c, NEW cd, NEW pr, NEW fw, NEW sh,
         Faithful(q, h, x, r, c, cd, pr, fw, sh), q # << >>, x # "done",
         Head(q).op = "output"
  PROVE  /\ Faithful(Tail(q), h, x, r, c, cd, pr, fw,
                     [sh EXCEPT ![Head(q).stream] = Append(@, Head(q).value)])
         /\ [sh EXCEPT ![Head(q).stream] = Append(@, Head(q).value)] \in [Outputs -> Seq(Nat)]
<1> DEFINE tl == Tail(q)
           f == Head(q)
           t == f.stream
           sh2 == [sh EXCEPT ![t] = Append(@, f.value)]
<1>1. q \in Seq(Frames) /\ r \notin {0, 2}
  BY DEF Faithful
<1>2. /\ tl \in Seq(Frames) /\ Len(q) \in Nat \ {0} /\ Len(tl) = Len(q) - 1
      /\ \A i \in 1..Len(tl) : tl[i] = q[i + 1] /\ i + 1 \in 1..Len(q)
      /\ f \in Frames
  BY <1>1, TailSeq
<1> HIDE DEF tl
<1>3. Settled(tl, r) => Settled(q, r)
  BY <1>1, <1>2 DEF Settled
<1>4. \A i \in 1..Len(tl) :
        tl[i].op = "exit" => i = Len(tl) /\ tl[i].value = cd
  <2>1. \A i \in 1..Len(q) : q[i].op = "exit" => i = Len(q) /\ q[i].value = cd
    BY DEF Faithful
  <2> SUFFICES ASSUME NEW i \in 1..Len(tl), tl[i].op = "exit"
               PROVE  i = Len(tl) /\ tl[i].value = cd
    OBVIOUS
  <2>2. tl[i] = q[i + 1] /\ i + 1 \in 1..Len(q)
    BY <1>2
  <2>3. i + 1 = Len(q) /\ q[i + 1].value = cd
    BY <2>1, <2>2
  <2> QED BY <1>2, <2>2, <2>3
<1>5. t \in Outputs /\ f.value \in Nat
  BY <1>2 DEF Frames
<1>6. sh2 \in [Outputs -> Seq(Nat)] /\ sh2[t] = Append(sh[t], f.value)
  BY <1>5 DEF Faithful
<1>7. ASSUME NEW s \in Outputs
      PROVE  \E n \in Nat : /\ Relayed(tl, sh2[s], s, n)
                            /\ s \in Streams => n = fw[s]
                            /\ s = "marker" /\ h # "closed" => n = 0
                            /\ Settled(tl, r) => n = pr[s]
  <2>1. PICK n \in Nat : /\ Relayed(q, sh[s], s, n)
                         /\ s \in Streams => n = fw[s]
                         /\ s = "marker" /\ h # "closed" => n = 0
                         /\ Settled(q, r) => n = pr[s]
    BY DEF Faithful
  <2>2. sh[s] \in Seq(Nat)
    BY DEF Faithful
  <2>3. Relayed(tl, sh2[s], s, n)
    <3>1. CASE s = t
      <4>1. IsOutput(f, s)
        BY <3>1 DEF IsOutput
      <4>2. Relayed(tl, Append(sh[s], f.value), s, n)
        BY <1>1, <2>1, <2>2, <4>1, RelayedShow DEF tl
      <4> QED BY <1>6, <3>1, <4>2
    <3>2. CASE s # t
      <4>1. ~IsOutput(f, s)
        BY <3>2 DEF IsOutput
      <4>2. Relayed(tl, sh[s], s, n)
        BY <1>1, <2>1, <2>2, <4>1, RelayedSkip DEF tl
      <4>3. sh2[s] = sh[s]
        BY <3>2 DEF Faithful
      <4> QED BY <4>2, <4>3
    <3> QED BY <3>1, <3>2
  <2> QED BY <1>3, <2>1, <2>3
<1> HIDE DEF sh2
<1>8. Faithful(tl, h, x, r, c, cd, pr, fw, sh2)
  BY <1>1, <1>2, <1>3, <1>4, <1>6, <1>7 DEF Faithful
<1> QED BY <1>6, <1>8 DEF sh2, tl

\* The proxy ends with the code of the exit frame.
LEMMA FaithfulEnd ==
  ASSUME NEW q, NEW h, NEW x, NEW r, NEW c, NEW cd, NEW pr, NEW fw, NEW sh,
         Faithful(q, h, x, r, c, cd, pr, fw, sh), q # << >>, x # "done",
         Head(q).op = "exit"
  PROVE  Faithful(Tail(q), h, "done", Head(q).value, c, cd, pr, fw, sh)
<1> DEFINE tl == Tail(q)
<1>1. q \in Seq(Frames) /\ r \notin {0, 2}
  BY DEF Faithful
<1>2. /\ tl \in Seq(Frames) /\ Len(q) \in Nat \ {0} /\ Len(tl) = Len(q) - 1
      /\ Head(q) = q[1]
  BY <1>1, TailSeq
<1> HIDE DEF tl
<1>3. Len(q) = 1 /\ q[1].value = cd /\ q[1].op = "exit" /\ Settled(q, r)
  <2>1. \A i \in 1..Len(q) : q[i].op = "exit" => i = Len(q) /\ q[i].value = cd
    BY DEF Faithful
  <2>2. 1 \in 1..Len(q) /\ q[1].op = "exit"
    BY <1>2
  <2>3. 1 = Len(q) /\ q[1].value = cd
    BY <2>1, <2>2
  <2> QED BY <2>2, <2>3 DEF Settled
<1>4. ASSUME NEW s \in Outputs
      PROVE  /\ Relayed(tl, sh[s], s, pr[s])
             /\ pr[s] \in Nat /\ Len(sh[s]) = pr[s]
             /\ s \in Streams => pr[s] = fw[s]
  <2>1. PICK n \in Nat : /\ Relayed(q, sh[s], s, n)
                         /\ s \in Streams => n = fw[s]
                         /\ n = pr[s]
    BY <1>3 DEF Faithful
  <2>2. sh[s] \in Seq(Nat) /\ ~IsOutput(Head(q), s)
    BY DEF Faithful, IsOutput
  <2>3. Relayed(tl, sh[s], s, n)
    BY <1>1, <2>1, <2>2, RelayedSkip DEF tl
  <2>4. Len(sh[s]) \in Nat /\ Len(sh[s]) <= n /\ Len(tl) = 0
    BY <1>2, <1>3, <2>2, <2>3, LenProperties DEF Relayed
  <2>5. ~(Len(sh[s]) + 1 <= n)
    <3>1. \A k \in Len(sh[s]) + 1..n : \E i \in 1..Len(tl) : TRUE
      BY <2>3 DEF Relayed
    <3>2. 1..Len(tl) = {}
      BY ONLY <2>4
    <3>3. Len(sh[s]) + 1 \notin Len(sh[s]) + 1..n
      BY ONLY <3>1, <3>2
    <3> QED BY <2>4, <3>3
  <2> QED BY <2>1, <2>3, <2>4, <2>5
<1>5. h = "closed" /\ c = "reaped"
  BY <1>3 DEF Faithful
<1>6. \A i \in 1..Len(tl) : FALSE
  <2>1. Len(tl) = 0
    BY <1>2, <1>3
  <2> QED BY ONLY <2>1
<1>7. \A s \in Outputs : \E n \in Nat :
        /\ Relayed(tl, sh[s], s, n)
        /\ s \in Streams => n = fw[s]
        /\ s = "marker" /\ h # "closed" => n = 0
        /\ n = pr[s]
  BY <1>4, <1>5
<1>8. \A s \in Outputs : Len(sh[s]) = pr[s]
  BY <1>4
<1> QED BY <1>2, <1>3, <1>5, <1>6, <1>7, <1>8 DEF Faithful, tl

\* A step of one simulator leaves the state of the others alone.
Only(p) ==
  \A q \in Procs \ {p} :
    /\ toProxy'[q] = toProxy[q] /\ handler'[q] = handler[q] /\ proxy'[q] = proxy[q]
    /\ result'[q] = result[q] /\ child'[q] = child[q] /\ code'[q] = code[q]
    /\ produced'[q] = produced[q] /\ forwarded'[q] = forwarded[q] /\ shown'[q] = shown[q]

LEMMA OutputAt ==
  ASSUME OutputInv, HandInv', OutputType', NEW p \in Procs, Only(p), FaithfulAt(p)'
  PROVE  OutputInv'
<1>1. ASSUME NEW q \in Procs, q # p PROVE FaithfulAt(q)'
  <2>1. FaithfulAt(q)
    BY DEF OutputInv
  <2> QED BY <1>1, <2>1 DEF Only, FaithfulAt
<1> QED BY <1>1 DEF OutputInv

\* What the handler, the proxy and the child do between two frames.
QuietAt(p) ==
  /\ UNCHANGED <<toProxy, forwarded, shown>>
  /\ handler[p] = "closed" =>
       /\ handler'[p] = "closed"
       /\ child[p] = "reaped" =>
            child'[p] = "reaped" /\ code'[p] = code[p] /\ produced'[p] = produced[p]
  /\ result'[p] \in {0, 2} => result'[p] = result[p] /\ proxy'[p] = proxy[p]

LEMMA OutputQuiet ==
  ASSUME OutputInv, HandInv', OutputType', NEW p \in Procs, QuietAt(p)
  PROVE  FaithfulAt(p)'
<1>1. FaithfulAt(p)
  BY DEF OutputInv
<1>2. Settled(toProxy[p], result[p]) => handler[p] = "closed" /\ child[p] = "reaped"
  BY <1>1 DEF FaithfulAt, Faithful
<1>3. /\ handler'[p] \in HandlerStates /\ code'[p] \in Int
      /\ produced'[p] \in [Outputs -> Nat]
  BY DEF HandInv, OutputType
<1>4. Faithful(toProxy[p], handler[p], proxy[p], result[p], child[p], code[p],
               produced[p], forwarded[p], shown[p])
  BY <1>1 DEF FaithfulAt
<1>5. Faithful(toProxy[p], handler'[p], proxy'[p], result'[p], child'[p], code'[p],
               produced'[p], forwarded[p], shown[p])
  BY <1>2, <1>3, <1>4, FaithfulQuiet DEF QuietAt
<1> QED BY <1>5 DEF FaithfulAt, QuietAt

LEMMA OutputStep == OutputInv /\ [Next]_vars => OutputInv'
<1> SUFFICES ASSUME OutputInv, [Next]_vars PROVE OutputInv'
  OBVIOUS
<1>0. /\ HandInv' /\ HandInv /\ OutputType
      /\ \A p \in Procs : FaithfulAt(p)
  BY HandStep DEF OutputInv
<1>D. \A p \in Procs : result[p] \in {0, 2} => proxy[p] = "done"
  BY <1>0 DEF FaithfulAt, Faithful
<1>1. CASE UNCHANGED vars \/ Listen
  BY <1>0, <1>1 DEF vars, Listen, fileVars, childVars, OutputInv, OutputType, FaithfulAt
<1>2. CASE WorkerDies
  <2>1. OutputType'
    BY <1>0, <1>2 DEF WorkerDies, childVars, OutputType
  <2>2. \A p \in Procs : QuietAt(p)
    BY <1>0, <1>2 DEF WorkerDies, childVars, QuietAt
  <2> QED BY <1>0, <2>1, <2>2, OutputQuiet DEF OutputInv
<1>3. ASSUME NEW p \in Procs,
             \/ Connect(p) \/ ConnectTimeout(p) \/ ProxyEof(p) \/ ProxyStdin(p) \/ ProxyDies(p)
      PROVE  OutputInv'
  <2>1. OutputType'
    BY <1>0, <1>3 DEF Connect, ConnectTimeout, ProxyEof, ProxyStdin, ProxyDies, ProxyEnds,
       Failed, Signalled, fileVars, childVars, OutputType
  <2>2. QuietAt(p)
    BY <1>0, <1>3, <1>D DEF Connect, ConnectTimeout, ProxyEof, ProxyStdin, ProxyDies, ProxyEnds,
       Failed, Signalled, fileVars, childVars, QuietAt, HandInv, OutputType
  <2>3. Only(p)
    BY <1>0, <1>3 DEF Connect, ConnectTimeout, ProxyEof, ProxyStdin, ProxyDies, ProxyEnds,
       Failed, Signalled, fileVars, childVars, Only, HandInv, OutputType
  <2> QED BY <1>0, <2>1, <2>2, <2>3, OutputQuiet, OutputAt
<1>4. ASSUME NEW p \in Procs,
             \/ MakeWorkdir(p) \/ AssetPresent(p) \/ AssetCopy(p) \/ AssetCopied(p)
             \/ LoopExit(p) \/ LoopStdin(p) \/ Drained(p) \/ LoopEof(p)
      PROVE  OutputInv'
  <2>1. OutputType'
    BY <1>0, <1>4 DEF MakeWorkdir, AssetPresent, AssetCopy, AssetCopied, LoopExit, LoopStdin,
       Drained, LoopEof, fileVars, childVars, OutputType
  <2>2. QuietAt(p)
    BY <1>0, <1>4 DEF MakeWorkdir, AssetPresent, AssetCopy, AssetCopied, LoopExit, LoopStdin,
       Drained, LoopEof, fileVars, childVars, QuietAt, HandInv, OutputType
  <2>3. Only(p)
    BY <1>0, <1>4 DEF MakeWorkdir, AssetPresent, AssetCopy, AssetCopied, LoopExit, LoopStdin,
       Drained, LoopEof, fileVars, childVars, Only, HandInv, OutputType
  <2> QED BY <1>0, <2>1, <2>2, <2>3, OutputQuiet, OutputAt
<1>5. ASSUME NEW p \in Procs,
             \/ Reap(p) \/ ChildExit(p) \/ ChildTerminated(p)
             \/ (\E s \in Outputs : ChildWrite(p, s))
      PROVE  OutputInv'
  <2>1. OutputType'
    <3>1. CASE Reap(p)
      BY <1>0, <3>1 DEF Reap, OutputType
    <3>3. ASSUME NEW c \in Int, ChildEnds(p, c) PROVE OutputType'
      BY <1>0, <3>3 DEF ChildEnds, OutputType
    <3>4. CASE ChildExit(p) \/ ChildTerminated(p)
      <4>1. \E c \in Int : ChildEnds(p, c)
        BY <3>4 DEF ChildExit, ChildTerminated, Signalled
      <4> QED BY <3>3, <4>1
    <3>2. ASSUME NEW s \in Outputs, ChildWrite(p, s) PROVE OutputType'
      <4>1. produced' = [produced EXCEPT ![p][s] = @ + 1]
        BY <3>2 DEF ChildWrite
      <4>2. produced' \in [Procs -> [Outputs -> Nat]]
        BY <1>0, <4>1 DEF OutputType
      <4> QED BY <1>0, <3>2, <4>2 DEF ChildWrite, OutputType
    <3> QED BY <1>5, <3>1, <3>2, <3>4
  <2>2. QuietAt(p)
    BY <1>0, <1>5 DEF Reap, ChildExit, ChildTerminated, ChildEnds, ChildWrite,
       fileVars, childVars, QuietAt, HandInv, OutputType
  <2>3. Only(p)
    BY <1>0, <1>5 DEF Reap, ChildExit, ChildTerminated, ChildEnds, ChildWrite,
       fileVars, childVars, Only, HandInv, OutputType
  <2> QED BY <1>0, <2>1, <2>2, <2>3, OutputQuiet, OutputAt
<1>6. ASSUME NEW p \in Procs,
             \/ RejectSpawn(p) \/ AssetFailed(p) \/ SetupFailed(p) \/ Launch(p)
             \/ LaunchCutOff(p) \/ LoopStdinBroken(p)
      PROVE  OutputInv'
  <2>1. PICK fs \in {<<Frame("error")>>, <<Frame("diagnostic"), Frame("started")>>} :
          toProxy' = [toProxy EXCEPT ![p] = @ \o fs]
    BY <1>6 DEF RejectSpawn, AssetFailed, SetupFailed, Launch, LaunchCutOff, LoopStdinBroken,
       Refuse, Sends
  <2>2. /\ fs \in Seq(Frames)
        /\ \A i \in 1..Len(fs) : fs[i].op \notin {"output", "exit"}
    <3>1. /\ Frame("error") \in Frames /\ Frame("error").op = "error"
          /\ Frame("diagnostic") \in Frames /\ Frame("diagnostic").op = "diagnostic"
          /\ Frame("started") \in Frames /\ Frame("started").op = "started"
      <4>1. \A o : Frame(o).op = o /\ Frame(o) = [op |-> o, stream |-> "", value |-> 0]
        BY DEF Frame
      <4>2. "" \in {""} /\ 0 \in Int
        OBVIOUS
      <4>3. \A o \in {"diagnostic", "started", "error", "exit"} : Frame(o) \in Frames
        BY ONLY <4>1, <4>2, ControlFrame, Zenon
      <4> QED BY <4>1, <4>3, Zenon
    <3>2. CASE fs = <<Frame("error")>>
      BY <3>1, <3>2
    <3>3. CASE fs = <<Frame("diagnostic"), Frame("started")>>
      BY <3>1, <3>3
    <3> QED BY <2>1, <3>2, <3>3
  <2>3. /\ handler[p] # "closed"
        /\ UNCHANGED <<proxy, result, produced, forwarded, shown>>
    BY <1>6 DEF RejectSpawn, AssetFailed, SetupFailed, Launch, LaunchCutOff, LoopStdinBroken,
       Refuse, fileVars, childVars
  <2>4. /\ child' \in [Procs -> {"none", "running", "exited", "reaped"}]
        /\ code' \in [Procs -> Int]
        /\ \A q \in Procs \ {p} : /\ handler'[q] = handler[q] /\ child'[q] = child[q]
                                  /\ code'[q] = code[q]
    <3>1. CASE RejectSpawn(p) \/ AssetFailed(p) \/ SetupFailed(p)
      BY <1>0, <3>1 DEF RejectSpawn, AssetFailed, SetupFailed, Refuse, childVars, OutputType,
         HandInv
    <3>2. CASE Launch(p)
      BY <1>0, <3>2 DEF Launch, OutputType, HandInv
    <3>3. CASE LoopStdinBroken(p)
      BY <1>0, <3>3 DEF LoopStdinBroken, Refuse, OutputType, HandInv
    <3>4. CASE LaunchCutOff(p)
      <4>1. /\ code' = [code EXCEPT ![p] = 15] /\ child' = [child EXCEPT ![p] = "reaped"]
            /\ handler' = [handler EXCEPT ![p] = "closed"]
        BY <3>4 DEF LaunchCutOff, Refuse, Signalled
      <4> QED BY <1>0, <4>1 DEF OutputType, HandInv
    <3> QED BY <1>6, <3>1, <3>2, <3>3, <3>4
  <2>5. /\ toProxy[p] \o fs \in Seq(Frames)
        /\ toProxy' \in [Procs -> Seq(Frames)] /\ toProxy'[p] = toProxy[p] \o fs
        /\ \A q \in Procs \ {p} : toProxy'[q] = toProxy[q]
    <3>1. toProxy[p] \in Seq(Frames) /\ toProxy \in [Procs -> Seq(Frames)]
      BY <1>0 DEF OutputType
    <3>2. toProxy[p] \o fs \in Seq(Frames)
      BY <2>2, <3>1, ConcatSeq
    <3> QED BY <2>1, <3>1, <3>2
  <2>6. OutputType' /\ Only(p)
    BY <1>0, <2>3, <2>4, <2>5 DEF OutputType, Only
  <2>7. FaithfulAt(p)'
    <3>1. Faithful(toProxy[p], handler[p], proxy[p], result[p], child[p], code[p],
                   produced[p], forwarded[p], shown[p])
      BY <1>0 DEF FaithfulAt
    <3>2. handler'[p] \in HandlerStates /\ code'[p] \in Int
      BY <1>0, <2>4 DEF HandInv
    <3>3. Faithful(toProxy[p] \o fs, handler'[p], proxy[p], result[p], child'[p], code'[p],
                   produced[p], forwarded[p], shown[p])
      BY <2>2, <2>3, <3>1, <3>2, FaithfulSend
    <3> QED BY <2>3, <2>5, <3>3 DEF FaithfulAt
  <2> QED BY <1>0, <2>6, <2>7, OutputAt
<1>7. ASSUME NEW p \in Procs, NEW s \in Streams, ForwardStream(p, s)
      PROVE  OutputInv'
  <2> DEFINE fs == <<Output(s, forwarded[p][s] + 1)>>
             fw == [forwarded[p] EXCEPT ![s] = @ + 1]
  <2>1. /\ toProxy' = [toProxy EXCEPT ![p] = @ \o fs]
        /\ forwarded' = [forwarded EXCEPT ![p][s] = @ + 1]
        /\ handler[p] # "closed"
        /\ UNCHANGED <<handler, proxy, result, child, code, produced, shown>>
    BY <1>7 DEF ForwardStream, Sends, childVars
  <2>2. Faithful(toProxy[p], handler[p], proxy[p], result[p], child[p], code[p],
                 produced[p], forwarded[p], shown[p])
    BY <1>0 DEF FaithfulAt
  <2>3. Faithful(toProxy[p] \o fs, handler[p], proxy[p], result[p], child[p], code[p],
                 produced[p], fw, shown[p])
    BY <2>1, <2>2, FaithfulForward
  <2> HIDE DEF fs
  <2>4. toProxy[p] \o fs \in Seq(Frames) /\ fw \in [Streams -> Nat]
    BY <2>3 DEF Faithful
  <2>5. forwarded' = [forwarded EXCEPT ![p] = fw]
    BY <2>1
  <2> HIDE DEF fw
  <2>6. /\ toProxy' \in [Procs -> Seq(Frames)] /\ toProxy'[p] = toProxy[p] \o fs
        /\ \A q \in Procs \ {p} : toProxy'[q] = toProxy[q]
        /\ forwarded' \in [Procs -> [Streams -> Nat]] /\ forwarded'[p] = fw
        /\ \A q \in Procs \ {p} : forwarded'[q] = forwarded[q]
    BY <1>0, <2>1, <2>4, <2>5 DEF OutputType
  <2>7. OutputType' /\ Only(p)
    BY <1>0, <2>1, <2>6 DEF OutputType, Only
  <2>8. FaithfulAt(p)'
    BY <2>1, <2>3, <2>6 DEF FaithfulAt
  <2> QED BY <1>0, <2>7, <2>8, OutputAt
<1>8. ASSUME NEW p \in Procs, SendExit(p)
      PROVE  OutputInv'
  <2> DEFINE fs == Marker(p) \o <<ExitFrame(code[p])>>
  <2>1. /\ toProxy' = [toProxy EXCEPT ![p] = @ \o fs]
        /\ handler' = [handler EXCEPT ![p] = "closed"]
        /\ handler[p] # "closed" /\ child[p] = "reaped"
        /\ \A s \in Streams : forwarded[p][s] = produced[p][s]
        /\ UNCHANGED <<proxy, result, child, code, produced, forwarded, shown>>
    BY <1>8 DEF SendExit, Sends, childVars
  <2>2. Faithful(toProxy[p], handler[p], proxy[p], result[p], child[p], code[p],
                 produced[p], forwarded[p], shown[p])
    BY <1>0 DEF FaithfulAt
  <2>3. Faithful(toProxy[p] \o fs, "closed", proxy[p], result[p], child[p], code[p],
                 produced[p], forwarded[p], shown[p])
    BY <2>1, <2>2, FaithfulExit DEF Marker
  <2> HIDE DEF fs
  <2>4. toProxy[p] \o fs \in Seq(Frames)
    BY <2>3 DEF Faithful
  <2>5. /\ toProxy' \in [Procs -> Seq(Frames)] /\ toProxy'[p] = toProxy[p] \o fs
        /\ \A q \in Procs \ {p} : toProxy'[q] = toProxy[q]
        /\ handler'[p] = "closed"
        /\ \A q \in Procs \ {p} : handler'[q] = handler[q]
    BY <1>0, <2>1, <2>4 DEF OutputType, HandInv
  <2>6. OutputType' /\ Only(p)
    BY <1>0, <2>1, <2>5 DEF OutputType, Only
  <2>7. FaithfulAt(p)'
    BY <2>1, <2>3, <2>5 DEF FaithfulAt
  <2> QED BY <1>0, <2>6, <2>7, OutputAt
<1>9. ASSUME NEW p \in Procs, ProxyRead(p)
      PROVE  OutputInv'
  <2> DEFINE f == Head(toProxy[p])
             sh == [shown[p] EXCEPT ![f.stream] = Append(@, f.value)]
  <2>1. /\ toProxy' = [toProxy EXCEPT ![p] = Tail(@)]
        /\ toProxy[p] # << >> /\ proxy[p] # "done"
        /\ UNCHANGED <<handler, child, code, produced, forwarded>>
    BY <1>9 DEF ProxyRead, childVars
  <2>2. Faithful(toProxy[p], handler[p], proxy[p], result[p], child[p], code[p],
                 produced[p], forwarded[p], shown[p])
    BY <1>0 DEF FaithfulAt
  <2>3. /\ toProxy \in [Procs -> Seq(Frames)] /\ toProxy[p] \in Seq(Frames)
        /\ f \in Frames /\ Tail(toProxy[p]) \in Seq(Frames)
    BY <1>0, <2>1, TailSeq DEF OutputType
  <2>4. /\ toProxy' \in [Procs -> Seq(Frames)] /\ toProxy'[p] = Tail(toProxy[p])
        /\ \A q \in Procs \ {p} : toProxy'[q] = toProxy[q]
    BY <2>1, <2>3
  <2>5. CASE f.op = "output"
    <3>1. /\ shown' = [shown EXCEPT ![p][f.stream] = Append(@, f.value)]
          /\ UNCHANGED <<proxy, result>>
      BY <1>9, <2>5 DEF ProxyRead
    <3>2. /\ Faithful(Tail(toProxy[p]), handler[p], proxy[p], result[p], child[p], code[p],
                      produced[p], forwarded[p], sh)
          /\ sh \in [Outputs -> Seq(Nat)]
      BY <2>1, <2>2, <2>5, FaithfulShow
    <3>3. shown' = [shown EXCEPT ![p] = sh]
      BY <3>1
    <3> HIDE DEF sh
    <3>4. /\ shown' \in [Procs -> [Outputs -> Seq(Nat)]] /\ shown'[p] = sh
          /\ \A q \in Procs \ {p} : shown'[q] = shown[q]
      BY <1>0, <3>2, <3>3 DEF OutputType
    <3>5. OutputType' /\ Only(p)
      BY <1>0, <2>1, <2>4, <3>1, <3>4 DEF OutputType, Only
    <3>6. FaithfulAt(p)'
      BY <2>1, <2>4, <3>1, <3>2, <3>4 DEF FaithfulAt
    <3> QED BY <1>0, <3>5, <3>6, OutputAt
  <2>6. CASE f.op = "exit"
    <3>1. /\ proxy' = [proxy EXCEPT ![p] = "done"]
          /\ result' = [result EXCEPT ![p] = f.value]
          /\ UNCHANGED shown
      BY <1>9, <2>6 DEF ProxyRead, ProxyEnds
    <3>2. Faithful(Tail(toProxy[p]), handler[p], "done", f.value, child[p], code[p],
                   produced[p], forwarded[p], shown[p])
      BY <2>1, <2>2, <2>6, FaithfulEnd
    <3>3. f.value \in Int
      <4>1. f \in [op : {"diagnostic", "started", "error", "exit"}, stream : {""}, value : Int]
        BY <2>3, <2>6 DEF Frames
      <4> QED BY <4>1
    <3> HIDE DEF f
    <3>4. /\ result' \in [Procs -> Int] /\ result'[p] = f.value /\ proxy'[p] = "done"
          /\ \A q \in Procs \ {p} : result'[q] = result[q] /\ proxy'[q] = proxy[q]
      BY <1>0, <3>1, <3>3 DEF OutputType, HandInv
    <3>5. OutputType' /\ Only(p)
      BY <1>0, <2>1, <2>4, <3>1, <3>4 DEF OutputType, Only
    <3>6. FaithfulAt(p)'
      BY <2>1, <2>4, <3>1, <3>2, <3>4 DEF FaithfulAt
    <3> QED BY <1>0, <3>5, <3>6, OutputAt
  <2>7. CASE f.op \notin {"output", "exit"}
    <3>1. /\ UNCHANGED shown
          /\ \/ UNCHANGED <<proxy, result>>
             \/ proxy' = [proxy EXCEPT ![p] = "running"] /\ UNCHANGED result
             \/ /\ proxy' = [proxy EXCEPT ![p] = "done"]
                /\ result' = [result EXCEPT ![p] = Failed]
      BY <1>9, <2>7 DEF ProxyRead, ProxyEnds
    <3>2. /\ result' \in [Procs -> Int]
          /\ \A q \in Procs \ {p} : result'[q] = result[q] /\ proxy'[q] = proxy[q]
          /\ result'[p] \notin {0, 2} \/ result'[p] = result[p]
      BY <1>0, <3>1 DEF OutputType, HandInv, Failed
    <3>3. Faithful(Tail(toProxy[p]), handler[p], proxy'[p], result'[p], child[p], code[p],
                   produced[p], forwarded[p], shown[p])
      BY <2>1, <2>2, <2>7, <3>2, FaithfulSkip
    <3>5. OutputType' /\ Only(p)
      BY <1>0, <2>1, <2>4, <3>1, <3>2 DEF OutputType, Only
    <3>6. FaithfulAt(p)'
      BY <2>1, <2>4, <3>1, <3>3 DEF FaithfulAt
    <3> QED BY <1>0, <3>5, <3>6, OutputAt
  <2> QED BY <2>5, <2>6, <2>7
<1> QED
  BY <1>1, <1>2, <1>3, <1>4, <1>5, <1>6, <1>7, <1>8, <1>9 DEF Next, ProxyStep, HandlerStep

LEMMA OutputInit == Init => OutputInv
<1> SUFFICES ASSUME Init PROVE OutputInv
  OBVIOUS
<1>1. << >> \in Seq(Frames) /\ << >> \in Seq(Nat) /\ Len(<< >>) = 0
  OBVIOUS
<1>2. OutputType
  BY <1>1 DEF Init, OutputType, None
<1>3. ASSUME NEW p \in Procs PROVE FaithfulAt(p)
  <2>1. /\ toProxy[p] = << >> /\ handler[p] = "none" /\ result[p] = -1 /\ code[p] = -1
        /\ produced[p] = [s \in Outputs |-> 0] /\ forwarded[p] = [s \in Streams |-> 0]
        /\ shown[p] = [s \in Outputs |-> << >>]
    BY DEF Init, None
  <2>2. \A s : Relayed(<< >>, << >>, s, 0)
    BY <1>1 DEF Relayed
  <2>3. ~Settled(<< >>, -1)
    BY <1>1 DEF Settled
  <2>4. \A s \in Outputs : s \in Streams => forwarded[p][s] = 0
    BY <2>1
  <2>5. \A s \in Outputs : \E n \in Nat :
          /\ Relayed(toProxy[p], shown[p][s], s, n)
          /\ s \in Streams => n = forwarded[p][s]
          /\ n = 0
    BY <2>1, <2>2, <2>4
  <2> QED BY <1>1, <2>1, <2>3, <2>5 DEF FaithfulAt, Faithful, HandlerStates
<1> QED BY <1>2, <1>3, HandInit DEF OutputInv

\* A proxy that ends with the code of its simulator has shown all of the
\* output and the result marker, in order, and the code is the right one:
\* for any number of simulators and chunks, although output and exit travel
\* through three coroutines of the worker (worker.py:71-77, 242-290) and
\* either end may die (process_proxy.py:137-199).
THEOREM OutputIsFaithful == Spec => []OutputFaithful
<1>1. OutputInv => OutputFaithful
  <2> SUFFICES ASSUME OutputInv, NEW p \in Procs, NEW s \in Outputs
               PROVE  /\ \A k \in 1..Len(shown[p][s]) : shown[p][s][k] = k
                      /\ result[p] \in {0, 2} =>
                           Len(shown[p][s]) = produced[p][s] /\ result[p] = code[p]
    BY DEF OutputFaithful
  <2>1. FaithfulAt(p)
    BY DEF OutputInv
  <2>2. \E n \in Nat : Relayed(toProxy[p], shown[p][s], s, n)
    BY <2>1 DEF FaithfulAt, Faithful
  <2>3. \A k \in 1..Len(shown[p][s]) : shown[p][s][k] = k
    BY <2>2 DEF Relayed
  <2> QED BY <2>1, <2>3 DEF FaithfulAt, Faithful
<1> QED BY <1>1, OutputInit, OutputStep, PTL DEF Spec
=============================================================================
