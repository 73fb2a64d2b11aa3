--------------------------- MODULE WorkerProtocol ---------------------------
(***************************************************************************)
(* One coordinator-side proxy per simulator (real/process_proxy.py) and    *)
(* the worker that runs the simulators (real/worker.py).  A proxy retries  *)
(* its connection until the worker listens, sends one spawn frame, and     *)
(* relays output frames until an exit or an error frame; the worker serves *)
(* every connection with a coroutine of its own.  The coroutines share the *)
(* run directory, in which work directories and input assets are made.     *)
(*                                                                         *)
(* The commands, environments and bytes are left out: a chunk of output is *)
(* its number in its stream.  The result marker, a file that a simulator   *)
(* may leave in its work directory, is a third stream of one chunk.        *)
(***************************************************************************)
EXTENDS Integers, Sequences, FiniteSets

CONSTANTS
  Procs,        \* simulators, each with its proxy
  processId,    \* processId[p]: process_id of the YAML entry (may repeat)
  MaxChunks,    \* bound: output chunks per simulator
  MaxStdin,     \* bound: stdin frames per proxy
  CopyFaults,   \* what a failing cp may leave behind: subset of {"absent", "partial"}
  MayFail       \* what may go wrong otherwise: proxies or the worker die, a
                \* spawn is refused, a simulator leaves its stdin unread

ASSUME WorkerAssumption ==
  /\ MaxChunks \in Nat /\ MaxStdin \in Nat
  /\ IsFiniteSet(Procs) /\ "free" \notin Procs
  /\ DOMAIN processId = Procs
  /\ CopyFaults \subseteq {"absent", "partial"}
  /\ MayFail \subseteq {"proxy", "worker", "reject", "unread"}

VARIABLES
  workerUp,   \* "no" (not yet listening), "yes", "dead"
  proxy,      \* proxy[p]: connecting, waiting (for started), running, done
  result,     \* result[p]: the exit code the proxy ends with
  stdin,      \* stdin[p]: stdin frames sent
  toWorker,   \* toWorker[p]: frames not yet read by the worker
  toProxy,    \* toProxy[p]: frames not yet read by the proxy
  handler,    \* handler[p]: where the coroutine of the connection is
  workdir,    \* workdir[p]: the work directory, << >> before it is made
  dirs,       \* directories that exist in the run root
  asset,      \* the shared input asset in the run root: absent, copying, partial
              \* (left by a cp that failed), complete
  lock,       \* holder of SHARED_ASSET_LOCK, or "free"
  child,      \* child[p]: none, running, exited (a zombie), reaped
  code,       \* code[p]: its exit code
  started,    \* started[p]: state of the asset when the child was started
  terminated, \* children that were sent SIGTERM
  produced,   \* produced[p][s]: chunks the child has written to output s
  forwarded,  \* forwarded[p][s]: chunks forward_stream has sent
  shown       \* shown[p][s]: chunks the proxy has written, in order

fileVars == <<workdir, dirs, asset, lock>>
childVars == <<child, code, started, terminated, produced>>
vars == <<workerUp, proxy, result, stdin, toWorker, toProxy, handler, workdir,
          dirs, asset, lock, child, code, started, terminated, produced,
          forwarded, shown>>

Streams == {"stdout", "stderr"}
Outputs == Streams \cup {"marker"}
Frame(op) == [op |-> op, stream |-> "", value |-> 0]
Output(s, k) == [op |-> "output", stream |-> s, value |-> k]
ExitFrame(c) == [op |-> "exit", stream |-> "", value |-> c]
None == -1            \* no exit code yet
Failed == 1           \* the proxy's own failure code
Signalled == 15       \* code of a child ended by SIGTERM or SIGKILL

Init ==
  /\ workerUp = "no"
  /\ proxy = [p \in Procs |-> "connecting"]
  /\ result = [p \in Procs |-> None]
  /\ stdin = [p \in Procs |-> 0]
  /\ toWorker = [p \in Procs |-> << >>]
  /\ toProxy = [p \in Procs |-> << >>]
  /\ handler = [p \in Procs |-> "none"]
  /\ workdir = [p \in Procs |-> << >>]
  /\ dirs = {}
  /\ asset = "absent"
  /\ lock = "free"
  /\ child = [p \in Procs |-> "none"]
  /\ code = [p \in Procs |-> None]
  /\ started = [p \in Procs |-> "absent"]
  /\ terminated = {}
  /\ produced = [p \in Procs |-> [s \in Outputs |-> 0]]
  /\ forwarded = [p \in Procs |-> [s \in Streams |-> 0]]
  /\ shown = [p \in Procs |-> [s \in Outputs |-> << >>]]

-----------------------------------------------------------------------------
(* The proxy.                                                              *)

\* create_connection succeeds and the spawn frame is sent.
Connect(p) ==
  /\ proxy[p] = "connecting" /\ workerUp = "yes"
  /\ proxy' = [proxy EXCEPT ![p] = "waiting"]
  /\ handler' = [handler EXCEPT ![p] = "accepted"]
  /\ toWorker' = [toWorker EXCEPT ![p] = <<Frame("spawn")>>]
  /\ UNCHANGED <<workerUp, result, stdin, toProxy, fileVars, childVars,
                 forwarded, shown>>

ProxyEnds(p, c) ==
  /\ proxy' = [proxy EXCEPT ![p] = "done"]
  /\ result' = [result EXCEPT ![p] = c]

\* The worker did not listen before the deadline.
ConnectTimeout(p) ==
  /\ proxy[p] = "connecting" /\ workerUp # "yes"
  /\ ProxyEnds(p, Failed)
  /\ UNCHANGED <<workerUp, stdin, toWorker, toProxy, handler, fileVars,
                 childVars, forwarded, shown>>

\* One readline in the loop that waits for started, or in the relay loop.
ProxyRead(p) ==
  /\ proxy[p] \in {"waiting", "running"} /\ toProxy[p] # << >>
  /\ toProxy' = [toProxy EXCEPT ![p] = Tail(@)]
  /\ LET f == Head(toProxy[p])
     IN  \/ /\ f.op = "diagnostic"
            /\ UNCHANGED <<proxy, result, shown>>
         \/ /\ f.op = "started" /\ proxy[p] = "waiting"
            /\ proxy' = [proxy EXCEPT ![p] = "running"]
            /\ UNCHANGED <<result, shown>>
         \/ /\ f.op = "output" /\ proxy[p] = "running"
            /\ shown' = [shown EXCEPT ![p][f.stream] = Append(@, f.value)]
            /\ UNCHANGED <<proxy, result>>
         \/ /\ f.op = "exit" /\ proxy[p] = "running"
            /\ ProxyEnds(p, f.value)
            /\ UNCHANGED shown
         \/ /\ f.op = "error"
            /\ ProxyEnds(p, Failed)
            /\ UNCHANGED shown
  /\ UNCHANGED <<workerUp, stdin, toWorker, handler, fileVars, childVars,
                 forwarded>>

\* Mutant: an empty line is taken for an empty frame and skipped.
ProxyEof_Ignore(p) == FALSE

\* readline returns nothing: json.loads raises.
ProxyEof(p) ==
  /\ proxy[p] \in {"waiting", "running"} /\ toProxy[p] = << >>
  /\ handler[p] = "closed"
  /\ ProxyEnds(p, Failed)
  /\ UNCHANGED <<workerUp, stdin, toWorker, toProxy, handler, fileVars,
                 childVars, forwarded, shown>>

\* The forward_stdin thread passes on what the coordinator writes, until the
\* connection is closed at the other end.
ProxyStdin(p) ==
  /\ proxy[p] = "running" /\ stdin[p] < MaxStdin /\ handler[p] # "closed"
  /\ stdin' = [stdin EXCEPT ![p] = @ + 1]
  /\ toWorker' = [toWorker EXCEPT ![p] = Append(@, Frame("stdin"))]
  /\ UNCHANGED <<workerUp, proxy, result, toProxy, handler, fileVars,
                 childVars, forwarded, shown>>

ProxyDies(p) ==
  /\ "proxy" \in MayFail /\ proxy[p] \in {"waiting", "running"}
  /\ ProxyEnds(p, Signalled)
  /\ UNCHANGED <<workerUp, stdin, toWorker, toProxy, handler, fileVars,
                 childVars, forwarded, shown>>

-----------------------------------------------------------------------------
(* The worker.                                                             *)

Listen ==
  /\ workerUp = "no" /\ workerUp' = "yes"
  /\ UNCHANGED <<proxy, result, stdin, toWorker, toProxy, handler, fileVars,
                 childVars, forwarded, shown>>

\* The supervisor kills the worker; the simulators are not waited for.
WorkerDies ==
  /\ "worker" \in MayFail /\ workerUp = "yes" /\ workerUp' = "dead"
  /\ handler' = [p \in Procs |->
                   IF handler[p] = "none" THEN "none" ELSE "closed"]
  /\ lock' = "free"
  /\ UNCHANGED <<proxy, result, stdin, toWorker, toProxy, workdir, dirs,
                 asset, childVars, forwarded, shown>>

Sends(p, frames) ==
  toProxy' = [toProxy EXCEPT ![p] = @ \o frames]

\* The handler fails before there is a child: error frame, connection closed.
Refuse(p) ==
  /\ handler' = [handler EXCEPT ![p] = "closed"]
  /\ Sends(p, <<Frame("error")>>)

\* A request that does not validate.
RejectSpawn(p) ==
  /\ "reject" \in MayFail /\ handler[p] = "accepted"
  /\ toWorker' = [toWorker EXCEPT ![p] = Tail(@)]
  /\ Refuse(p)
  /\ UNCHANGED <<workerUp, proxy, result, stdin, fileVars, childVars,
                 forwarded, shown>>

\* Mutant: the work directory of an earlier round is used again.
FreshDir_Reuse(p) == <<processId[p], 0>>

\* process_id, process_id-1, process_id-2, ...: the first that is not there.
Suffixes(p) == 0..Cardinality(Procs)
FreshDir(p) ==
  LET free == {k \in Suffixes(p) : <<processId[p], k>> \notin dirs}
  IN  <<processId[p], CHOOSE k \in free : \A j \in free : k <= j>>

\* There is no await between workdir.exists and workdir.mkdir.
MakeWorkdir(p) ==
  /\ handler[p] = "accepted"
  /\ toWorker' = [toWorker EXCEPT ![p] = Tail(@)]
  /\ workdir' = [workdir EXCEPT ![p] = FreshDir(p)]
  /\ dirs' = dirs \cup {FreshDir(p)}
  /\ handler' = [handler EXCEPT ![p] = "asset"]
  /\ UNCHANGED <<workerUp, proxy, result, stdin, toProxy, asset, lock,
                 childVars, forwarded, shown>>

\* SHARED_ASSET_LOCK is taken; a file that exists, whatever is in it, is not
\* copied again.
AssetPresent(p) ==
  /\ handler[p] = "asset" /\ lock = "free" /\ asset # "absent"
  /\ handler' = [handler EXCEPT ![p] = "launch"]
  /\ UNCHANGED <<workerUp, proxy, result, stdin, toWorker, toProxy, fileVars,
                 childVars, forwarded, shown>>

\* Mutant: the check and the copy are not serialized.
AssetCopy_NoLock(p) ==
  /\ handler[p] = "asset" /\ lock = "free" /\ asset = "absent"
  /\ asset' = "copying"
  /\ handler' = [handler EXCEPT ![p] = "copying"]
  /\ UNCHANGED <<workerUp, proxy, result, stdin, toWorker, toProxy, workdir,
                 dirs, lock, childVars, forwarded, shown>>

AssetCopy(p) ==
  /\ handler[p] = "asset" /\ lock = "free" /\ asset = "absent"
  /\ lock' = p /\ asset' = "copying"
  /\ handler' = [handler EXCEPT ![p] = "copying"]
  /\ UNCHANGED <<workerUp, proxy, result, stdin, toWorker, toProxy, workdir,
                 dirs, childVars, forwarded, shown>>

AssetCopied(p) ==
  /\ handler[p] = "copying"
  /\ lock' = "free" /\ asset' = "complete"
  /\ handler' = [handler EXCEPT ![p] = "launch"]
  /\ UNCHANGED <<workerUp, proxy, result, stdin, toWorker, toProxy, workdir,
                 dirs, childVars, forwarded, shown>>

\* Mutant: an error leaves the lock taken.
AssetFailed_KeepLock(p) ==
  /\ handler[p] = "copying"
  /\ asset' \in CopyFaults
  /\ Refuse(p)
  /\ UNCHANGED <<workerUp, proxy, result, stdin, toWorker, workdir, dirs, lock,
                 childVars, forwarded, shown>>

\* cp fails, before or after it created the file.
AssetFailed(p) ==
  /\ handler[p] = "copying"
  /\ lock' = "free" /\ asset' \in CopyFaults
  /\ Refuse(p)
  /\ UNCHANGED <<workerUp, proxy, result, stdin, toWorker, workdir, dirs,
                 childVars, forwarded, shown>>

\* A staged file is refused, pre_copy fails, the GPGPU-Sim limits cannot be
\* set, or the diagnostic cannot be sent because the proxy is gone.
SetupFailed(p) ==
  /\ handler[p] \in {"asset", "launch"}
  /\ "reject" \in MayFail \/ (handler[p] = "launch" /\ proxy[p] = "done")
  /\ Refuse(p)
  /\ UNCHANGED <<workerUp, proxy, result, stdin, toWorker, fileVars,
                 childVars, forwarded, shown>>

Launch(p) ==
  /\ handler[p] = "launch"
  /\ handler' = [handler EXCEPT ![p] = "running"]
  /\ child' = [child EXCEPT ![p] = "running"]
  /\ started' = [started EXCEPT ![p] = asset]
  /\ Sends(p, <<Frame("diagnostic"), Frame("started")>>)
  /\ UNCHANGED <<workerUp, proxy, result, stdin, toWorker, fileVars, code,
                 terminated, produced, forwarded, shown>>

\* The started frame cannot be sent: the new child is killed and waited for.
LaunchCutOff(p) ==
  /\ handler[p] = "launch" /\ proxy[p] = "done"
  /\ Refuse(p)
  /\ child' = [child EXCEPT ![p] = "reaped"]
  /\ code' = [code EXCEPT ![p] = Signalled]
  /\ started' = [started EXCEPT ![p] = asset]
  /\ UNCHANGED <<workerUp, proxy, result, stdin, toWorker, fileVars,
                 terminated, produced, forwarded, shown>>

\* forward_stream reads a chunk and sends it.
ForwardStream(p, s) ==
  /\ handler[p] \in {"running", "drain", "gather"}
  /\ forwarded[p][s] < produced[p][s]
  /\ forwarded' = [forwarded EXCEPT ![p][s] = @ + 1]
  /\ Sends(p, <<Output(s, forwarded[p][s] + 1)>>)
  /\ UNCHANGED <<workerUp, proxy, result, stdin, toWorker, handler, fileVars,
                 childVars, shown>>

\* wait_task: the event loop collects the exit status.
Reap(p) ==
  /\ child[p] = "exited" /\ handler[p] \in {"running", "drain", "gather"}
  /\ child' = [child EXCEPT ![p] = "reaped"]
  /\ UNCHANGED <<workerUp, proxy, result, stdin, toWorker, toProxy, handler,
                 fileVars, code, started, terminated, produced, forwarded,
                 shown>>

\* The loop ends because wait_task is done.
LoopExit(p) ==
  /\ handler[p] = "running" /\ child[p] = "reaped"
  /\ handler' = [handler EXCEPT ![p] = "gather"]
  /\ UNCHANGED <<workerUp, proxy, result, stdin, toWorker, toProxy, fileVars,
                 childVars, forwarded, shown>>

\* A stdin frame is written to the child.  drain waits when the pipe and the
\* writer's buffer are full because the child does not read.
LoopStdin(p) ==
  /\ handler[p] = "running" /\ child[p] \in {"running", "exited"}
  /\ toWorker[p] # << >>
  /\ toWorker' = [toWorker EXCEPT ![p] = Tail(@)]
  /\ \/ UNCHANGED handler
     \/ /\ "unread" \in MayFail /\ child[p] = "running"
        /\ handler' = [handler EXCEPT ![p] = "drain"]
  /\ UNCHANGED <<workerUp, proxy, result, stdin, toProxy, fileVars, childVars,
                 forwarded, shown>>

\* The child has read its stdin at last.
Drained(p) ==
  /\ handler[p] = "drain" /\ child[p] = "running"
  /\ handler' = [handler EXCEPT ![p] = "running"]
  /\ UNCHANGED <<workerUp, proxy, result, stdin, toWorker, toProxy, fileVars,
                 childVars, forwarded, shown>>

\* drain raises because the child has closed its stdin by exiting: the
\* request fails although the child ended by itself.
LoopStdinBroken(p) ==
  /\ \/ /\ handler[p] = "running" /\ child[p] = "exited" /\ toWorker[p] # << >>
        /\ toWorker' = [toWorker EXCEPT ![p] = Tail(@)]
     \/ /\ handler[p] = "drain" /\ child[p] \in {"exited", "reaped"}
        /\ UNCHANGED toWorker
  /\ child' = [child EXCEPT ![p] = "reaped"]
  /\ Refuse(p)
  /\ UNCHANGED <<workerUp, proxy, result, stdin, fileVars, code, started,
                 terminated, produced, forwarded, shown>>

\* Mutant: the loop just ends, the child is left alone.
LoopEof_Leave(p) ==
  /\ handler[p] = "running" /\ child[p] # "reaped"
  /\ toWorker[p] = << >> /\ proxy[p] = "done"
  /\ handler' = [handler EXCEPT ![p] = "gather"]
  /\ UNCHANGED <<workerUp, proxy, result, stdin, toWorker, toProxy, fileVars,
                 childVars, forwarded, shown>>

\* The proxy closed the connection: the child is sent SIGTERM.
LoopEof(p) ==
  /\ handler[p] = "running" /\ child[p] # "reaped"
  /\ toWorker[p] = << >> /\ proxy[p] = "done"
  /\ terminated' = IF child[p] = "running" THEN terminated \cup {p} ELSE terminated
  /\ handler' = [handler EXCEPT ![p] = "gather"]
  /\ UNCHANGED <<workerUp, proxy, result, stdin, toWorker, toProxy, fileVars,
                 child, code, started, produced, forwarded, shown>>

Marker(p) == [k \in 1..produced[p]["marker"] |-> Output("marker", k)]

\* Mutant: the exit frame does not wait for the output tasks.
SendExit_Early(p) ==
  /\ handler[p] = "gather" /\ child[p] = "reaped"
  /\ Sends(p, Marker(p) \o <<ExitFrame(code[p])>>)
  /\ handler' = [handler EXCEPT ![p] = "closed"]
  /\ UNCHANGED <<workerUp, proxy, result, stdin, toWorker, fileVars,
                 childVars, forwarded, shown>>

\* Both streams are at their end; the result marker, if there is one, and
\* the exit frame are sent.
SendExit(p) ==
  /\ handler[p] = "gather" /\ child[p] = "reaped"
  /\ \A s \in Streams : forwarded[p][s] = produced[p][s]
  /\ Sends(p, Marker(p) \o <<ExitFrame(code[p])>>)
  /\ handler' = [handler EXCEPT ![p] = "closed"]
  /\ UNCHANGED <<workerUp, proxy, result, stdin, toWorker, fileVars,
                 childVars, forwarded, shown>>

-----------------------------------------------------------------------------
(* The simulators (external).                                              *)

ChildWrite(p, s) ==
  /\ child[p] = "running"
  /\ produced[p]["stdout"] + produced[p]["stderr"] + produced[p]["marker"] < MaxChunks
  /\ s = "marker" => produced[p]["marker"] = 0
  /\ produced' = [produced EXCEPT ![p][s] = @ + 1]
  /\ UNCHANGED <<workerUp, proxy, result, stdin, toWorker, toProxy, handler,
                 fileVars, child, code, started, terminated, forwarded, shown>>

ChildEnds(p, c) ==
  /\ child[p] = "running"
  /\ child' = [child EXCEPT ![p] = "exited"]
  /\ code' = [code EXCEPT ![p] = c]
  /\ UNCHANGED <<workerUp, proxy, result, stdin, toWorker, toProxy, handler,
                 fileVars, started, terminated, produced, forwarded, shown>>

ChildExit(p) == \E c \in {0, 2} : ChildEnds(p, c)
\* A simulator does not catch SIGTERM.
ChildTerminated(p) == p \in terminated /\ ChildEnds(p, Signalled)

-----------------------------------------------------------------------------
HandlerStep(p) ==
  \/ MakeWorkdir(p) \/ AssetPresent(p) \/ AssetCopy(p)
  \/ AssetCopied(p) \/ AssetFailed(p) \/ Launch(p) \/ Reap(p)
  \/ LaunchCutOff(p) \/ LoopExit(p) \/ LoopStdin(p) \/ LoopStdinBroken(p)
  \/ LoopEof(p) \/ SendExit(p)

ProxyStep(p) == Connect(p) \/ ConnectTimeout(p) \/ ProxyRead(p) \/ ProxyEof(p)

Next ==
  \/ Listen \/ WorkerDies
  \/ \E p \in Procs :
       \/ ProxyStep(p) \/ ProxyStdin(p) \/ ProxyDies(p)
       \/ HandlerStep(p) \/ Drained(p) \/ RejectSpawn(p) \/ SetupFailed(p)
       \/ ChildExit(p) \/ ChildTerminated(p)
       \/ \E s \in Streams : ForwardStream(p, s)
       \/ \E s \in Outputs : ChildWrite(p, s)

Spec == Init /\ [][Next]_vars

\* The event loop runs every ready coroutine, proxies run, a simulator that
\* was sent SIGTERM ends.  Nothing obliges a simulator to end by itself or to
\* read its stdin, a coordinator to write, or anything to fail.
Fairness ==
  \A p \in Procs : /\ WF_vars(ProxyStep(p)) /\ WF_vars(HandlerStep(p))
                   /\ WF_vars(ChildTerminated(p))
                   /\ \A s \in Streams : WF_vars(ForwardStream(p, s))

FairSpec == Spec /\ Fairness

-----------------------------------------------------------------------------
(* What is checked.                                                        *)

\* A proxy that ends with the code of its simulator has shown all of the
\* simulator's output and its result marker, each stream in order, and the
\* code is the right one, although output and exit travel through three
\* coroutines of the worker.
OutputFaithful ==
  \A p \in Procs, s \in Outputs :
    /\ \A k \in 1..Len(shown[p][s]) : shown[p][s][k] = k
    /\ result[p] \in {0, 2} =>
         Len(shown[p][s]) = produced[p][s] /\ result[p] = code[p]

\* Two simulators never run in one work directory, even when a YAML process
\* is started again while its predecessor is still there.
OwnWorkdir ==
  \A p, q \in Procs :
    p # q /\ workdir[p] # << >> => workdir[p] # workdir[q]

\* No simulator is started while the shared asset is missing or another
\* request is still copying it.  That it is whole does not hold: when a cp has
\* failed after it created the file, every later spawn takes that file for
\* the asset.  Then at least one spawn was refused with that error.
AssetSettled ==
  \A p \in Procs :
    child[p] # "none" =>
      \/ started[p] = "complete"
      \/ /\ started[p] = "partial"
         /\ \E q \in Procs : handler[q] = "closed" /\ child[q] = "none"

\* Every spawn request is answered: accepted, refused or cut off.  A request
\* never waits for ever for the lock of one that failed.
SpawnAnswered ==
  \A p \in Procs : proxy[p] = "waiting" ~> proxy[p] # "waiting"

\* The end of a simulator ends its proxy, whatever else fails.
ExitReported ==
  \A p \in Procs : child[p] = "exited" ~> proxy[p] = "done"

\* A simulator whose proxy is gone is stopped by its worker, unless the loop
\* that would notice waits for the simulator to read its stdin.
OrphanStopped ==
  \A p \in Procs :
    (proxy[p] = "done" /\ child[p] = "running") ~>
      (child[p] # "running" \/ workerUp = "dead" \/ handler[p] = "drain")
=============================================================================
