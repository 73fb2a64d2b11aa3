-------------------------- MODULE MCWorkerProtocol --------------------------
(* One simulator with output and input, or two of the same YAML process    *)
(* that share the run root of one worker.                                  *)
EXTENDS WorkerProtocol

CONSTANTS p1, p2

OneId == [p \in {p1} |-> "proc"]
SameId == [p \in {p1, p2} |-> "proc"]
=============================================================================
