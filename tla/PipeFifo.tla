------------------------------ MODULE PipeFifo ------------------------------
(***************************************************************************)
(* What PipeComm promises to the simulators: every pipe is a FIFO.  A      *)
(* payload that a write hands over is appended to its pipe once; a read    *)
(* takes the payload at the head, so each payload reaches at most one      *)
(* reader and the payloads of a pipe are read in the order written.        *)
(* Nothing is said here of slots, routers, gateways, rings or failures.    *)
(***************************************************************************)
EXTENDS Sequences, SequencesExt

CONSTANTS Pipes,     \* the pipes
          Clients,   \* the simulators that read and write
          Msgs       \* the payloads, each written at most once

VARIABLES queue,     \* queue[p]: the payloads of pipe p not yet read
          taken      \* taken[c]: the payloads client c has taken, in order

fifoVars == <<queue, taken>>

FifoInit ==
  /\ queue = [p \in Pipes |-> << >>]
  /\ taken = [c \in Clients |-> << >>]

Fresh(m) ==
  /\ \A p \in Pipes : m \notin ToSet(queue[p])
  /\ \A c \in Clients : m \notin ToSet(taken[c])

Put(p, m) ==
  /\ queue' = [queue EXCEPT ![p] = Append(@, m)]
  /\ Fresh(m)
  /\ UNCHANGED taken

Take(c, p) ==
  /\ queue[p] # << >>
  /\ taken' = [taken EXCEPT ![c] = Append(@, Head(queue[p]))]
  /\ queue' = [queue EXCEPT ![p] = Tail(@)]

\* The payload put is one that is in the queue afterwards.
FifoNext ==
  \E p \in Pipes : \/ \E m \in Msgs \cap ToSet(queue'[p]) : Put(p, m)
                   \/ \E c \in Clients : Take(c, p)

FifoSpec == FifoInit /\ [][FifoNext]_fifoVars
=============================================================================
