----------------------------- MODULE LossyFifo ------------------------------
(***************************************************************************)
(* The FIFO of the reference broker.  It is weaker than PipeFifo: a read   *)
(* that finds a payload of another size than it asks for destroys it.      *)
(* Every payload is still written once and leaves its pipe at the head, to *)
(* one reader that asked for its size or to nobody.                        *)
(***************************************************************************)
EXTENDS PipeFifo

VARIABLES want,      \* want[c]: the size client c asks for
          lost       \* the payloads that were destroyed

lossyVars == <<queue, taken, want, lost>>

LossyInit == FifoInit /\ lost = {}

LossyPut(p, m) == Put(p, m) /\ m \notin lost /\ UNCHANGED <<want, lost>>

LossyTake(c, p) ==
  Take(c, p) /\ Head(queue[p]).size = want[c] /\ UNCHANGED <<want, lost>>

Destroy(c, p) ==
  /\ queue[p] # << >> /\ Head(queue[p]).size # want[c]
  /\ queue' = [queue EXCEPT ![p] = Tail(@)]
  /\ lost' = lost \cup {Head(queue[p])}
  /\ UNCHANGED <<taken, want>>

\* The clients make up their minds about sizes at any time.
Ask == UNCHANGED <<queue, taken, lost>>

LossyNext ==
  \/ Ask
  \/ \E p \in Pipes : \/ \E m \in Msgs \cap ToSet(queue'[p]) : LossyPut(p, m)
                      \/ \E c \in Clients : LossyTake(c, p) \/ Destroy(c, p)

LossySpec == LossyInit /\ [][LossyNext]_lossyVars
=============================================================================
