----------------------------- MODULE FifoBroker -----------------------------
(***************************************************************************)
(* The Python reference broker for PipeComm payloads (real/fifo_broker.py) *)
(* with its client (real/fifo_client.py).  Every connection is one request *)
(* served by a coroutine; each pipe has a deque of payloads and an asyncio *)
(* Condition.  The JSON and the native protocol differ in framing only.    *)
(*                                                                         *)
(* A payload is abstracted to the call that wrote it and its size.         *)
(***************************************************************************)
EXTENDS Integers, Sequences, SequencesExt, FiniteSets

CONSTANTS Pipes,             \* pipe names
          Clients,           \* clients, each with one request at a time
          Sizes,             \* byte counts of requests
          max_payload_bytes, \* --max-payload-bytes
          MaxOps,            \* bound: requests per client
          NoMsg              \* no payload

ASSUME BrokerAssumption ==
  /\ IsFiniteSet(Clients)
  /\ Sizes \subseteq Int /\ max_payload_bytes \in Nat /\ MaxOps \in Nat

Msgs == [pipe : Pipes, owner : Clients, k : 1..MaxOps, size : Sizes]

VARIABLES
  ops,       \* ops[c]: requests issued
  req,       \* req[c]: the current request
  phase,     \* phase[c]: idle, sent, waiting, woken, popped or replied
  popped,    \* popped[c]: payload taken off the deque for this request
  answer,    \* answer[c]: "none", "ok" or "error"
  messages,  \* messages[p]: PipeBroker.messages
  waiters,   \* waiters[p]: sleepers on conditions[p], oldest first
  taken,     \* history: payloads popped for client c that have its size
  lost       \* history: payloads popped by a read of another size

vars == <<ops, req, phase, popped, answer, messages, waiters, taken, lost>>

NoRequest == [op |-> "none", pipe |-> CHOOSE p \in Pipes : TRUE, size |-> 0]

Init ==
  /\ ops = [c \in Clients |-> 0]
  /\ req = [c \in Clients |-> NoRequest]
  /\ phase = [c \in Clients |-> "idle"]
  /\ popped = [c \in Clients |-> NoMsg]
  /\ answer = [c \in Clients |-> "none"]
  /\ messages = [p \in Pipes |-> << >>]
  /\ waiters = [p \in Pipes |-> << >>]
  /\ taken = [c \in Clients |-> << >>]
  /\ lost = {}

-----------------------------------------------------------------------------
Call(c, op, p, n) ==
  /\ phase[c] = "idle" /\ ops[c] < MaxOps
  /\ ops' = [ops EXCEPT ![c] = @ + 1]
  /\ req' = [req EXCEPT ![c] = [op |-> op, pipe |-> p, size |-> n]]
  /\ phase' = [phase EXCEPT ![c] = "sent"]
  /\ UNCHANGED <<popped, answer, messages, waiters, taken, lost>>

\* The client reads the reply; fifo_client raises on an error.
Return(c) ==
  /\ phase[c] = "replied"
  /\ phase' = [phase EXCEPT ![c] = "idle"]
  /\ popped' = [popped EXCEPT ![c] = NoMsg]
  /\ answer' = [answer EXCEPT ![c] = "none"]
  /\ UNCHANGED <<ops, req, messages, waiters, taken, lost>>

Replies(c, status) ==
  /\ phase' = [phase EXCEPT ![c] = "replied"]
  /\ answer' = [answer EXCEPT ![c] = status]

\* A byte count that is negative or over the limit.
Unsupported(c) == req[c].size < 0 \/ req[c].size > max_payload_bytes

Reject(c) ==
  /\ phase[c] = "sent" /\ Unsupported(c)
  /\ Replies(c, "error")
  /\ UNCHANGED <<ops, req, popped, messages, waiters, taken, lost>>

\* notify(1): the oldest sleeper, if any, becomes runnable.
Woken(p) == IF waiters[p] = << >> THEN {} ELSE {Head(waiters[p])}
Asleep(p) == IF waiters[p] = << >> THEN << >> ELSE Tail(waiters[p])
Wakes(c, woken) ==
  phase' = [d \in Clients |-> IF d = c THEN "replied"
                              ELSE IF d \in woken THEN "woken" ELSE phase[d]]
Payload(c) == [pipe |-> req[c].pipe, owner |-> c, k |-> ops[c],
               size |-> req[c].size]
Writing(c) == phase[c] = "sent" /\ req[c].op = "write" /\ ~Unsupported(c)

\* Mutant: a sleeper is only woken when the deque was empty.
Write_FirstOnly(c) ==
  /\ Writing(c)
  /\ LET p == req[c].pipe
     IN  /\ messages' = [messages EXCEPT ![p] = Append(@, Payload(c))]
         /\ waiters' = [waiters EXCEPT ![p] = IF messages[p] = << >> THEN Asleep(p) ELSE @]
         /\ Wakes(c, IF messages[p] = << >> THEN Woken(p) ELSE {})
  /\ answer' = [answer EXCEPT ![c] = "ok"]
  /\ UNCHANGED <<ops, req, popped, taken, lost>>

\* The payload is appended and notify(1) called under the Condition.
Write(c) ==
  /\ Writing(c)
  /\ LET p == req[c].pipe
     IN  /\ messages' = [messages EXCEPT ![p] = Append(@, Payload(c))]
         /\ waiters' = [waiters EXCEPT ![p] = Asleep(p)]
         /\ Wakes(c, Woken(p))
  /\ answer' = [answer EXCEPT ![c] = "ok"]
  /\ UNCHANGED <<ops, req, popped, taken, lost>>

Reading(c) ==
  /\ req[c].op = "read" /\ phase[c] \in {"sent", "woken"} /\ ~Unsupported(c)

\* wait_for finds the deque empty, at the first look or after a wake-up.
ReadWait(c) ==
  /\ Reading(c) /\ messages[req[c].pipe] = << >>
  /\ phase' = [phase EXCEPT ![c] = "waiting"]
  /\ waiters' = [waiters EXCEPT ![req[c].pipe] = Append(@, c)]
  /\ UNCHANGED <<ops, req, popped, answer, messages, taken, lost>>

\* What becomes of the popped payload m: it is handed over only if its size is
\* the one asked for.
HandedTo(c, m) ==
  IF m.size = req[c].size
  THEN taken' = [taken EXCEPT ![c] = Append(@, m)] /\ UNCHANGED lost
  ELSE lost' = lost \cup {m} /\ UNCHANGED taken

\* Mutant: pop instead of popleft.
ReadPop_Newest(c) ==
  /\ Reading(c) /\ messages[req[c].pipe] # << >>
  /\ LET q == messages[req[c].pipe]
     IN  /\ messages' = [messages EXCEPT ![req[c].pipe] = Front(q)]
         /\ popped' = [popped EXCEPT ![c] = Last(q)]
         /\ HandedTo(c, Last(q))
  /\ phase' = [phase EXCEPT ![c] = "popped"]
  /\ UNCHANGED <<ops, req, answer, waiters>>

\* popleft: the head is taken whatever its size.
ReadPop(c) ==
  /\ Reading(c) /\ messages[req[c].pipe] # << >>
  /\ LET q == messages[req[c].pipe]
     IN  /\ messages' = [messages EXCEPT ![req[c].pipe] = Tail(q)]
         /\ popped' = [popped EXCEPT ![c] = Head(q)]
         /\ HandedTo(c, Head(q))
  /\ phase' = [phase EXCEPT ![c] = "popped"]
  /\ UNCHANGED <<ops, req, answer, waiters>>

\* The size is compared after the Condition has been released.
ReadReply(c) ==
  /\ phase[c] = "popped"
  /\ Replies(c, IF popped[c].size = req[c].size THEN "ok" ELSE "error")
  /\ UNCHANGED <<ops, req, popped, messages, waiters, taken, lost>>

Broker(c) == Reject(c) \/ Write(c) \/ ReadWait(c) \/ ReadPop(c) \/ ReadReply(c)

Next ==
  \E c \in Clients :
    \/ \E op \in {"write", "read"}, p \in Pipes, n \in Sizes : Call(c, op, p, n)
    \/ Return(c) \/ Broker(c)

Spec == Init /\ [][Next]_vars

-----------------------------------------------------------------------------
(* What is checked.                                                        *)

Fifo == INSTANCE LossyFifo
          WITH queue <- messages, want <- [c \in Clients |-> req[c].size]

\* Every payload leaves its pipe at the head, in the order written, also when a
\* newcomer overtakes a reader that was just woken.  It goes to one reader
\* that asked for its size, or it is destroyed: the size is compared after
\* popleft, and a read of another size takes the payload with it.
ImplementsLossyFifo == Fifo!LossySpec

\* notify(1) is enough: readers only sleep while those that are awake, and
\* will not be refused, can take every payload there is.
NoStrandedReader ==
  \A p \in Pipes :
    waiters[p] # << >> =>
      Len(messages[p]) <= Cardinality({c \in Clients : Reading(c) /\ req[c].pipe = p})
=============================================================================
