---------------------------- MODULE MCNs3Phase2 -----------------------------
(* Chiplets in a row, 0 - 1 - 2 - 3, so that messages of 0 and 1 compete   *)
(* for the link to 2 and a barrier of 2 crosses node 1 on its way to 0;    *)
(* the other five are a row of their own that nothing connects to it.      *)
EXTENDS Ns3Phase2

Record(sc, dc, s, d, n, kind) ==
  [source_cycle |-> sc, destination_cycle |-> dc, source |-> s,
   destination |-> d, flits |-> n, descriptor |-> kind]

LineRoutes ==
  [n \in NodeIds |-> [d \in NodeIds |-> 
     IF (d > 3) # (n > 3) THEN n
     ELSE IF d > n THEN n + 1 ELSE IF d < n THEN n - 1 ELSE n]]

Rows(cycles, flits, kinds) ==
  {Record(sc, dc, s, d, n, kind) :
     sc \in cycles, dc \in {0, 9}, s \in 0..2, d \in 0..2, n \in flits, kind \in kinds}

\* Pairs of messages of one and of three datagrams; a first record that does
\* not validate, and messages that have no route.
Contending ==
  {<<a, b>> : a \in {Record(0, 0, 0, 2, n, kind) : n \in {1, 5}, kind \in {"normal", "launch"}},
              b \in Rows({0, 1}, {1, 5}, {"normal", "sync", "launch"})}
    \cup {<<Record(0, 0, 0, 9, 1, "normal")>>, <<Record(0, 0, 0, 1, 0, "normal")>>}
    \cup {<<Record(0, 0, 0, 2, 1, kind), Record(1, 0, 1, 4, 1, kind)>> : kind \in {"normal", "launch"}}

\* Chiplets 0 and 1 on one worker, 2 on another, 3 missing from the routing.
TwoWorkers == [n \in 0..2 |-> n \div 2]
Mixed ==
  {<<a, b>> : a \in Rows({0}, {1}, {"normal", "sync"}) \cup {Record(0, 0, 3, 1, 1, "normal")},
              b \in Rows({0}, {3}, {"normal", "sync"}) \cup {Record(0, 0, 1, 3, 1, "launch")}}

MixedAndContending == Contending \cup Mixed
=============================================================================
