-------------------------- MODULE MCPipeTransport ---------------------------
(* Small instances of the transport: two slots, chiplets cA and cB on slot *)
(* 0, cD on slot 1, and a chiplet cX that no worker hosts.                 *)
EXTENDS PipeTransportProps, TLC

CONSTANTS cA, cB, cD, cX, ra, rb, rd, rd2

MCcoordinates == [z \in {cA, cB, cD} |-> IF z = cD THEN 1 ELSE 0]
SourceGateway == {<<0, 1>>}
SinkGateway == {<<1, 0>>}

MChome == [z \in {ra, rb, rd, rd2} |->
             CASE z = ra -> cA [] z = rb -> cB [] OTHER -> cD]
Home3 == [z \in {ra, rd, rd2} |-> MChome[z]]
HomeAll == [z \in {ra, rb, rd} |-> MChome[z]]

StopPipes == {<<cA, cD>>, <<cA, cX>>}
TwoPipes == {<<cA, cB>>, <<cA, cD>>}

\* The two readers of pipe <<cA, cD>> are interchangeable.
ReaderSymmetry == Permutations({rd, rd2})
=============================================================================
