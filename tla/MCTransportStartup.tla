------------------------- MODULE MCTransportStartup -------------------------
(* Three slots.  Slot 1 both listens and connects; it is the one whose    *)
(* processes may die, whose waits may run out and whose connects are slow.*)
EXTENDS TransportStartup

MiddleSlot == {<<1, "net", 0>>, <<1, "gateway", 2>>, <<1, "worker", 0>>}
=============================================================================
