--------------------------- MODULE MCPacketPorts ---------------------------
(***************************************************************************)
(* PacketPorts for TLC: two sending threads, one of which makes two        *)
(* packets, so that a ring of two slots wraps, and two consumers.          *)
(***************************************************************************)
EXTENDS PacketPorts

CONSTANTS t1, t2, p1, p2, id1, id2

MCThreads == {t1, t2}
MCMaxPackets == [t \in MCThreads |-> IF t = t1 THEN 2 ELSE 1]
MCWiring == <<[id |-> id1, port |-> p1], [id |-> id2, port |-> p2]>>
=============================================================================
