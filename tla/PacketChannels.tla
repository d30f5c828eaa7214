--------------------------- MODULE PacketChannels ---------------------------
(***************************************************************************)
(* What the standard interfaces promise a waveform: each provides port is  *)
(* a bounded first-in first-out channel.  A packet counts against the      *)
(* capacity from the moment it is accepted until the consumer has called   *)
(* bufferEmptied, and nothing disturbs it meanwhile.  The abstraction of   *)
(* PacketPorts: there are no semaphores, indices, halves or locks here.    *)
(***************************************************************************)
EXTENDS Naturals, Sequences

CONSTANTS
    Ports,      \* the provides ports
    Packet,     \* what is sent through them
    Capacity    \* packets a port holds, the one in use included

VARIABLES
    queue,      \* per port: the packets it holds, the oldest first
    inUse       \* per port: whether the consumer is using the oldest one

cvars == <<queue, inUse>>

Init ==
    /\ queue = [p \in Ports |-> << >>]
    /\ inUse = [p \in Ports |-> FALSE]

\* pushPacket returns to the sender: the packet is behind all others.
Accept(p, x) ==
    /\ Len(queue[p]) < Capacity
    /\ queue' = [queue EXCEPT ![p] = Append(@, x)]
    /\ UNCHANGED inUse

\* getData hands the oldest packet to the consumer.
Hand(p) ==
    /\ ~inUse[p]
    /\ queue[p] # << >>
    /\ inUse' = [inUse EXCEPT ![p] = TRUE]
    /\ UNCHANGED queue

\* bufferEmptied gives its place back.
Release(p) ==
    /\ inUse[p]
    /\ queue' = [queue EXCEPT ![p] = Tail(@)]
    /\ inUse' = [inUse EXCEPT ![p] = FALSE]

Next ==
    \E p \in Ports :
        \/ \E x \in Packet : Accept(p, x)
        \/ Hand(p)
        \/ Release(p)

Spec == Init /\ [][Next]_cvars
=============================================================================
