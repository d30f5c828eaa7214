---------------------------- MODULE PacketPorts ----------------------------
(***************************************************************************)
(* The data ports of src/sca/standardInterfaces, complexShort and its      *)
(* siblings: one uses port, shared by the threads of the sending           *)
(* component, fanned out to the provides ports of other processes, each a  *)
(* ring of bufferLength slots between two counting semaphores and drained  *)
(* by its component's own processing thread.  realChar and realString have *)
(* one sequence or string for the two; the other siblings have no ring and *)
(* behave as one of a single slot.                                         *)
(*                                                                         *)
(* A packet is two sequences, I and Q, stored one after the other, so a    *)
(* slot may hold the I of one packet and the Q of another.  A packet is    *)
(* known by the thread that made it and its number.                        *)
(*                                                                         *)
(* Wiring assumption, true of every waveform under src/sca/waveforms: a    *)
(* provides port is fed by one uses port.                                  *)
(***************************************************************************)
EXTENDS Naturals, Sequences, SequencesExt

CONSTANTS
    Threads,        \* the sending component's threads that call pushPacket
    Controllers,    \* its ORB threads, serving connectPort and disconnectPort
    Ports,          \* the provides ports of the consuming components
    ConnectionIds,  \* connection identifiers of the waveform
    Wiring,         \* the connections made before the first packet
    MayCrash,       \* the ports whose process may die
    bufferLength,   \* slots of a provides port (5 by default in the code)
    MaxPackets,     \* bound: packets of each thread
    MaxCalls,       \* bound: connectPort and disconnectPort calls per controller
    None            \* no thread, no packet, no call

Packet == UNION {{t} \X (1 .. MaxPackets[t]) : t \in Threads}

Connection == [id : ConnectionIds, port : Ports]

ASSUME BufferAssumption == bufferLength \in Nat \ {0}
ASSUME BoundAssumption == MaxPackets \in [Threads -> Nat] /\ MaxCalls \in Nat
ASSUME NoneAssumption == None \notin Threads /\ None \notin Packet
ASSUME WiringAssumption == Wiring \in Seq(Connection)
ASSUME CrashAssumption == MayCrash \subseteq Ports

VARIABLES
    (* the sending component *)
    senderUp,       \* its process runs
    port_mutex,     \* the thread that holds the uses port's mutex, or None
    dest_ports,     \* its connections, in the order they were made
    pc, idx, made,  \* per thread: where it is in pushPacket, the loop's index
                    \* (from 1 here), and how many packets it has made
    ctl, calls,     \* per controller: the call it serves; how many it has served
    (* the provides ports *)
    up,             \* the consuming process runs
    ready_for_input, data_ready,
    I_buf, Q_buf, wrPtr, rdPtr,
    cpc, slot,      \* the consumer: where it is, and the slot getData gave it
    gotI,           \* the I it has read from that slot
    log             \* history: the <<I, Q>> pairs it has consumed

senderVars == <<senderUp, port_mutex, dest_ports, pc, idx, made, ctl, calls>>
ringVars == <<ready_for_input, data_ready, I_buf, Q_buf, wrPtr, rdPtr>>
consumerVars == <<up, cpc, slot, gotI, log>>
vars == <<senderVars, ringVars, consumerVars>>

Slots == 0 .. (bufferLength - 1)

\* The packet thread t is pushing, and the port it is pushing it to.
pkt(t) == <<t, made[t]>>
dest(t) == dest_ports[idx[t]].port

Calls ==
    [op : {"connectPort"}, id : ConnectionIds, port : Ports]
        \cup [op : {"disconnectPort"}, id : ConnectionIds]

Init ==
    /\ senderUp = TRUE
    /\ port_mutex = None
    /\ dest_ports = Wiring
    /\ pc = [t \in Threads |-> "idle"]
    /\ idx = [t \in Threads |-> 1]
    /\ made = [t \in Threads |-> 0]
    /\ ctl = [c \in Controllers |-> None]
    /\ calls = [c \in Controllers |-> 0]
    /\ up = [p \in Ports |-> TRUE]
    /\ ready_for_input = [p \in Ports |-> bufferLength]
    /\ data_ready = [p \in Ports |-> 0]
    /\ I_buf = [p \in Ports |-> [k \in Slots |-> None]]
    /\ Q_buf = [p \in Ports |-> [k \in Slots |-> None]]
    /\ wrPtr = [p \in Ports |-> 0]
    /\ rdPtr = [p \in Ports |-> 0]
    /\ cpc = [p \in Ports |-> "getData"]
    /\ slot = [p \in Ports |-> 0]
    /\ gotI = [p \in Ports |-> None]
    /\ log = [p \in Ports |-> << >>]

-----------------------------------------------------------------------------
(* complexShort_u::pushPacket, run by a thread of the sending component.   *)

\* The thread has the next packet and calls pushPacket.
Produce(t) ==
    /\ senderUp
    /\ pc[t] = "idle"
    /\ made[t] < MaxPackets[t]
    /\ made' = [made EXCEPT ![t] = @ + 1]
    /\ pc' = [pc EXCEPT ![t] = "lock"]
    /\ UNCHANGED <<senderUp, port_mutex, dest_ports, idx, ctl, calls, ringVars, consumerVars>>

\* Fault: the mutex is not taken.
LockShared(t) ==
    /\ senderUp
    /\ pc[t] = "lock"
    /\ port_mutex' = t
    /\ idx' = [idx EXCEPT ![t] = 1]
    /\ pc' = [pc EXCEPT ![t] = "loop"]
    /\ UNCHANGED <<senderUp, dest_ports, made, ctl, calls, ringVars, consumerVars>>

Lock(t) ==
    /\ senderUp
    /\ pc[t] = "lock"
    /\ port_mutex = None
    /\ port_mutex' = t
    /\ idx' = [idx EXCEPT ![t] = 1]
    /\ pc' = [pc EXCEPT ![t] = "loop"]
    /\ UNCHANGED <<senderUp, dest_ports, made, ctl, calls, ringVars, consumerVars>>

\* Fault: pushPacket returns with the mutex held.
ReturnKeepingLock(t) ==
    /\ senderUp
    /\ pc[t] = "loop"
    /\ idx[t] > Len(dest_ports)
    /\ pc' = [pc EXCEPT ![t] = "idle"]
    /\ UNCHANGED <<senderUp, port_mutex, dest_ports, idx, made, ctl, calls, ringVars, consumerVars>>

Return(t) ==
    /\ senderUp
    /\ pc[t] = "loop"
    /\ idx[t] > Len(dest_ports)
    /\ port_mutex' = None
    /\ pc' = [pc EXCEPT ![t] = "idle"]
    /\ UNCHANGED <<senderUp, dest_ports, idx, made, ctl, calls, ringVars, consumerVars>>

-----------------------------------------------------------------------------
(* providesPort::pushPacket, run by an ORB thread of the consuming process *)
(* for the calling thread t, which waits for its reply.                    *)

Serving(t) == senderUp /\ up[dest(t)]

\* Fault: the servant does not wait for a free slot.
WaitForNothing(t) ==
    /\ pc[t] = "loop"
    /\ idx[t] <= Len(dest_ports)
    /\ Serving(t)
    /\ pc' = [pc EXCEPT ![t] = "writeI"]
    /\ UNCHANGED <<senderUp, port_mutex, dest_ports, idx, made, ctl, calls, ringVars, consumerVars>>

\* for (i = 0; i < dest_ports.size(); ++i) dest_ports[i].port_obj->pushPacket:
\* the next remote call, whose servant waits for a free slot.
WaitForInput(t) ==
    /\ pc[t] = "loop"
    /\ idx[t] <= Len(dest_ports)
    /\ Serving(t)
    /\ ready_for_input[dest(t)] > 0
    /\ ready_for_input' = [ready_for_input EXCEPT ![dest(t)] = @ - 1]
    /\ pc' = [pc EXCEPT ![t] = "writeI"]
    /\ UNCHANGED <<senderUp, port_mutex, dest_ports, idx, made, ctl, calls,
                   data_ready, I_buf, Q_buf, wrPtr, rdPtr, consumerVars>>

WriteI(t) ==
    /\ pc[t] = "writeI"
    /\ Serving(t)
    /\ I_buf' = [I_buf EXCEPT ![dest(t)][wrPtr[dest(t)]] = pkt(t)]
    /\ pc' = [pc EXCEPT ![t] = "writeQ"]
    /\ UNCHANGED <<senderUp, port_mutex, dest_ports, idx, made, ctl, calls,
                   ready_for_input, data_ready, Q_buf, wrPtr, rdPtr, consumerVars>>

WriteQ(t) ==
    /\ pc[t] = "writeQ"
    /\ Serving(t)
    /\ Q_buf' = [Q_buf EXCEPT ![dest(t)][wrPtr[dest(t)]] = pkt(t)]
    /\ pc' = [pc EXCEPT ![t] = "advance"]
    /\ UNCHANGED <<senderUp, port_mutex, dest_ports, idx, made, ctl, calls,
                   ready_for_input, data_ready, I_buf, wrPtr, rdPtr, consumerVars>>

\* Fault: the write index does not wrap.
AdvancePastEnd(t) ==
    /\ pc[t] = "advance"
    /\ Serving(t)
    /\ wrPtr' = [wrPtr EXCEPT ![dest(t)] = @ + 1]
    /\ pc' = [pc EXCEPT ![t] = "post"]
    /\ UNCHANGED <<senderUp, port_mutex, dest_ports, idx, made, ctl, calls,
                   ready_for_input, data_ready, I_buf, Q_buf, rdPtr, consumerVars>>

AdvanceWrPtr(t) ==
    /\ pc[t] = "advance"
    /\ Serving(t)
    /\ wrPtr' = [wrPtr EXCEPT ![dest(t)] = (@ + 1) % bufferLength]
    /\ pc' = [pc EXCEPT ![t] = "post"]
    /\ UNCHANGED <<senderUp, port_mutex, dest_ports, idx, made, ctl, calls,
                   ready_for_input, data_ready, I_buf, Q_buf, rdPtr, consumerVars>>

\* The servant posts data_ready and the call returns to the loop, ++i.
PostDataReady(t) ==
    /\ pc[t] = "post"
    /\ Serving(t)
    /\ data_ready' = [data_ready EXCEPT ![dest(t)] = @ + 1]
    /\ idx' = [idx EXCEPT ![t] = @ + 1]
    /\ pc' = [pc EXCEPT ![t] = "loop"]
    /\ UNCHANGED <<senderUp, port_mutex, dest_ports, made, ctl, calls,
                   ready_for_input, I_buf, Q_buf, wrPtr, rdPtr, consumerVars>>

Filling == {"writeI", "writeQ", "advance", "post"}

\* The consuming process is gone: the remote call raises, nobody between
\* pushPacket and the thread's function catches, and the sending process ends.
PushRaises(t) ==
    /\ senderUp
    /\ pc[t] \in Filling \/ (pc[t] = "loop" /\ idx[t] <= Len(dest_ports))
    /\ ~up[dest(t)]
    /\ senderUp' = FALSE
    /\ UNCHANGED <<port_mutex, dest_ports, pc, idx, made, ctl, calls, ringVars, consumerVars>>

-----------------------------------------------------------------------------
(* usesPort::connectPort and disconnectPort.  The lock is held over the    *)
(* body, in which nothing waits: taking it, the body and releasing it are  *)
(* one step.                                                               *)

CallController(c, call) ==
    /\ senderUp
    /\ ctl[c] = None
    /\ calls[c] < MaxCalls
    /\ ctl' = [ctl EXCEPT ![c] = call]
    /\ calls' = [calls EXCEPT ![c] = @ + 1]
    /\ UNCHANGED <<senderUp, port_mutex, dest_ports, pc, idx, made, ringVars, consumerVars>>

\* The connections with this identifier (the code keeps at most one).
Found(id) == {i \in DOMAIN dest_ports : dest_ports[i].id = id}

ConnectPort(c) ==
    /\ senderUp
    /\ ctl[c] # None
    /\ ctl[c].op = "connectPort"
    /\ port_mutex = None
    /\ LET new == [id |-> ctl[c].id, port |-> ctl[c].port]
       IN  \/ /\ Found(new.id) = {}
              /\ dest_ports' = Append(dest_ports, new)
           \/ \E i \in Found(new.id) : dest_ports' = [dest_ports EXCEPT ![i].port = new.port]
    /\ ctl' = [ctl EXCEPT ![c] = None]
    /\ UNCHANGED <<senderUp, port_mutex, pc, idx, made, calls, ringVars, consumerVars>>

\* Fault: the mutex is not taken.
DisconnectUnlocked(c) ==
    /\ senderUp
    /\ ctl[c] # None
    /\ ctl[c].op = "disconnectPort"
    /\ \/ /\ Found(ctl[c].id) = {}
          /\ UNCHANGED dest_ports
       \/ \E i \in Found(ctl[c].id) : dest_ports' = RemoveAt(dest_ports, i)
    /\ ctl' = [ctl EXCEPT ![c] = None]
    /\ UNCHANGED <<senderUp, port_mutex, pc, idx, made, calls, ringVars, consumerVars>>

DisconnectPort(c) ==
    /\ senderUp
    /\ ctl[c] # None
    /\ ctl[c].op = "disconnectPort"
    /\ port_mutex = None
    /\ \/ /\ Found(ctl[c].id) = {}
          /\ UNCHANGED dest_ports
       \/ \E i \in Found(ctl[c].id) : dest_ports' = RemoveAt(dest_ports, i)
    /\ ctl' = [ctl EXCEPT ![c] = None]
    /\ UNCHANGED <<senderUp, port_mutex, pc, idx, made, calls, ringVars, consumerVars>>

-----------------------------------------------------------------------------
(* The consumer: while (1) { getData; use I and Q; bufferEmptied; ... }    *)

\* Fault: getData gives the slot back before the consumer is done with it.
GetDataReleasing(p) ==
    /\ up[p]
    /\ cpc[p] = "getData"
    /\ data_ready[p] > 0
    /\ data_ready' = [data_ready EXCEPT ![p] = @ - 1]
    /\ ready_for_input' = [ready_for_input EXCEPT ![p] = @ + 1]
    /\ slot' = [slot EXCEPT ![p] = rdPtr[p]]
    /\ rdPtr' = [rdPtr EXCEPT ![p] = (@ + 1) % bufferLength]
    /\ cpc' = [cpc EXCEPT ![p] = "readI"]
    /\ UNCHANGED <<senderVars, I_buf, Q_buf, wrPtr, up, gotI, log>>

GetData(p) ==
    /\ up[p]
    /\ cpc[p] = "getData"
    /\ data_ready[p] > 0
    /\ data_ready' = [data_ready EXCEPT ![p] = @ - 1]
    /\ slot' = [slot EXCEPT ![p] = rdPtr[p]]
    /\ rdPtr' = [rdPtr EXCEPT ![p] = (@ + 1) % bufferLength]
    /\ cpc' = [cpc EXCEPT ![p] = "readI"]
    /\ UNCHANGED <<senderVars, ready_for_input, I_buf, Q_buf, wrPtr, up, gotI, log>>

ReadI(p) ==
    /\ up[p]
    /\ cpc[p] = "readI"
    /\ gotI' = [gotI EXCEPT ![p] = I_buf[p][slot[p]]]
    /\ cpc' = [cpc EXCEPT ![p] = "readQ"]
    /\ UNCHANGED <<senderVars, ringVars, up, slot, log>>

ReadQ(p) ==
    /\ up[p]
    /\ cpc[p] = "readQ"
    /\ log' = [log EXCEPT ![p] = Append(@, <<gotI[p], Q_buf[p][slot[p]]>>)]
    /\ gotI' = [gotI EXCEPT ![p] = None]
    /\ cpc' = [cpc EXCEPT ![p] = "bufferEmptied"]
    /\ UNCHANGED <<senderVars, ringVars, up, slot>>

\* Fault: a component that forgets bufferEmptied.
BufferForgotten(p) ==
    /\ up[p]
    /\ cpc[p] = "bufferEmptied"
    /\ cpc' = [cpc EXCEPT ![p] = "getData"]
    /\ UNCHANGED <<senderVars, ringVars, up, slot, gotI, log>>

BufferEmptied(p) ==
    /\ up[p]
    /\ cpc[p] = "bufferEmptied"
    /\ ready_for_input' = [ready_for_input EXCEPT ![p] = @ + 1]
    /\ cpc' = [cpc EXCEPT ![p] = "getData"]
    /\ UNCHANGED <<senderVars, data_ready, I_buf, Q_buf, wrPtr, rdPtr, up, slot, gotI, log>>

\* The consuming process dies; nothing restarts it.
Crash(p) ==
    /\ p \in MayCrash
    /\ up[p]
    /\ up' = [up EXCEPT ![p] = FALSE]
    /\ UNCHANGED <<senderVars, ringVars, cpc, slot, gotI, log>>

-----------------------------------------------------------------------------

ThreadStep(t) ==
    \/ Lock(t) \/ Return(t)
    \/ WaitForInput(t) \/ WriteI(t) \/ WriteQ(t) \/ AdvanceWrPtr(t) \/ PostDataReady(t)
    \/ PushRaises(t)

ControllerStep(c) == ConnectPort(c) \/ DisconnectPort(c)

ConsumerStep(p) == GetData(p) \/ ReadI(p) \/ ReadQ(p) \/ BufferEmptied(p)

Next ==
    \/ \E t \in Threads : Produce(t) \/ ThreadStep(t)
    \/ \E c \in Controllers :
          \/ \E call \in Calls : CallController(c, call)
          \/ ControllerStep(c)
    \/ \E p \in Ports : ConsumerStep(p) \/ Crash(p)

Spec == Init /\ [][Next]_vars

\* Threads that have something to do are scheduled; nobody owes another
\* packet, another call or a crash.  The mutex and the semaphores are only
\* weakly fair: the code asks for no order among waiters.
FairSpec ==
    /\ Spec
    /\ \A t \in Threads : WF_vars(ThreadStep(t))
    /\ \A c \in Controllers : WF_vars(ControllerStep(c))
    /\ \A p \in Ports : WF_vars(ConsumerStep(p))

-----------------------------------------------------------------------------
(* Properties                                                              *)

Locked == {"loop"} \cup Filling

\* Every variable has its type, the ring's indices stay inside the ring.
TypeOK ==
    /\ senderUp \in BOOLEAN
    /\ port_mutex \in Threads \cup {None}
    /\ dest_ports \in Seq(Connection)
    /\ pc \in [Threads -> {"idle", "lock"} \cup Locked]
    /\ idx \in [Threads -> Nat \ {0}]
    /\ made \in [Threads -> Nat] /\ \A t \in Threads : made[t] <= MaxPackets[t]
    /\ ctl \in [Controllers -> Calls \cup {None}]
    /\ calls \in [Controllers -> 0 .. MaxCalls]
    /\ up \in [Ports -> BOOLEAN]
    /\ ready_for_input \in [Ports -> Nat]
    /\ data_ready \in [Ports -> Nat]
    /\ I_buf \in [Ports -> [Slots -> Packet \cup {None}]]
    /\ Q_buf \in [Ports -> [Slots -> Packet \cup {None}]]
    /\ wrPtr \in [Ports -> Slots]
    /\ rdPtr \in [Ports -> Slots]
    /\ cpc \in [Ports -> {"getData", "readI", "readQ", "bufferEmptied"}]
    /\ slot \in [Ports -> Slots]
    /\ gotI \in [Ports -> Packet \cup {None}]
    /\ log \in [Ports -> Seq((Packet \cup {None}) \X (Packet \cup {None}))]

\* A thread stands between WaitForInput and PostDataReady on port p.
Writing(p) ==
    \E t \in Threads : pc[t] \in Filling /\ dest(t) = p
InUse(p) == cpc[p] # "getData"

\* The two semaphores of a port never make or lose a slot: every slot is
\* free, filled, being filled or being used, whichever way connectPort,
\* disconnectPort, several threads and crashes interleave.
SlotsConserved ==
    \A p \in Ports :
        ready_for_input[p] + data_ready[p]
            + (IF Writing(p) THEN 1 ELSE 0) + (IF InUse(p) THEN 1 ELSE 0) = bufferLength

\* The slot getData handed out (by pointer, not by copy) is not the slot a
\* pushPacket is filling: the consumer's data stays put until bufferEmptied.
NoOverwrite ==
    \A p \in Ports, t \in Threads :
        (InUse(p) /\ pc[t] \in {"writeI", "writeQ"} /\ dest(t) = p) => wrPtr[p] # slot[p]

\* What a consumer read as one packet was sent as one packet: I and Q
\* always belong together.
NoTornPacket ==
    \A p \in Ports : \A k \in DOMAIN log[p] :
        log[p][k][1] = log[p][k][2] /\ log[p][k][1] \in Packet

(* The packets port p holds, oldest first.                                 *)
Wrap(k) == IF k < bufferLength THEN k ELSE k - bufferLength
First(p) == IF InUse(p) THEN slot[p] ELSE rdPtr[p]
Count(p) == data_ready[p] + (IF InUse(p) THEN 1 ELSE 0)
Content(p, k) == <<I_buf[p][k], Q_buf[p][k]>>
Held(p) == [k \in 1 .. Count(p) |-> Content(p, Wrap(First(p) + k - 1))]

\* All port p was ever given, in order: consumed, then held.
Arrived(p) ==
    log[p] \o IF cpc[p] = "bufferEmptied" THEN SubSeq(Held(p), 2, Count(p)) ELSE Held(p)

\* Between two calls of its loop, pushPacket has given the packet to every
\* connection it has passed, once each, and to no other: connecting,
\* disconnecting or re-targeting a connection never skips or repeats one.
FanOutComplete ==
    \A t \in Threads : pc[t] = "loop" =>
        \A p \in Ports :
            LET arrived == Arrived(p)
            IN  Cardinality({k \in DOMAIN arrived : arrived[k][1] = pkt(t)})
                = Cardinality({i \in DOMAIN dest_ports : i < idx[t] /\ dest_ports[i].port = p})

\* Two ports that got the same two packets got them in the same order, and
\* the packets of one thread arrive in the order it made them.
SameOrder ==
    LET got == [p \in Ports |-> LET s == Arrived(p) IN [k \in DOMAIN s |-> s[k][1]]]
    IN  \A p, q \in Ports : \A j, k \in DOMAIN got[p] : j < k =>
            LET a == got[p][j]
                b == got[p][k]
            IN  (a \in Packet /\ b \in Packet) =>
                /\ a[1] = b[1] => a[2] <= b[2]
                /\ \A m, n \in DOMAIN got[q] :
                       (m < n /\ got[q][m] = b /\ got[q][n] = a) => a = b

\* Each port is a bounded FIFO channel (PacketChannels), through every
\* interleaving above.
Channels == INSTANCE PacketChannels WITH
    Packet <- {<<x, x>> : x \in Packet},
    Capacity <- bufferLength,
    queue <- [p \in Ports |-> Held(p)],
    inUse <- [p \in Ports |-> InUse(p)]
ImplementsChannels == Channels!Spec

\* A pushPacket returns, whatever the buffers' state, as long as its
\* consumers run: no thread waits for a slot or for the mutex forever.
PushReturns ==
    \A t \in Threads : (pc[t] = "lock") ~> (pc[t] = "idle" \/ ~senderUp)

\* A connectPort or disconnectPort of the framework returns, though the lock
\* it needs is held across remote calls that wait for buffer space.
ControlReturns ==
    \A c \in Controllers : (ctl[c] # None) ~> (ctl[c] = None \/ ~senderUp)
=============================================================================
