------------------------- MODULE PacketPorts_proof -------------------------
(***************************************************************************)
(* Proofs about PacketPorts, for every set of threads, controllers and     *)
(* ports, every wiring and every buffer length: first its invariant and    *)
(* what it says of slots and packets; then that the ports are the bounded  *)
(* channels of PacketChannels, and about the order and the completeness    *)
(* of what reaches them.                                                   *)
(***************************************************************************)
EXTENDS PacketPorts, SequenceTheorems, FiniteSetTheorems, TLAPS

\* A thread holds the mutex exactly while it is inside the loop.
HolderInv == \A t \in Threads : pc[t] \in Locked <=> port_mutex = t

\* A remote call goes to a connection that still exists.
IndexInv == \A t \in Threads : pc[t] \in Filling => idx[t] <= Len(dest_ports)

\* A thread that is in pushPacket has a packet.
MadeInv == \A t \in Threads : pc[t] # "idle" => made[t] >= 1

BasicInv == TypeOK /\ HolderInv /\ IndexInv /\ MadeInv

LEMMA WrapMod ==
    ASSUME NEW k \in Slots
    PROVE  /\ (k + 1) % bufferLength \in Slots
           /\ (k + 1) % bufferLength = Wrap(k + 1)
    BY BufferAssumption DEF Slots, Wrap

LEMMA PacketMade ==
    ASSUME BasicInv, NEW t \in Threads, pc[t] # "idle"
    PROVE  pkt(t) \in Packet
    BY BoundAssumption DEF BasicInv, TypeOK, MadeInv, pkt, Packet

\* While a servant works for thread t, t's destination is a port.
LEMMA DestType ==
    ASSUME BasicInv, NEW t \in Threads,
           pc[t] \in Filling \/ idx[t] <= Len(dest_ports)
    PROVE  dest(t) \in Ports
<1>1. idx[t] \in 1 .. Len(dest_ports)
    BY LenProperties DEF BasicInv, TypeOK, IndexInv
<1>2. dest_ports[idx[t]] \in Connection
    BY <1>1, ElementOfSeq DEF BasicInv, TypeOK
<1> QED
    BY <1>2 DEF dest, Connection

LEMMA BasicInit == Init => BasicInv
<1> SUFFICES ASSUME Init PROVE BasicInv
    OBVIOUS
<1>1. TypeOK
    BY BufferAssumption, BoundAssumption, WiringAssumption DEF Init, TypeOK, Slots
<1>2. HolderInv /\ IndexInv /\ MadeInv
    BY NoneAssumption DEF Init, HolderInv, IndexInv, MadeInv, Locked, Filling
<1> QED
    BY <1>1, <1>2 DEF BasicInv

LEMMA ThreadBasic ==
    ASSUME BasicInv, NEW t \in Threads, Produce(t) \/ ThreadStep(t)
    PROVE  BasicInv'
<1> USE DEF BasicInv, senderVars, ringVars, consumerVars
<1>1. CASE Produce(t)
  <2>1. TypeOK'
    <3>1. made' \in [Threads -> Nat]
      BY <1>1 DEF Produce, TypeOK
    <3>2. \A u \in Threads : made'[u] <= MaxPackets[u]
      <4>1. made \in [Threads -> Nat] /\ MaxPackets \in [Threads -> Nat]
        BY BoundAssumption DEF TypeOK
      <4>2. made[t] + 1 <= MaxPackets[t]
        BY <1>1, <4>1 DEF Produce
      <4> QED BY <1>1, <4>1, <4>2 DEF Produce, TypeOK
    <3> QED BY <3>1, <3>2, <1>1 DEF Produce, TypeOK
  <2>2. HolderInv' /\ IndexInv' /\ MadeInv'
    BY <1>1 DEF Produce, TypeOK, HolderInv, IndexInv, MadeInv, Locked, Filling
  <2> QED BY <2>1, <2>2
<1>2. CASE Lock(t)
  <2>1. TypeOK'
    BY <1>2 DEF Lock, TypeOK, Locked
  <2>2. HolderInv' /\ IndexInv' /\ MadeInv'
    BY <1>2, NoneAssumption DEF Lock, TypeOK, HolderInv, IndexInv, MadeInv, Locked, Filling
  <2> QED BY <2>1, <2>2
<1>3. CASE Return(t)
  <2>1. TypeOK'
    BY <1>3 DEF Return, TypeOK
  <2>2. HolderInv' /\ IndexInv' /\ MadeInv'
    BY <1>3, NoneAssumption DEF Return, TypeOK, HolderInv, IndexInv, MadeInv, Locked, Filling
  <2> QED BY <2>1, <2>2
<1>4. CASE WaitForInput(t)
  <2>1. TypeOK'
    <3>1. dest(t) \in Ports
      BY <1>4, DestType DEF WaitForInput
    <3>2. ready_for_input' \in [Ports -> Nat]
      BY <3>1, <1>4 DEF WaitForInput, TypeOK
    <3> QED BY <3>2, <1>4 DEF WaitForInput, TypeOK, Locked, Filling
  <2>2. HolderInv' /\ IndexInv' /\ MadeInv'
    BY <1>4 DEF WaitForInput, TypeOK, HolderInv, IndexInv, MadeInv, Locked, Filling
  <2> QED BY <2>1, <2>2
<1>5. CASE WriteI(t)
  <2>1. TypeOK'
    <3>1. dest(t) \in Ports /\ pkt(t) \in Packet
      BY <1>5, DestType, PacketMade DEF WriteI, Filling
    <3> QED BY <3>1, <1>5 DEF WriteI, TypeOK, Locked, Filling
  <2>2. HolderInv' /\ IndexInv' /\ MadeInv'
    BY <1>5 DEF WriteI, TypeOK, HolderInv, IndexInv, MadeInv, Locked, Filling
  <2> QED BY <2>1, <2>2
<1>6. CASE WriteQ(t)
  <2>1. TypeOK'
    <3>1. dest(t) \in Ports /\ pkt(t) \in Packet
      BY <1>6, DestType, PacketMade DEF WriteQ, Filling
    <3> QED BY <3>1, <1>6 DEF WriteQ, TypeOK, Locked, Filling
  <2>2. HolderInv' /\ IndexInv' /\ MadeInv'
    BY <1>6 DEF WriteQ, TypeOK, HolderInv, IndexInv, MadeInv, Locked, Filling
  <2> QED BY <2>1, <2>2
<1>7. CASE AdvanceWrPtr(t)
  <2>1. TypeOK'
    <3>1. dest(t) \in Ports
      BY <1>7, DestType DEF AdvanceWrPtr, Filling
    <3>2. (wrPtr[dest(t)] + 1) % bufferLength \in Slots
      BY <3>1, WrapMod DEF TypeOK
    <3> QED BY <3>1, <3>2, <1>7 DEF AdvanceWrPtr, TypeOK, Locked, Filling
  <2>2. HolderInv' /\ IndexInv' /\ MadeInv'
    BY <1>7 DEF AdvanceWrPtr, TypeOK, HolderInv, IndexInv, MadeInv, Locked, Filling
  <2> QED BY <2>1, <2>2
<1>8. CASE PostDataReady(t)
  <2>1. TypeOK'
    <3>1. dest(t) \in Ports
      BY <1>8, DestType DEF PostDataReady, Filling
    <3>2. data_ready' \in [Ports -> Nat]
      BY <3>1, <1>8 DEF PostDataReady, TypeOK
    <3> QED BY <3>2, <1>8 DEF PostDataReady, TypeOK, Locked, Filling
  <2>2. HolderInv' /\ IndexInv' /\ MadeInv'
    BY <1>8 DEF PostDataReady, TypeOK, HolderInv, IndexInv, MadeInv, Locked, Filling
  <2> QED BY <2>1, <2>2
<1>9. CASE PushRaises(t)
  BY <1>9 DEF PushRaises, TypeOK, HolderInv, IndexInv, MadeInv
<1> QED
  BY <1>1, <1>2, <1>3, <1>4, <1>5, <1>6, <1>7, <1>8, <1>9 DEF ThreadStep

LEMMA ControllerBasic ==
    ASSUME BasicInv, NEW c \in Controllers,
           (\E call \in Calls : CallController(c, call)) \/ ControllerStep(c)
    PROVE  BasicInv'
<1> USE DEF BasicInv, senderVars, ringVars, consumerVars
<1>1. ASSUME NEW call \in Calls, CallController(c, call) PROVE BasicInv'
  <2>1. TypeOK'
    BY <1>1, BoundAssumption DEF CallController, TypeOK
  <2> QED BY <2>1, <1>1 DEF CallController, HolderInv, IndexInv, MadeInv
<1>2. ASSUME ConnectPort(c) \/ DisconnectPort(c), dest_ports' \in Seq(Connection)
      PROVE  BasicInv'
  \* The mutex is free, so that no thread is in the loop.
  <2>1. TypeOK'
    BY <1>2 DEF ConnectPort, DisconnectPort, TypeOK
  <2>2. HolderInv' /\ MadeInv'
    BY <1>2 DEF ConnectPort, DisconnectPort, HolderInv, MadeInv
  <2>3. IndexInv'
    BY <1>2, NoneAssumption DEF ConnectPort, DisconnectPort, HolderInv, IndexInv, Locked
  <2> QED BY <2>1, <2>2, <2>3
<1>3. ASSUME ConnectPort(c) PROVE dest_ports' \in Seq(Connection)
  <2> DEFINE new == [id |-> ctl[c].id, port |-> ctl[c].port]
  <2>1. new \in Connection
    BY <1>3 DEF ConnectPort, TypeOK, Calls, Connection
  <2>2. CASE dest_ports' = Append(dest_ports, new)
    BY <2>1, <2>2, AppendProperties DEF TypeOK
  <2>3. ASSUME NEW i \in Found(new.id), dest_ports' = [dest_ports EXCEPT ![i].port = new.port]
        PROVE  dest_ports' \in Seq(Connection)
    <3>1. i \in 1 .. Len(dest_ports) /\ dest_ports[i] \in Connection
      BY LenProperties, ElementOfSeq DEF Found, TypeOK
    <3>2. [dest_ports[i] EXCEPT !.port = new.port] \in Connection
      BY <2>1, <3>1 DEF Connection
    <3> QED BY <2>3, <3>1, <3>2, ExceptSeq DEF TypeOK
  <2> QED BY <1>3, <2>2, <2>3 DEF ConnectPort
<1>4. ASSUME DisconnectPort(c) PROVE dest_ports' \in Seq(Connection)
  <2>1. ASSUME NEW i \in Found(ctl[c].id), dest_ports' = RemoveAt(dest_ports, i)
        PROVE  dest_ports' \in Seq(Connection)
    <3>1. i \in 1 .. Len(dest_ports) /\ Len(dest_ports) \in Nat
      BY LenProperties DEF Found, TypeOK
    <3>2. /\ SubSeq(dest_ports, 1, i - 1) \in Seq(Connection)
          /\ SubSeq(dest_ports, i + 1, Len(dest_ports)) \in Seq(Connection)
      BY <3>1, SubSeqProperties DEF TypeOK
    <3> QED BY <2>1, <3>2, ConcatProperties DEF RemoveAt
  <2> QED BY <1>4, <2>1 DEF DisconnectPort, TypeOK
<1> QED
  BY <1>1, <1>2, <1>3, <1>4 DEF ControllerStep

LEMMA ConsumerBasic ==
    ASSUME BasicInv, NEW p \in Ports, ConsumerStep(p) \/ Crash(p)
    PROVE  BasicInv'
<1> USE DEF BasicInv, senderVars, ringVars, consumerVars
<1>1. HolderInv' /\ IndexInv' /\ MadeInv'
  BY DEF ConsumerStep, GetData, ReadI, ReadQ, BufferEmptied, Crash,
         HolderInv, IndexInv, MadeInv
<1>2. CASE GetData(p)
  <2>1. (rdPtr[p] + 1) % bufferLength \in Slots
    BY WrapMod DEF TypeOK
  <2>2. TypeOK'
    BY <1>2, <2>1 DEF GetData, TypeOK
  <2> QED BY <1>1, <2>2
<1>3. CASE ReadI(p)
  BY <1>1, <1>3 DEF ReadI, TypeOK
<1>4. CASE ReadQ(p)
  <2>1. log' \in [Ports -> Seq((Packet \cup {None}) \X (Packet \cup {None}))]
    <3>1. <<gotI[p], Q_buf[p][slot[p]]>> \in (Packet \cup {None}) \X (Packet \cup {None})
      BY DEF TypeOK
    <3>2. Append(log[p], <<gotI[p], Q_buf[p][slot[p]]>>)
              \in Seq((Packet \cup {None}) \X (Packet \cup {None}))
      BY <3>1, AppendProperties DEF TypeOK
    <3> QED BY <1>4, <3>2 DEF ReadQ, TypeOK
  <2> QED BY <1>1, <1>4, <2>1 DEF ReadQ, TypeOK
<1>5. CASE BufferEmptied(p)
  BY <1>1, <1>5 DEF BufferEmptied, TypeOK
<1>6. CASE Crash(p)
  BY <1>1, <1>6 DEF Crash, TypeOK
<1> QED
  BY <1>2, <1>3, <1>4, <1>5, <1>6 DEF ConsumerStep

LEMMA BasicStep == BasicInv /\ [Next]_vars => BasicInv'
<1> SUFFICES ASSUME BasicInv, [Next]_vars PROVE BasicInv'
    OBVIOUS
<1>1. CASE UNCHANGED vars
  BY <1>1 DEF vars, senderVars, ringVars, consumerVars, BasicInv, TypeOK,
              HolderInv, IndexInv, MadeInv
<1>2. CASE Next
  BY <1>2, ThreadBasic, ControllerBasic, ConsumerBasic DEF Next
<1> QED BY <1>1, <1>2

\* Every variable of a data port keeps its type in every reachable state.
THEOREM TypeCorrect == Spec => []TypeOK
<1>1. Spec => []BasicInv
  BY BasicInit, BasicStep, PTL DEF Spec
<1> QED
  BY <1>1, PTL DEF BasicInv

-----------------------------------------------------------------------------
(***************************************************************************)
(* The rings.  The inductive invariant adds to BasicInv, for each port:    *)
(* its slots are conserved; the write index is one past the packets it     *)
(* holds, or two while a servant stands between advancing it and posting;  *)
(* the held slots are whole packets; the servant's own slot has what it    *)
(* has written so far; the consumer's copy of I is the slot's.             *)
(***************************************************************************)

Writer(p, t) == pc[t] \in Filling /\ dest(t) = p
Wr(p) == IF \E t \in Threads : Writer(p, t) THEN 1 ELSE 0
Moved(p) == IF \E t \in Threads : Writer(p, t) /\ pc[t] = "post" THEN 1 ELSE 0
Whole(p, k) == I_buf[p][k] = Q_buf[p][k] /\ I_buf[p][k] \in Packet
Filled(p, t) ==
    /\ pc[t] \in {"writeQ", "advance"} => I_buf[p][wrPtr[p]] = pkt(t)
    /\ pc[t] = "advance" => Q_buf[p][wrPtr[p]] = pkt(t)
    /\ pc[t] = "post" => /\ I_buf[p][Wrap(First(p) + Count(p))] = pkt(t)
                         /\ Q_buf[p][Wrap(First(p) + Count(p))] = pkt(t)

RingAt(p) ==
    /\ ready_for_input[p] + Count(p) + Wr(p) = bufferLength
    /\ wrPtr[p] = Wrap(First(p) + Count(p) + Moved(p))
    /\ InUse(p) => rdPtr[p] = Wrap(slot[p] + 1)
    /\ \A k \in 0 .. (Count(p) - 1) : Whole(p, Wrap(First(p) + k))
    /\ \A t \in Threads : Writer(p, t) => Filled(p, t)
    /\ cpc[p] = "readQ" => gotI[p] = I_buf[p][slot[p]]
    /\ \A k \in DOMAIN log[p] : log[p][k][1] = log[p][k][2] /\ log[p][k][1] \in Packet

RingInv == \A p \in Ports : RingAt(p)

IInv == BasicInv /\ RingInv

\* Two different places less than a lap apart are two different slots.
LEMMA WrapInjective ==
    ASSUME NEW a \in Slots, NEW j \in 0 .. (bufferLength - 1), NEW k \in 0 .. (bufferLength - 1),
           Wrap(a + j) = Wrap(a + k)
    PROVE  j = k
    BY BufferAssumption DEF Slots, Wrap

\* Moving the start by one and the distance back by one is the same slot.
LEMMA WrapShift ==
    ASSUME NEW a \in Slots, NEW k \in 0 .. (bufferLength - 1)
    PROVE  Wrap(Wrap(a + 1) + k) = Wrap(a + (k + 1))
    BY BufferAssumption DEF Slots, Wrap

LEMMA WrapRange ==
    ASSUME NEW a \in Slots, NEW k \in 0 .. bufferLength
    PROVE  Wrap(a + k) \in Slots
    BY BufferAssumption DEF Slots, Wrap

\* The mutex: at most one thread is served at a time.
LEMMA OneWriter ==
    ASSUME BasicInv, NEW t \in Threads, NEW u \in Threads,
           pc[t] \in Locked, pc[u] \in Locked
    PROVE  t = u
    BY DEF BasicInv, HolderInv

\* What RingAt(q) is about.
Same(q) ==
    /\ ready_for_input'[q] = ready_for_input[q]
    /\ data_ready'[q] = data_ready[q]
    /\ I_buf'[q] = I_buf[q]
    /\ Q_buf'[q] = Q_buf[q]
    /\ wrPtr'[q] = wrPtr[q]
    /\ rdPtr'[q] = rdPtr[q]
    /\ cpc'[q] = cpc[q]
    /\ slot'[q] = slot[q]
    /\ gotI'[q] = gotI[q]
    /\ log'[q] = log[q]

\* A step that changes neither port q nor who writes to it keeps RingAt(q).
LEMMA Frame ==
    ASSUME NEW q \in Ports, RingAt(q), Same(q),
           \A u \in Threads : Writer(q, u)' <=> Writer(q, u),
           \A u \in Threads : Writer(q, u) => pc'[u] = pc[u] /\ made'[u] = made[u]
    PROVE  RingAt(q)'
<1>1. Wr(q)' = Wr(q) /\ Moved(q)' = Moved(q)
    BY DEF Wr, Moved
<1>2. First(q)' = First(q) /\ Count(q)' = Count(q) /\ (InUse(q)' <=> InUse(q))
    BY DEF First, Count, InUse, Same
<1>3. \A k : Whole(q, k)' <=> Whole(q, k)
    BY DEF Whole, Same
<1>4. \A u \in Threads : Writer(q, u) /\ Filled(q, u) => Filled(q, u)'
    BY <1>2 DEF Filled, Same, pkt
<1> QED
    BY <1>1, <1>2, <1>3, <1>4 DEF RingAt, Same

LEMMA RingInit == Init => RingInv
<1> SUFFICES ASSUME Init, NEW p \in Ports PROVE RingAt(p)
    BY DEF RingInv
<1>1. ~InUse(p) /\ First(p) = 0 /\ Count(p) = 0 /\ ready_for_input[p] = bufferLength
    BY DEF Init, InUse, First, Count
<1>2. \A t \in Threads : ~Writer(p, t)
    BY DEF Init, Writer, Filling
<1>3. Wr(p) = 0 /\ Moved(p) = 0
    BY <1>2 DEF Wr, Moved
<1> QED
    BY <1>1, <1>2, <1>3, BufferAssumption DEF Init, RingAt, InUse, Wrap

\* The ranges arithmetic about port p relies on.
LEMMA Ranges ==
    ASSUME BasicInv, NEW p \in Ports
    PROVE  /\ First(p) \in Slots
           /\ Count(p) \in Nat
           /\ ready_for_input[p] \in Nat /\ data_ready[p] \in Nat
           /\ wrPtr[p] \in Slots /\ rdPtr[p] \in Slots /\ slot[p] \in Slots
           /\ Wr(p) \in {0, 1} /\ Moved(p) \in {0, 1}
    BY DEF BasicInv, TypeOK, First, Count, Wr, Moved

\* A step of thread t at port d leaves every other port alone.
LEMMA OtherPorts ==
    ASSUME BasicInv, RingInv, NEW t \in Threads, NEW d \in Ports, NEW q \in Ports, q # d,
           Same(q), pc[t] \in Locked, made' = made,
           ~Writer(q, t), ~Writer(q, t)',
           \A u \in Threads \ {t} : pc'[u] = pc[u] /\ (dest(u)' = dest(u) \/ pc[u] \notin Filling)
    PROVE  RingAt(q)'
<1>1. \A u \in Threads : Writer(q, u)' <=> Writer(q, u)
    BY DEF Writer
<1>2. \A u \in Threads : Writer(q, u) => pc'[u] = pc[u] /\ made'[u] = made[u]
    OBVIOUS
<1> QED
    BY <1>1, <1>2, Frame DEF RingInv

\* Who writes to port d when the thread served is t.
LEMMA ServedBy ==
    ASSUME BasicInv, NEW t \in Threads, pc[t] \in Locked, NEW d \in Ports
    PROVE  /\ \A u \in Threads : Writer(d, u) => u = t
           /\ Wr(d) = IF Writer(d, t) THEN 1 ELSE 0
           /\ Moved(d) = IF Writer(d, t) /\ pc[t] = "post" THEN 1 ELSE 0
<1>1. \A u \in Threads : Writer(d, u) => u = t
    BY OneWriter DEF Writer, Locked
<1> QED
    BY <1>1 DEF Wr, Moved

LEMMA WaitForInputRing ==
    ASSUME BasicInv, BasicInv', RingInv, NEW t \in Threads, WaitForInput(t)
    PROVE  RingInv'
<1>1. PICK d \in Ports : d = dest(t)
    BY DestType DEF WaitForInput
<1>2. pc[t] \in Locked /\ pc'[t] = "writeI" /\ pc'[t] \in Locked
    BY DEF WaitForInput, BasicInv, TypeOK, Locked, Filling
<1>3. /\ \A u \in Threads \ {t} : pc'[u] = pc[u]
      /\ \A u \in Threads : dest(u)' = dest(u)
    BY DEF WaitForInput, BasicInv, TypeOK, dest
<1>4. ASSUME NEW q \in Ports, q # d PROVE RingAt(q)'
    <2>1. Same(q) /\ made' = made
        BY <1>1, <1>4 DEF WaitForInput, Same, consumerVars, BasicInv, TypeOK
    <2>2. ~Writer(q, t) /\ ~Writer(q, t)'
        BY <1>1, <1>3, <1>4 DEF WaitForInput, Writer, Filling
    <2> QED
        BY <1>1, <1>2, <1>3, <1>4, <2>1, <2>2, OtherPorts
<1>5. RingAt(d)'
    <2>1. Wr(d) = 0 /\ Moved(d) = 0
        BY <1>1, <1>2, ServedBy DEF WaitForInput, Writer, Filling
    <2>2. Writer(d, t)' /\ (\A u \in Threads : Writer(d, u)' => u = t)
          /\ Wr(d)' = 1 /\ Moved(d)' = 0
        <3>1. Writer(d, t)'
            BY <1>1, <1>2, <1>3 DEF Writer, Filling
        <3>2. \A u \in Threads : Writer(d, u)' => u = t
            <4>1. \A u \in Threads \ {t} : pc[u] \notin Locked
                BY <1>2, OneWriter
            <4> QED BY <1>3, <4>1 DEF Writer, Locked
        <3> QED BY <3>1, <3>2, <1>2 DEF Wr, Moved
    <2>3. First(d)' = First(d) /\ Count(d)' = Count(d) /\ (InUse(d)' <=> InUse(d))
        BY DEF WaitForInput, consumerVars, First, Count, InUse
    <2>4. ready_for_input'[d] = ready_for_input[d] - 1
        BY <1>1 DEF WaitForInput, BasicInv, TypeOK
    <2>5. \A k : Whole(d, k)' <=> Whole(d, k)
        BY DEF WaitForInput, Whole
    <2>6. Filled(d, t)'
        BY <1>2 DEF Filled
    <2>7. RingAt(d)
        BY DEF RingInv
    <2> QED
        BY <2>1, <2>2, <2>3, <2>4, <2>5, <2>6, <2>7, Ranges
           DEF WaitForInput, consumerVars, RingAt
<1> QED
    BY <1>4, <1>5 DEF RingInv

LEMMA WriteIRing ==
    ASSUME BasicInv, BasicInv', RingInv, NEW t \in Threads, WriteI(t)
    PROVE  RingInv'
<1>1. PICK d \in Ports : d = dest(t)
    BY DestType DEF WriteI, Filling
<1>2. pc[t] = "writeI" /\ pc[t] \in Locked /\ pc'[t] = "writeQ" /\ pc'[t] \in Locked
    BY DEF WriteI, BasicInv, TypeOK, Locked, Filling
<1>3. /\ \A u \in Threads \ {t} : pc'[u] = pc[u]
      /\ \A u \in Threads : dest(u)' = dest(u)
    BY DEF WriteI, BasicInv, TypeOK, dest
<1>4. ASSUME NEW q \in Ports, q # d PROVE RingAt(q)'
    <2>1. Same(q) /\ made' = made
        BY <1>1, <1>4 DEF WriteI, Same, consumerVars, BasicInv, TypeOK
    <2>2. ~Writer(q, t) /\ ~Writer(q, t)'
        BY <1>1, <1>3, <1>4 DEF Writer
    <2> QED
        BY <1>2, <1>3, <1>4, <2>1, <2>2, OtherPorts
<1>5. RingAt(d)'
    <2>1. /\ \A u \in Threads : Writer(d, u) <=> u = t
          /\ Wr(d) = 1 /\ Moved(d) = 0
        BY <1>1, <1>2, ServedBy DEF Writer, Filling
    <2>2. \A u \in Threads : Writer(d, u)' <=> u = t
        BY <1>1, <1>2, <1>3, <2>1 DEF Writer, Filling
    <2>3. First(d)' = First(d) /\ Count(d)' = Count(d) /\ (InUse(d)' <=> InUse(d))
        BY DEF WriteI, consumerVars, First, Count, InUse
    <2>4. RingAt(d) /\ Filled(d, t)
        BY <2>1 DEF RingInv, RingAt
    <2>5. Count(d) \in 0 .. (bufferLength - 1)
        BY <2>1, <2>4, Ranges, BufferAssumption DEF RingAt
    <2>6. Wr(d)' = 1 /\ Moved(d)' = 0
        BY <1>2, <2>2 DEF Wr, Moved
    \* The slot being written is none of the slots that hold a packet.
    <2>7. \A k \in 0 .. (Count(d) - 1) : Wrap(First(d) + k) # wrPtr[d]
        <3>1. wrPtr[d] = Wrap(First(d) + Count(d))
            BY <2>1, <2>4, Ranges DEF RingAt, Slots
        <3>2. \A k \in 0 .. (Count(d) - 1) : k \in 0 .. (bufferLength - 1) /\ k # Count(d)
            BY <2>5, BufferAssumption
        <3> QED BY <2>5, <3>1, <3>2, Ranges, WrapInjective
    <2>8. I_buf'[d][wrPtr[d]] = pkt(t) /\ \A k \in Slots \ {wrPtr[d]} : I_buf'[d][k] = I_buf[d][k]
        BY <1>1, Ranges DEF WriteI, BasicInv, TypeOK
    <2>9. \A k \in 0 .. (Count(d) - 1) : Whole(d, Wrap(First(d) + k))'
        <3> SUFFICES ASSUME NEW k \in 0 .. (Count(d) - 1) PROVE Whole(d, Wrap(First(d) + k))'
            OBVIOUS
        <3>1. Wrap(First(d) + k) \in Slots \ {wrPtr[d]}
            <4>1. k \in 0 .. bufferLength
                BY <2>5, BufferAssumption
            <4> QED BY <4>1, <2>7, Ranges, WrapRange
        <3>2. Whole(d, Wrap(First(d) + k))
            BY <2>4 DEF RingAt
        <3>3. Wrap(First(d) + k)' = Wrap(First(d) + k)
            BY <2>3 DEF Wrap
        <3> QED BY <2>8, <3>1, <3>2, <3>3 DEF Whole, WriteI
    <2>10. Filled(d, t)'
        BY <1>2, <2>4, <2>8 DEF Filled, WriteI, pkt
    <2>11. cpc'[d] = "readQ" => gotI'[d] = I_buf'[d][slot'[d]]
        <3> SUFFICES ASSUME cpc[d] = "readQ" PROVE gotI[d] = I_buf'[d][slot[d]]
            BY DEF WriteI, consumerVars
        <3>1. First(d) = slot[d] /\ 0 \in 0 .. (Count(d) - 1) /\ Wrap(First(d) + 0) = slot[d]
            BY Ranges, BufferAssumption DEF First, Count, InUse, Wrap, Slots
        <3> QED BY <2>4, <2>7, <2>8, <3>1, Ranges DEF RingAt, WriteI
    <2> QED
        BY <2>1, <2>2, <2>3, <2>4, <2>6, <2>9, <2>10, <2>11
           DEF WriteI, consumerVars, RingAt
<1> QED
    BY <1>4, <1>5 DEF RingInv

LEMMA WriteQRing ==
    ASSUME BasicInv, BasicInv', RingInv, NEW t \in Threads, WriteQ(t)
    PROVE  RingInv'
<1>1. PICK d \in Ports : d = dest(t)
    BY DestType DEF WriteQ, Filling
<1>2. pc[t] = "writeQ" /\ pc[t] \in Locked /\ pc'[t] = "advance" /\ pc'[t] \in Locked
    BY DEF WriteQ, BasicInv, TypeOK, Locked, Filling
<1>3. /\ \A u \in Threads \ {t} : pc'[u] = pc[u]
      /\ \A u \in Threads : dest(u)' = dest(u)
    BY DEF WriteQ, BasicInv, TypeOK, dest
<1>4. ASSUME NEW q \in Ports, q # d PROVE RingAt(q)'
    <2>1. Same(q) /\ made' = made
        BY <1>1, <1>4 DEF WriteQ, Same, consumerVars, BasicInv, TypeOK
    <2>2. ~Writer(q, t) /\ ~Writer(q, t)'
        BY <1>1, <1>3, <1>4 DEF Writer
    <2> QED
        BY <1>2, <1>3, <1>4, <2>1, <2>2, OtherPorts
<1>5. RingAt(d)'
    <2>1. /\ \A u \in Threads : Writer(d, u) <=> u = t
          /\ Wr(d) = 1 /\ Moved(d) = 0
        BY <1>1, <1>2, ServedBy DEF Writer, Filling
    <2>2. \A u \in Threads : Writer(d, u)' <=> u = t
        BY <1>1, <1>2, <1>3, <2>1 DEF Writer, Filling
    <2>3. First(d)' = First(d) /\ Count(d)' = Count(d) /\ (InUse(d)' <=> InUse(d))
        BY DEF WriteQ, consumerVars, First, Count, InUse
    <2>4. RingAt(d) /\ Filled(d, t)
        BY <2>1 DEF RingInv, RingAt
    <2>5. Count(d) \in 0 .. (bufferLength - 1)
        BY <2>1, <2>4, Ranges, BufferAssumption DEF RingAt
    <2>6. Wr(d)' = 1 /\ Moved(d)' = 0
        BY <1>2, <2>2 DEF Wr, Moved
    \* The slot being written is none of the slots that hold a packet.
    <2>7. \A k \in 0 .. (Count(d) - 1) : Wrap(First(d) + k) # wrPtr[d]
        <3>1. wrPtr[d] = Wrap(First(d) + Count(d))
            BY <2>1, <2>4, Ranges DEF RingAt, Slots
        <3>2. \A k \in 0 .. (Count(d) - 1) : k \in 0 .. (bufferLength - 1) /\ k # Count(d)
            BY <2>5, BufferAssumption
        <3> QED BY <2>5, <3>1, <3>2, Ranges, WrapInjective
    <2>8. Q_buf'[d][wrPtr[d]] = pkt(t) /\ \A k \in Slots \ {wrPtr[d]} : Q_buf'[d][k] = Q_buf[d][k]
        BY <1>1, Ranges DEF WriteQ, BasicInv, TypeOK
    <2>9. \A k \in 0 .. (Count(d) - 1) : Whole(d, Wrap(First(d) + k))'
        <3> SUFFICES ASSUME NEW k \in 0 .. (Count(d) - 1) PROVE Whole(d, Wrap(First(d) + k))'
            OBVIOUS
        <3>1. Wrap(First(d) + k) \in Slots \ {wrPtr[d]}
            <4>1. k \in 0 .. bufferLength
                BY <2>5, BufferAssumption
            <4> QED BY <4>1, <2>7, Ranges, WrapRange
        <3>2. Whole(d, Wrap(First(d) + k))
            BY <2>4 DEF RingAt
        <3>3. Wrap(First(d) + k)' = Wrap(First(d) + k)
            BY <2>3 DEF Wrap
        <3> QED BY <2>8, <3>1, <3>2, <3>3 DEF Whole, WriteQ
    <2>10. Filled(d, t)'
        BY <1>2, <2>4, <2>8 DEF Filled, WriteQ, pkt
    <2>11. cpc'[d] = "readQ" => gotI'[d] = I_buf'[d][slot'[d]]
        <3> SUFFICES ASSUME cpc[d] = "readQ" PROVE gotI[d] = I_buf'[d][slot[d]]
            BY DEF WriteQ, consumerVars
        <3>1. First(d) = slot[d] /\ 0 \in 0 .. (Count(d) - 1) /\ Wrap(First(d) + 0) = slot[d]
            BY Ranges, BufferAssumption DEF First, Count, InUse, Wrap, Slots
        <3> QED BY <2>4, <2>7, <2>8, <3>1, Ranges DEF RingAt, WriteQ
    <2> QED
        BY <2>1, <2>2, <2>3, <2>4, <2>6, <2>9, <2>10, <2>11
           DEF WriteQ, consumerVars, RingAt
<1> QED
    BY <1>4, <1>5 DEF RingInv

LEMMA AdvanceWrPtrRing ==
    ASSUME BasicInv, BasicInv', RingInv, NEW t \in Threads, AdvanceWrPtr(t)
    PROVE  RingInv'
<1>1. PICK d \in Ports : d = dest(t)
    BY DestType DEF AdvanceWrPtr, Filling
<1>2. pc[t] = "advance" /\ pc[t] \in Locked /\ pc'[t] = "post" /\ pc'[t] \in Locked
    BY DEF AdvanceWrPtr, BasicInv, TypeOK, Locked, Filling
<1>3. /\ \A u \in Threads \ {t} : pc'[u] = pc[u]
      /\ \A u \in Threads : dest(u)' = dest(u)
    BY DEF AdvanceWrPtr, BasicInv, TypeOK, dest
<1>4. ASSUME NEW q \in Ports, q # d PROVE RingAt(q)'
    <2>1. Same(q) /\ made' = made
        BY <1>1, <1>4 DEF AdvanceWrPtr, Same, consumerVars, BasicInv, TypeOK
    <2>2. ~Writer(q, t) /\ ~Writer(q, t)'
        BY <1>1, <1>3, <1>4 DEF Writer
    <2> QED
        BY <1>2, <1>3, <1>4, <2>1, <2>2, OtherPorts
<1>5. RingAt(d)'
    <2>1. /\ \A u \in Threads : Writer(d, u) <=> u = t
          /\ Wr(d) = 1 /\ Moved(d) = 0
        BY <1>1, <1>2, ServedBy DEF Writer, Filling
    <2>2. \A u \in Threads : Writer(d, u)' <=> u = t
        BY <1>1, <1>2, <1>3, <2>1 DEF Writer, Filling
    <2>3. First(d)' = First(d) /\ Count(d)' = Count(d) /\ (InUse(d)' <=> InUse(d))
        BY DEF AdvanceWrPtr, consumerVars, First, Count, InUse
    <2>4. RingAt(d) /\ Filled(d, t)
        BY <2>1 DEF RingInv, RingAt
    <2>5. Count(d) \in 0 .. (bufferLength - 1)
        BY <2>1, <2>4, Ranges, BufferAssumption DEF RingAt
    <2>6. Wr(d)' = 1 /\ Moved(d)' = 1
        BY <1>2, <2>2 DEF Wr, Moved
    <2>7. wrPtr[d] = Wrap(First(d) + Count(d))
        BY <2>1, <2>4, Ranges DEF RingAt, Slots
    <2>8. wrPtr'[d] = Wrap(First(d) + Count(d) + 1)
        <3>1. wrPtr'[d] = Wrap(wrPtr[d] + 1)
            BY <1>1, WrapMod, Ranges DEF AdvanceWrPtr, BasicInv, TypeOK
        <3> QED
            BY <2>5, <2>7, <3>1, Ranges, BufferAssumption DEF Wrap, Slots
    <2>9. \A k \in 0 .. (Count(d) - 1) : Whole(d, Wrap(First(d) + k))'
        BY <2>3, <2>4 DEF RingAt, Whole, AdvanceWrPtr, Wrap
    <2>10. Filled(d, t)'
        BY <1>2, <2>3, <2>4, <2>7 DEF Filled, AdvanceWrPtr, pkt, Wrap
    <2> QED
        BY <2>1, <2>2, <2>3, <2>4, <2>6, <2>8, <2>9, <2>10, Ranges
           DEF AdvanceWrPtr, consumerVars, RingAt, Wrap
<1> QED
    BY <1>4, <1>5 DEF RingInv

LEMMA PostDataReadyRing ==
    ASSUME BasicInv, BasicInv', RingInv, NEW t \in Threads, PostDataReady(t)
    PROVE  RingInv'
<1>1. PICK d \in Ports : d = dest(t)
    BY DestType DEF PostDataReady, Filling
<1>2. pc[t] = "post" /\ pc[t] \in Locked /\ pc'[t] = "loop"
    BY DEF PostDataReady, BasicInv, TypeOK, Locked, Filling
<1>3. \A u \in Threads \ {t} : pc'[u] = pc[u] /\ dest(u)' = dest(u)
    BY DEF PostDataReady, BasicInv, TypeOK, dest
<1>4. ASSUME NEW q \in Ports, q # d PROVE RingAt(q)'
    <2>1. Same(q) /\ made' = made
        BY <1>1, <1>4 DEF PostDataReady, Same, consumerVars, BasicInv, TypeOK
    <2>2. ~Writer(q, t) /\ ~Writer(q, t)'
        BY <1>1, <1>2, <1>4 DEF Writer, Filling
    <2> QED
        BY <1>2, <1>3, <1>4, <2>1, <2>2, OtherPorts
<1>5. RingAt(d)'
    <2>1. /\ \A u \in Threads : Writer(d, u) <=> u = t
          /\ Wr(d) = 1 /\ Moved(d) = 1
        BY <1>1, <1>2, ServedBy DEF Writer, Filling
    <2>2. \A u \in Threads : ~Writer(d, u)'
        BY <1>2, <1>3, <2>1 DEF Writer, Filling
    <2>3. Wr(d)' = 0 /\ Moved(d)' = 0
        BY <2>2 DEF Wr, Moved
    <2>4. First(d)' = First(d) /\ Count(d)' = Count(d) + 1 /\ (InUse(d)' <=> InUse(d))
        BY <1>1 DEF PostDataReady, consumerVars, First, Count, InUse, BasicInv, TypeOK
    <2>5. RingAt(d) /\ Filled(d, t)
        BY <2>1 DEF RingInv, RingAt
    <2>6. Whole(d, Wrap(First(d) + Count(d)))
        BY <1>2, <2>5, PacketMade DEF Filled, Whole
    <2>7. \A k \in 0 .. Count(d) : Whole(d, Wrap(First(d) + k))
        <3> TAKE k \in 0 .. Count(d)
        <3>1. CASE k = Count(d)
            BY <3>1, <2>6
        <3>2. CASE k \in 0 .. (Count(d) - 1)
            BY <3>2, <2>5 DEF RingAt
        <3> QED BY <3>1, <3>2, Ranges
    <2>8. \A k \in 0 .. (Count(d)' - 1) : Whole(d, Wrap(First(d) + k))'
        BY <2>4, <2>7, Ranges DEF Whole, PostDataReady, Wrap
    <2>9. (ready_for_input[d] + Count(d) + Wr(d) = bufferLength)'
        BY <2>1, <2>3, <2>4, <2>5, Ranges DEF PostDataReady, RingAt
    <2>10. (wrPtr[d] = Wrap(First(d) + Count(d) + Moved(d)))'
        <3>1. wrPtr[d] = Wrap(First(d) + Count(d) + 1)
            BY <2>1, <2>5 DEF RingAt
        <3>2. First(d) + Count(d) + 1 = First(d) + (Count(d) + 1) + 0
            BY Ranges DEF Slots
        <3> QED BY <2>3, <2>4, <3>1, <3>2 DEF PostDataReady, Wrap
    <2>11. (InUse(d) => rdPtr[d] = Wrap(slot[d] + 1))'
        BY <2>4, <2>5 DEF RingAt, PostDataReady, consumerVars, Wrap
    <2> QED
        BY <2>2, <2>5, <2>8, <2>9, <2>10, <2>11 DEF PostDataReady, consumerVars, RingAt
<1> QED
    BY <1>4, <1>5 DEF RingInv

\* Steps of the sender that touch no ring.
LEMMA SenderRing ==
    ASSUME BasicInv, RingInv, NEW t \in Threads,
           Produce(t) \/ Lock(t) \/ Return(t) \/ PushRaises(t)
    PROVE  RingInv'
<1> SUFFICES ASSUME NEW q \in Ports PROVE RingAt(q)'
    BY DEF RingInv
<1>1. Same(q)
    BY DEF Produce, Lock, Return, PushRaises, ringVars, consumerVars, Same
<1>2. \A u \in Threads : Writer(q, u)' <=> Writer(q, u)
    <2>1. CASE PushRaises(t)
        BY <2>1 DEF PushRaises, Writer, dest
    <2>2. CASE Produce(t) \/ Lock(t) \/ Return(t)
        <3>1. pc[t] \notin Filling /\ pc'[t] \notin Filling
            BY <2>2 DEF Produce, Lock, Return, BasicInv, TypeOK, Filling
        <3>2. \A u \in Threads \ {t} : pc'[u] = pc[u] /\ dest(u)' = dest(u)
            BY <2>2 DEF Produce, Lock, Return, BasicInv, TypeOK, dest
        <3> QED BY <3>1, <3>2 DEF Writer
    <2> QED BY <2>1, <2>2
<1>3. \A u \in Threads : Writer(q, u) => pc'[u] = pc[u] /\ made'[u] = made[u]
    BY DEF Produce, Lock, Return, PushRaises, BasicInv, TypeOK, Writer, Filling
<1> QED
    BY <1>1, <1>2, <1>3, Frame DEF RingInv

\* The mutex keeps the connections still while a servant works.
LEMMA ControllerRing ==
    ASSUME BasicInv, RingInv, NEW c \in Controllers,
           (\E call \in Calls : CallController(c, call)) \/ ControllerStep(c)
    PROVE  RingInv'
<1> SUFFICES ASSUME NEW q \in Ports PROVE RingAt(q)'
    BY DEF RingInv
<1>1. Same(q) /\ pc' = pc /\ idx' = idx /\ made' = made
    BY DEF CallController, ControllerStep, ConnectPort, DisconnectPort, ringVars, consumerVars, Same
<1>2. dest_ports' = dest_ports \/ \A u \in Threads : pc[u] \notin Filling
    BY NoneAssumption DEF CallController, ControllerStep, ConnectPort, DisconnectPort,
       BasicInv, HolderInv, Locked
<1>3. \A u \in Threads : Writer(q, u)' <=> Writer(q, u)
    BY <1>1, <1>2 DEF Writer, dest
<1> QED
    BY <1>1, <1>3, Frame DEF RingInv

LEMMA ConsumerRing ==
    ASSUME BasicInv, BasicInv', RingInv, NEW p \in Ports, ConsumerStep(p) \/ Crash(p)
    PROVE  RingInv'
<1>1. /\ UNCHANGED senderVars
      /\ \A q \in Ports, u \in Threads : Writer(q, u)' <=> Writer(q, u)
      /\ \A q \in Ports : Wr(q)' = Wr(q) /\ Moved(q)' = Moved(q)
    BY DEF ConsumerStep, GetData, ReadI, ReadQ, BufferEmptied, Crash, senderVars,
           Writer, Wr, Moved, dest
<1>2. ASSUME NEW q \in Ports, q # p \/ Crash(p) PROVE RingAt(q)'
    <2>1. Same(q)
        BY <1>2 DEF ConsumerStep, GetData, ReadI, ReadQ, BufferEmptied, Crash,
                    ringVars, Same, BasicInv, TypeOK
    <2> QED
        BY <1>1, <2>1, Frame DEF RingInv, senderVars
<1>3. RingAt(p)
    BY DEF RingInv
<1>4. CASE GetData(p)
    <2>1. /\ ~InUse(p) /\ InUse(p)' /\ slot'[p] = rdPtr[p] /\ data_ready'[p] = data_ready[p] - 1
          /\ rdPtr'[p] = Wrap(rdPtr[p] + 1) /\ cpc'[p] = "readI"
        BY <1>4, WrapMod DEF GetData, InUse, BasicInv, TypeOK
    <2>2. First(p)' = First(p) /\ Count(p)' = Count(p)
        BY <2>1, Ranges DEF First, Count
    <2>3. \A k : Whole(p, k)' <=> Whole(p, k)
        BY <1>4 DEF GetData, Whole
    <2>4. \A t \in Threads : Writer(p, t) => Filled(p, t)'
        BY <1>1, <1>3, <1>4, <2>2 DEF RingAt, Filled, GetData, senderVars, pkt, Wrap
    <2>5. RingAt(p)'
        BY <1>1, <1>3, <1>4, <2>1, <2>2, <2>3, <2>4 DEF RingAt, GetData, Wrap
    <2> QED BY <1>2, <2>5 DEF RingInv
<1>5. CASE ReadI(p)
    <2>1. /\ InUse(p) /\ InUse(p)' /\ cpc'[p] = "readQ" /\ gotI'[p] = I_buf[p][slot[p]]
        BY <1>5 DEF ReadI, InUse, BasicInv, TypeOK
    <2>2. First(p)' = First(p) /\ Count(p)' = Count(p)
        BY <1>5, <2>1 DEF ReadI, ringVars, First, Count
    <2>3. \A k : Whole(p, k)' <=> Whole(p, k)
        BY <1>5 DEF ReadI, ringVars, Whole
    <2>4. \A t \in Threads : Writer(p, t) => Filled(p, t)'
        BY <1>1, <1>3, <1>5, <2>2 DEF RingAt, Filled, ReadI, ringVars, senderVars, pkt, Wrap
    <2>5. RingAt(p)'
        BY <1>1, <1>3, <1>5, <2>1, <2>2, <2>3, <2>4 DEF RingAt, ReadI, ringVars, Wrap
    <2> QED BY <1>2, <2>5 DEF RingInv
<1>6. CASE ReadQ(p)
    <2>1. /\ InUse(p) /\ InUse(p)' /\ cpc'[p] = "bufferEmptied" /\ cpc[p] = "readQ"
        BY <1>6 DEF ReadQ, InUse, BasicInv, TypeOK
    <2>2. First(p)' = First(p) /\ Count(p)' = Count(p)
        BY <1>6, <2>1 DEF ReadQ, ringVars, First, Count
    <2>3. \A k : Whole(p, k)' <=> Whole(p, k)
        BY <1>6 DEF ReadQ, ringVars, Whole
    <2>4. \A t \in Threads : Writer(p, t) => Filled(p, t)'
        BY <1>1, <1>3, <1>6, <2>2 DEF RingAt, Filled, ReadQ, ringVars, senderVars, pkt, Wrap
    \* The slot in use is the oldest packet held, which is whole.
    <2>5. Whole(p, slot[p])
        <3>1. First(p) = slot[p] /\ 0 \in 0 .. (Count(p) - 1) /\ Wrap(First(p) + 0) = slot[p]
            BY <2>1, Ranges, BufferAssumption DEF First, Count, Wrap, Slots
        <3> QED BY <1>3, <3>1 DEF RingAt
    <2>6. \A k \in DOMAIN log'[p] : log'[p][k][1] = log'[p][k][2] /\ log'[p][k][1] \in Packet
        <3> DEFINE S == (Packet \cup {None}) \X (Packet \cup {None})
                   e == <<gotI[p], Q_buf[p][slot[p]]>>
        <3>1. e \in S /\ log[p] \in Seq(S) /\ log'[p] = Append(log[p], e)
            <4>1. log \in [Ports -> Seq(S)] /\ gotI[p] \in Packet \cup {None}
                BY DEF BasicInv, TypeOK
            <4>2. slot[p] \in Slots /\ Q_buf[p] \in [Slots -> Packet \cup {None}]
                BY DEF BasicInv, TypeOK
            <4>3. e \in S
                BY <4>1, <4>2
            <4>4. log' = [log EXCEPT ![p] = Append(@, e)]
                BY <1>6 DEF ReadQ
            <4> HIDE DEF S, e
            <4> QED BY <4>1, <4>3, <4>4
        <3>2. e[1] = e[2] /\ e[1] \in Packet
            BY <1>3, <2>1, <2>5 DEF RingAt, Whole
        <3> HIDE DEF S, e
        <3>3. /\ Len(log[p]) \in Nat /\ DOMAIN log[p] = 1 .. Len(log[p])
              /\ DOMAIN log'[p] = 1 .. (Len(log[p]) + 1)
              /\ \A k \in 1 .. Len(log[p]) : log'[p][k] = log[p][k]
              /\ log'[p][Len(log[p]) + 1] = e
            BY <3>1, AppendProperties, LenProperties
        <3> QED BY <1>3, <3>2, <3>3 DEF RingAt
    <2>7. RingAt(p)'
        BY <1>1, <1>3, <1>6, <2>1, <2>2, <2>3, <2>4, <2>6 DEF RingAt, ReadQ, ringVars, Wrap
    <2> QED BY <1>2, <2>7 DEF RingInv
<1>7. CASE BufferEmptied(p)
    <2>1. /\ InUse(p) /\ ~InUse(p)' /\ cpc'[p] = "getData"
          /\ ready_for_input'[p] = ready_for_input[p] + 1
        BY <1>7 DEF BufferEmptied, InUse, BasicInv, TypeOK
    <2>2. PICK f : f = Wrap(First(p) + 1)
        OBVIOUS
    <2>3. First(p)' = f /\ Count(p)' = Count(p) - 1 /\ Count(p) >= 1
        BY <1>3, <1>7, <2>1, <2>2, Ranges DEF RingAt, BufferEmptied, First, Count
    <2>4. \A k : Whole(p, k)' <=> Whole(p, k)
        BY <1>7 DEF BufferEmptied, Whole
    <2>5. /\ f \in Slots
          /\ Count(p) \in 1 .. bufferLength
          /\ Count(p) + Moved(p) \in 1 .. bufferLength
        <3>1. Moved(p) <= Wr(p)
            BY DEF Moved, Wr
        <3>2. First(p) + 1 \in Nat /\ f \in Slots
            BY <2>2, Ranges, BufferAssumption DEF Wrap, Slots
        <3> QED BY <1>3, <2>3, <3>1, <3>2, Ranges, BufferAssumption DEF RingAt
    <2>6. \A k \in 0 .. (bufferLength - 1) : Wrap(f + k) = Wrap(First(p) + (k + 1))
        BY <2>2, Ranges, WrapShift
    <2>7. \A k \in 0 .. (Count(p) - 2) : Whole(p, Wrap(f + k))'
        <3> TAKE k \in 0 .. (Count(p) - 2)
        <3>1. k \in 0 .. (bufferLength - 1) /\ k + 1 \in 0 .. (Count(p) - 1)
            BY <2>5, BufferAssumption
        <3>2. Whole(p, Wrap(First(p) + (k + 1)))
            BY <1>3, <3>1 DEF RingAt
        <3>3. Whole(p, Wrap(f + k))
            BY <2>6, <3>1, <3>2
        <3> QED BY <2>4, <3>3 DEF Wrap
    <2>8. wrPtr'[p] = Wrap(f + (Count(p) - 1) + Moved(p))
        <3>1. Count(p) + Moved(p) - 1 \in 0 .. (bufferLength - 1)
            BY <2>5, Ranges, BufferAssumption
        <3>2. Wrap(f + (Count(p) + Moved(p) - 1)) = Wrap(First(p) + (Count(p) + Moved(p) - 1 + 1))
            BY <2>6, <3>1
        <3>3. /\ First(p) + (Count(p) + Moved(p) - 1 + 1) = First(p) + Count(p) + Moved(p)
              /\ f + (Count(p) + Moved(p) - 1) = f + (Count(p) - 1) + Moved(p)
            BY <2>5, Ranges DEF Slots
        <3>4. wrPtr'[p] = wrPtr[p]
            BY <1>7 DEF BufferEmptied
        <3> QED BY <1>3, <3>2, <3>3, <3>4 DEF RingAt
    <2>9. \A t \in Threads : Writer(p, t) => Filled(p, t)'
        <3> SUFFICES ASSUME NEW t \in Threads, Writer(p, t) PROVE Filled(p, t)'
            OBVIOUS
        <3>1. Filled(p, t)
            BY <1>3 DEF RingAt
        <3>2. Wrap(f + (Count(p) - 1)) = Wrap(First(p) + Count(p))
            <4>1. Count(p) - 1 \in 0 .. (bufferLength - 1) /\ (Count(p) - 1) + 1 = Count(p)
                BY <2>5, BufferAssumption
            <4> QED BY <2>6, <4>1
        <3> QED
            BY <1>1, <1>7, <2>3, <3>1, <3>2 DEF Filled, BufferEmptied, senderVars, pkt, Wrap
    <2>10. ready_for_input'[p] + Count(p)' + Wr(p)' = bufferLength
        BY <1>1, <1>3, <2>1, <2>3, Ranges DEF RingAt
    <2>11. (wrPtr[p] = Wrap(First(p) + Count(p) + Moved(p)))'
        BY <1>1, <2>3, <2>8 DEF Wrap
    <2>12. \A k \in 0 .. (Count(p)' - 1) : Whole(p, Wrap(First(p) + k))'
        <3>1. Count(p)' - 1 = Count(p) - 2
            BY <2>3, <2>5
        <3> QED BY <2>3, <2>7, <3>1 DEF Wrap
    <2>13. RingAt(p)'
        BY <1>1, <1>3, <1>7, <2>1, <2>9, <2>10, <2>11, <2>12 DEF RingAt, BufferEmptied
    <2> QED BY <1>2, <2>13 DEF RingInv
<1>8. CASE Crash(p)
    BY <1>2, <1>8 DEF RingInv
<1> QED
    BY <1>4, <1>5, <1>6, <1>7, <1>8 DEF ConsumerStep

LEMMA RingStep ==
    ASSUME BasicInv, BasicInv', RingInv, [Next]_vars
    PROVE  RingInv'
<1>1. CASE UNCHANGED vars
    <2>1. /\ UNCHANGED senderVars
          /\ \A q \in Ports : Same(q)
        BY <1>1 DEF vars, ringVars, consumerVars, Same
    <2>2. \A q \in Ports, u \in Threads : Writer(q, u)' <=> Writer(q, u)
        BY <2>1 DEF senderVars, Writer, dest
    <2> QED
        BY <2>1, <2>2, Frame DEF RingInv, senderVars
<1>2. ASSUME NEW t \in Threads, Produce(t) \/ ThreadStep(t) PROVE RingInv'
    BY <1>2, SenderRing, WaitForInputRing, WriteIRing, WriteQRing, AdvanceWrPtrRing,
       PostDataReadyRing DEF ThreadStep
<1> QED
    BY <1>1, <1>2, ControllerRing, ConsumerRing DEF Next

\* The inductive invariant holds in every reachable state.
THEOREM Invariance == Spec => []IInv
<1>1. Init => IInv
    BY BasicInit, RingInit DEF IInv
<1>2. IInv /\ [Next]_vars => IInv'
    BY BasicStep, RingStep DEF IInv
<1> QED
    BY <1>1, <1>2, PTL DEF Spec

\* The semaphores of a port neither make nor lose a slot, for every number of
\* threads and every buffer length (complexShort_p and complexShort_u).
THEOREM SlotsConservedAlways == Spec => []SlotsConserved
<1>1. IInv => SlotsConserved
    <2> SUFFICES ASSUME IInv, NEW p \in Ports
                 PROVE  ready_for_input[p] + data_ready[p] + (IF Writing(p) THEN 1 ELSE 0)
                            + (IF InUse(p) THEN 1 ELSE 0) = bufferLength
        BY DEF SlotsConserved
    <2>1. ready_for_input[p] + Count(p) + Wr(p) = bufferLength
        BY DEF IInv, RingInv, RingAt
    <2>2. Wr(p) = IF Writing(p) THEN 1 ELSE 0
        BY DEF Wr, Writing, Writer
    <2>3. Count(p) = data_ready[p] + (IF InUse(p) THEN 1 ELSE 0)
        BY DEF Count
    <2> QED
        BY <2>1, <2>2, <2>3, Ranges DEF IInv
<1> QED
    BY <1>1, Invariance, PTL

\* pushPacket never writes the slot whose address getData gave the consumer.
THEOREM NoOverwriteAlways == Spec => []NoOverwrite
<1>1. IInv => NoOverwrite
    <2> SUFFICES ASSUME IInv, NEW p \in Ports, NEW t \in Threads,
                        InUse(p), pc[t] \in {"writeI", "writeQ"}, dest(t) = p
                 PROVE  wrPtr[p] # slot[p]
        BY DEF NoOverwrite
    <2> USE DEF IInv
    <2>1. Writer(p, t) /\ pc[t] # "post" /\ pc[t] \in Locked
        BY DEF Writer, Filling, Locked
    <2>2. Wr(p) = 1 /\ Moved(p) = 0
        BY <2>1, ServedBy
    <2>3. ready_for_input[p] + Count(p) + 1 = bufferLength /\ wrPtr[p] = Wrap(First(p) + Count(p))
        BY <2>2, Ranges DEF RingInv, RingAt, Slots
    <2>4. First(p) = slot[p] /\ Count(p) \in 1 .. (bufferLength - 1)
        BY <2>3, Ranges, BufferAssumption DEF First, Count
    <2> QED
        BY <2>3, <2>4, Ranges, BufferAssumption DEF Wrap, Slots
<1> QED
    BY <1>1, Invariance, PTL

\* The I and the Q a consumer takes from a port are of one packet.
THEOREM NoTornPacketAlways == Spec => []NoTornPacket
<1>1. IInv => NoTornPacket
    BY DEF IInv, RingInv, RingAt, NoTornPacket
<1> QED
    BY <1>1, Invariance, PTL

-----------------------------------------------------------------------------
(* The ports as channels.                                                 *)

\* What a channel carries: a packet's I with its own Q.
Pairs == {<<x, x>> : x \in Packet}

LEMMA HeldType ==
    ASSUME IInv, NEW p \in Ports
    PROVE  /\ Held(p) \in Seq(Pairs) /\ Len(Held(p)) = Count(p) /\ Count(p) \in Nat
           /\ \A k \in 1 .. Count(p) : Held(p)[k] = Content(p, Wrap(First(p) + k - 1))
<1>1. Count(p) \in Nat /\ First(p) \in Slots
    BY Ranges DEF IInv
<1>2. ASSUME NEW k \in 1 .. Count(p) PROVE Content(p, Wrap(First(p) + k - 1)) \in Pairs
    <2>1. k - 1 \in 0 .. (Count(p) - 1) /\ First(p) + (k - 1) = First(p) + k - 1
        BY <1>1 DEF Slots
    <2>2. Whole(p, Wrap(First(p) + (k - 1)))
        BY <2>1 DEF IInv, RingInv, RingAt
    <2> QED BY <2>1, <2>2 DEF Whole, Content, Pairs
<1>3. Held(p) \in [1 .. Count(p) -> Pairs]
    BY <1>2 DEF Held
<1>4. Held(p) \in Seq(Pairs)
    BY <1>1, <1>3, SeqDef
<1>5. Len(Held(p)) = Count(p)
    BY <1>1, <1>3, <1>4, LenProperties
<1> QED
    BY <1>1, <1>4, <1>5 DEF Held

\* A port whose slots with packets stay as they are holds what it held.
LEMMA HeldFrame ==
    ASSUME NEW p, First(p)' = First(p), Count(p)' = Count(p),
           \A k \in 1 .. Count(p) :
               Content(p, Wrap(First(p) + k - 1))' = Content(p, Wrap(First(p) + k - 1))
    PROVE  Held(p)' = Held(p)
    BY DEF Held

\* The slot a servant writes to holds none of the packets.
LEMMA FreeSlot ==
    ASSUME IInv, NEW t \in Threads, pc[t] \in {"writeI", "writeQ"}, NEW d \in Ports, d = dest(t)
    PROVE  \A k \in 1 .. Count(d) :
               Wrap(First(d) + k - 1) \in Slots /\ Wrap(First(d) + k - 1) # wrPtr[d]
<1> USE DEF IInv
<1>1. Writer(d, t) /\ pc[t] \in Locked /\ pc[t] # "post"
    BY DEF Writer, Filling, Locked
<1>2. Wr(d) = 1 /\ Moved(d) = 0
    BY <1>1, ServedBy
<1>3. RingAt(d)
    BY DEF RingInv
<1>4. wrPtr[d] = Wrap(First(d) + Count(d)) /\ Count(d) \in 0 .. (bufferLength - 1)
    BY <1>2, <1>3, Ranges, BufferAssumption DEF RingAt, Slots
<1> TAKE k \in 1 .. Count(d)
<1>5. k - 1 \in 0 .. (bufferLength - 1) /\ k - 1 \in 0 .. bufferLength /\ k - 1 # Count(d)
      /\ First(d) + (k - 1) = First(d) + k - 1
    BY <1>4, Ranges, BufferAssumption DEF Slots
<1> QED
    BY <1>4, <1>5, Ranges, WrapInjective, WrapRange

\* A step that neither hands over, gives back nor accepts a packet.
Quiet(p) == Held(p)' = Held(p) /\ (InUse(p)' <=> InUse(p)) /\ Arrived(p)' = Arrived(p)

\* With the consumer where it is, what has arrived changes as what is held.
LEMMA QuietFrame ==
    ASSUME NEW p \in Ports, Held(p)' = Held(p), Count(p)' = Count(p), UNCHANGED <<cpc, log>>
    PROVE  Quiet(p)
    BY DEF Quiet, InUse, Arrived

LEMMA SenderQuiet ==
    ASSUME IInv, UNCHANGED <<ringVars, consumerVars>>, NEW p \in Ports
    PROVE  Quiet(p)
<1>1. First(p)' = First(p) /\ Count(p)' = Count(p)
    BY DEF First, Count, InUse, ringVars, consumerVars
<1>2. Held(p)' = Held(p)
    BY <1>1, HeldFrame DEF Content, ringVars
<1> QED
    BY <1>1, <1>2, QuietFrame DEF consumerVars

LEMMA ServantQuiet ==
    ASSUME IInv, IInv', NEW t \in Threads,
           WaitForInput(t) \/ WriteI(t) \/ WriteQ(t) \/ AdvanceWrPtr(t), NEW p \in Ports
    PROVE  Quiet(p)
<1>1. First(p)' = First(p) /\ Count(p)' = Count(p) /\ UNCHANGED <<cpc, log>>
    BY DEF WaitForInput, WriteI, WriteQ, AdvanceWrPtr, consumerVars, First, Count, InUse
<1>2. Held(p)' = Held(p)
    <2>1. CASE WaitForInput(t) \/ AdvanceWrPtr(t)
        BY <1>1, <2>1, HeldFrame DEF WaitForInput, AdvanceWrPtr, Content
    <2>2. CASE (WriteI(t) \/ WriteQ(t)) /\ p # dest(t)
        BY <1>1, <2>2, HeldFrame DEF WriteI, WriteQ, Content, IInv, BasicInv, TypeOK
    <2>3. CASE (WriteI(t) \/ WriteQ(t)) /\ p = dest(t)
        <3>1. \A k \in Slots \ {wrPtr[p]} : Content(p, k)' = Content(p, k)
            BY <2>3, Ranges DEF WriteI, WriteQ, Content, IInv, BasicInv, TypeOK
        <3>2. \A k \in 1 .. Count(p) : Wrap(First(p) + k - 1) \in Slots \ {wrPtr[p]}
            BY <2>3, FreeSlot DEF WriteI, WriteQ
        <3>3. \A k \in 1 .. Count(p) : Wrap(First(p) + k - 1)' = Wrap(First(p) + k - 1)
            BY <1>1 DEF Wrap
        <3>4. \A k \in 1 .. Count(p) :
                  Content(p, Wrap(First(p) + k - 1))' = Content(p, Wrap(First(p) + k - 1))
            BY <3>1, <3>2, <3>3 DEF Content
        <3> QED BY <1>1, <3>4, HeldFrame
    <2> QED BY <2>1, <2>2, <2>3
<1> QED
    BY <1>1, <1>2, QuietFrame

-----------------------------------------------------------------------------
(* Sequences.                                                              *)

LEMMA TailOfAppend ==
    ASSUME NEW S, NEW s \in Seq(S), NEW e \in S, s # << >>
    PROVE  SubSeq(Append(s, e), 2, Len(s) + 1) = Append(SubSeq(s, 2, Len(s)), e)
<1>1. Append(s, e) \in Seq(S) /\ Append(s, e) # << >> /\ Len(Append(s, e)) = Len(s) + 1
    BY AppendProperties
<1>2. Tail(Append(s, e)) = SubSeq(Append(s, e), 2, Len(s) + 1)
    BY <1>1, TailIsSubSeq
<1>3. Tail(s) = SubSeq(s, 2, Len(s))
    BY TailIsSubSeq
<1> QED
    BY <1>2, <1>3, HeadTailAppend

LEMMA ConcatAppend ==
    ASSUME NEW S, NEW r \in Seq(S), NEW s \in Seq(S), NEW e \in S
    PROVE  r \o Append(s, e) = Append(r \o s, e)
<1>1. <<e>> \in Seq(S) /\ r \o s \in Seq(S)
    BY ConcatProperties
<1> QED
    BY <1>1, AppendIsConcat, ConcatAssociative

\* Moving the first element over.
LEMMA AppendConcat ==
    ASSUME NEW S, NEW r \in Seq(S), NEW s \in Seq(S), s # << >>
    PROVE  Append(r, s[1]) \o SubSeq(s, 2, Len(s)) = r \o s
<1>1. Len(s) \in Nat \ {0} /\ s[1] \in S
    BY EmptySeq, ElementOfSeq
<1>2. <<s[1]>> \in Seq(S) /\ SubSeq(s, 2, Len(s)) \in Seq(S)
    BY <1>1, HeadTailProperties, TailIsSubSeq
<1>3. s = <<s[1]>> \o SubSeq(s, 2, Len(s))
    BY <1>1, SubSeqRecursiveFirst, SubSeqFull
<1>4. Append(r, s[1]) = r \o <<s[1]>>
    BY <1>1, AppendIsConcat
<1>5. PICK a \in Seq(S), b \in Seq(S) : a = <<s[1]>> /\ b = SubSeq(s, 2, Len(s))
    BY <1>2
<1>6. (r \o a) \o b = r \o (a \o b)
    BY ConcatAssociative
<1> QED
    BY <1>3, <1>4, <1>5, <1>6

\* A sequence is its length and its elements.
LEMMA IsAppend ==
    ASSUME NEW S, NEW s \in Seq(S), NEW e \in S, NEW r \in [1 .. Len(s) + 1 -> S],
           \A k \in 1 .. Len(s) : r[k] = s[k], r[Len(s) + 1] = e
    PROVE  r = Append(s, e)
<1>1. Len(s) \in Nat /\ s \in [1 .. Len(s) -> S]
    BY LenProperties
<1>3. r \in Seq(S) /\ Len(r) = Len(s) + 1
    <2>1. r \in Seq(S)
        BY <1>1, SeqDef
    <2> QED BY <1>1, <2>1, LenProperties
<1>4. Append(s, e) \in Seq(S) /\ Len(Append(s, e)) = Len(s) + 1
    BY AppendProperties
<1>5. \A k \in 1 .. Len(r) : r[k] = Append(s, e)[k]
    BY <1>1, <1>3, AppendProperties
<1> QED
    BY <1>3, <1>4, <1>5, SeqEqual

LEMMA IsTail ==
    ASSUME NEW S, NEW s \in Seq(S), s # << >>,
           NEW r \in [1 .. Len(s) - 1 -> S], \A k \in 1 .. Len(s) - 1 : r[k] = s[k + 1]
    PROVE  r = Tail(s)
<1>1. Len(s) \in Nat \ {0} /\ s \in [1 .. Len(s) -> S]
    BY LenProperties, EmptySeq
<1>2. Len(s) - 1 \in Nat
    BY <1>1
<1>3. r \in Seq(S) /\ Len(r) = Len(s) - 1
    <2>1. r \in Seq(S)
        BY <1>2, SeqDef
    <2> QED BY <1>2, <2>1, LenProperties
<1>4. \A k \in 1 .. Len(r) : r[k] = Tail(s)[k]
    BY <1>1, <1>2, <1>3, HeadTailProperties
<1> QED
    BY <1>3, <1>4, HeadTailProperties, SeqEqual

-----------------------------------------------------------------------------

\* The consumer's history are packets.
LEMMA LogType ==
    ASSUME IInv, NEW p \in Ports
    PROVE  log[p] \in Seq(Pairs)
<1> DEFINE X == (Packet \cup {None}) \X (Packet \cup {None})
<1>1. log[p] \in Seq(X)
    BY DEF IInv, BasicInv, TypeOK
<1>2. Len(log[p]) \in Nat /\ log[p] \in [1 .. Len(log[p]) -> X] /\ DOMAIN log[p] = 1 .. Len(log[p])
    BY <1>1, LenProperties
<1>3. ASSUME NEW k \in 1 .. Len(log[p]) PROVE log[p][k] \in Pairs
    <2>1. log[p][k] \in X /\ log[p][k][1] = log[p][k][2] /\ log[p][k][1] \in Packet
        BY <1>2 DEF IInv, RingInv, RingAt
    <2> QED BY <2>1 DEF Pairs
<1>4. log[p] \in [1 .. Len(log[p]) -> Pairs]
    BY <1>2, <1>3
<1> QED
    BY <1>2, <1>4, SeqDef

\* While a packet is in use it is held.
LEMMA InUseHeld ==
    ASSUME IInv, NEW p \in Ports, InUse(p)
    PROVE  /\ Count(p) \in Nat \ {0} /\ Held(p) # << >>
           /\ Held(p)[1] = Content(p, slot[p])
<1>1. Count(p) \in Nat \ {0} /\ First(p) = slot[p] /\ slot[p] \in Slots
    BY Ranges DEF IInv, Count, First
<1>2. Held(p) # << >>
    BY <1>1, HeldType, EmptySeq
<1>3. Wrap(First(p) + 1 - 1) = slot[p]
    BY <1>1, BufferAssumption DEF Wrap, Slots
<1> QED
    BY <1>1, <1>2, <1>3, HeldType

LEMMA PostAccepts ==
    ASSUME IInv, NEW t \in Threads, PostDataReady(t), NEW d \in Ports, d = dest(t)
    PROVE  /\ <<pkt(t), pkt(t)>> \in Pairs
           /\ Len(Held(d)) < bufferLength
           /\ Held(d)' = Append(Held(d), <<pkt(t), pkt(t)>>)
           /\ Arrived(d)' = Append(Arrived(d), <<pkt(t), pkt(t)>>)
           /\ \A p \in Ports : InUse(p)' <=> InUse(p)
           /\ \A p \in Ports \ {d} : Quiet(p)
<1> USE DEF IInv
<1> DEFINE e == <<pkt(t), pkt(t)>>
<1>1. e \in Pairs
    BY PacketMade DEF PostDataReady, Pairs
<1>2. Writer(d, t) /\ pc[t] \in Locked /\ pc[t] = "post"
    BY DEF PostDataReady, Writer, Filling, Locked
<1>3. Wr(d) = 1 /\ Filled(d, t) /\ ready_for_input[d] + Count(d) + Wr(d) = bufferLength
    BY <1>2, ServedBy DEF RingInv, RingAt
<1>4. Count(d) < bufferLength
    BY <1>3, Ranges, BufferAssumption
<1>5. /\ \A p \in Ports : First(p)' = First(p) /\ (InUse(p)' <=> InUse(p))
      /\ Count(d)' = Count(d) + 1
      /\ \A p \in Ports \ {d} : Count(p)' = Count(p)
      /\ \A p, k : Content(p, k)' = Content(p, k)
    BY DEF PostDataReady, consumerVars, First, Count, InUse, Content, BasicInv, TypeOK
<1>6. ASSUME NEW p \in Ports \ {d} PROVE Quiet(p)
    BY <1>5, HeldFrame, QuietFrame DEF PostDataReady, consumerVars
<1>7. Held(d)' = Append(Held(d), e)
    <2>1. Content(d, Wrap(First(d) + Count(d))) = e
        BY <1>2, <1>3 DEF Filled, Content
    <2>2. Held(d)' = [k \in 1 .. Count(d) + 1 |-> Content(d, Wrap(First(d) + k - 1))]
        BY <1>5 DEF Held, PostDataReady, Content
    <2>3. \A k \in 1 .. Count(d) + 1 :
              Content(d, Wrap(First(d) + k - 1)) = IF k <= Count(d) THEN Held(d)[k] ELSE e
        <3> TAKE k \in 1 .. Count(d) + 1
        <3>1. CASE k <= Count(d)
            BY <3>1, HeldType
        <3>2. CASE k = Count(d) + 1
            <4>1. First(d) + k - 1 = First(d) + Count(d) /\ ~(k <= Count(d))
                BY <3>2, Ranges DEF Slots
            <4> QED BY <2>1, <4>1
        <3> QED BY <3>1, <3>2, Ranges
    <2>4. /\ Held(d)' \in [1 .. Len(Held(d)) + 1 -> Pairs]
          /\ \A k \in 1 .. Len(Held(d)) : Held(d)'[k] = Held(d)[k]
          /\ Held(d)'[Len(Held(d)) + 1] = e
        <3>1. /\ Len(Held(d)) = Count(d) /\ Count(d) \in Nat
              /\ \A k \in 1 .. Count(d) : Held(d)[k] \in Pairs
            BY HeldType, ElementOfSeq
        <3> HIDE DEF e
        <3> QED BY <1>1, <2>2, <2>3, <3>1
    <2> HIDE DEF e
    <2> QED BY <1>1, <2>4, HeldType, IsAppend
<1>8. Arrived(d)' = Append(Arrived(d), e)
    <2>1. UNCHANGED <<cpc, log>> /\ log[d] \in Seq(Pairs) /\ Held(d) \in Seq(Pairs) /\ Len(Held(d)) = Count(d)
        BY LogType, HeldType DEF PostDataReady, consumerVars
    <2> HIDE DEF e
    <2>2. CASE cpc[d] # "bufferEmptied"
        <3>1. log[d] \o Append(Held(d), e) = Append(log[d] \o Held(d), e)
            <4>1. PICK r \in Seq(Pairs), s \in Seq(Pairs), x \in Pairs :
                      r = log[d] /\ s = Held(d) /\ x = e
                BY <1>1, <2>1
            <4>2. r \o Append(s, x) = Append(r \o s, x)
                BY ConcatAppend
            <4> QED BY <4>1, <4>2
        <3>2. Arrived(d)' = log[d] \o Held(d)' /\ Arrived(d) = log[d] \o Held(d)
            BY <2>1, <2>2 DEF Arrived
        <3> QED BY <1>7, <3>1, <3>2
    <2>3. CASE cpc[d] = "bufferEmptied"
        <3>1. Held(d) # << >>
            BY <2>3, InUseHeld DEF InUse
        <3>2. SubSeq(Held(d), 2, Count(d)) \in Seq(Pairs)
            BY <2>1, <3>1, HeadTailProperties, TailIsSubSeq
        <3>3. SubSeq(Held(d)', 2, Count(d)') = Append(SubSeq(Held(d), 2, Count(d)), e)
            BY <1>1, <1>5, <1>7, <2>1, <3>1, TailOfAppend
        <3>4. log[d] \o Append(SubSeq(Held(d), 2, Count(d)), e)
                  = Append(log[d] \o SubSeq(Held(d), 2, Count(d)), e)
            <4>1. PICK r \in Seq(Pairs), s \in Seq(Pairs), x \in Pairs :
                      r = log[d] /\ s = SubSeq(Held(d), 2, Count(d)) /\ x = e
                BY <1>1, <2>1, <3>2
            <4>2. r \o Append(s, x) = Append(r \o s, x)
                BY ConcatAppend
            <4> QED BY <4>1, <4>2
        <3>5. /\ Arrived(d)' = log[d] \o SubSeq(Held(d)', 2, Count(d)')
              /\ Arrived(d) = log[d] \o SubSeq(Held(d), 2, Count(d))
            BY <2>1, <2>3 DEF Arrived
        <3> QED BY <3>3, <3>4, <3>5
    <2> QED BY <2>2, <2>3
<1> QED
    BY <1>1, <1>4, <1>5, <1>6, <1>7, <1>8, HeldType

\* getData moves the oldest packet from the ring to the consumer.
LEMMA GetDataHands ==
    ASSUME IInv, NEW p \in Ports, GetData(p)
    PROVE  /\ ~InUse(p) /\ InUse(p)' /\ Held(p) # << >>
           /\ Held(p)' = Held(p) /\ Arrived(p)' = Arrived(p)
           /\ \A q \in Ports \ {p} : Quiet(q)
<1> USE DEF IInv
<1>1. /\ ~InUse(p) /\ InUse(p)'
      /\ \A q \in Ports : First(q)' = First(q) /\ Count(q)' = Count(q)
      /\ \A q, k : Content(q, k)' = Content(q, k)
    BY Ranges DEF GetData, InUse, First, Count, Content, BasicInv, TypeOK
<1>2. \A q \in Ports : Held(q)' = Held(q)
    BY <1>1, HeldFrame
<1>3. Held(p) # << >>
    <2>1. Count(p) \in Nat \ {0}
        BY <1>1, Ranges DEF GetData, Count
    <2> QED BY <2>1, HeldType, EmptySeq
<1>4. ASSUME NEW q \in Ports \ {p} PROVE Quiet(q)
    BY <1>1, <1>2 DEF GetData, Quiet, InUse, Arrived, BasicInv, TypeOK
<1>5. Arrived(p)' = Arrived(p)
    BY <1>1, <1>2 DEF GetData, Arrived, BasicInv, TypeOK
<1> QED
    BY <1>1, <1>2, <1>3, <1>4, <1>5

\* Reading moves the packet in use from what is held to the history.
LEMMA ReadQuiet ==
    ASSUME IInv, NEW p \in Ports, ReadI(p) \/ ReadQ(p) \/ Crash(p), NEW q \in Ports
    PROVE  Quiet(q)
<1> USE DEF IInv
<1>1. /\ InUse(q)' <=> InUse(q)
      /\ First(q)' = First(q) /\ Count(q)' = Count(q)
      /\ \A k : Content(q, k)' = Content(q, k)
    BY DEF ReadI, ReadQ, Crash, ringVars, InUse, First, Count, Content, BasicInv, TypeOK
<1>2. Held(q)' = Held(q)
    BY <1>1, HeldFrame
<1>3. CASE ~(ReadQ(p) /\ q = p)
    BY <1>1, <1>2, <1>3 DEF ReadI, ReadQ, Crash, Quiet, Arrived, BasicInv, TypeOK
<1>4. CASE ReadQ(p) /\ q = p
    <2>1. /\ cpc[p] = "readQ" /\ cpc'[p] = "bufferEmptied"
          /\ log'[p] = Append(log[p], <<gotI[p], Q_buf[p][slot[p]]>>)
        BY <1>4 DEF ReadQ, BasicInv, TypeOK
    <2>2. /\ Held(p) \in Seq(Pairs) /\ Held(p) # << >> /\ Len(Held(p)) = Count(p)
          /\ Held(p)[1] = Content(p, slot[p])
        BY <2>1, HeldType, InUseHeld DEF InUse
    <2>3. <<gotI[p], Q_buf[p][slot[p]]>> = Held(p)[1]
        BY <2>1, <2>2 DEF RingInv, RingAt, Content
    <2>4. PICK r \in Seq(Pairs), s \in Seq(Pairs) : r = log[p] /\ s = Held(p)
        BY <2>2, LogType
    <2>5. Append(r, s[1]) \o SubSeq(s, 2, Len(s)) = r \o s
        BY <2>2, <2>4, AppendConcat
    <2>6. Arrived(p) = r \o s
        BY <2>1, <2>4 DEF Arrived
    <2>7. Arrived(p)' = Append(r, s[1]) \o SubSeq(s, 2, Len(s))
        BY <1>1, <1>2, <1>4, <2>1, <2>2, <2>3, <2>4 DEF Arrived
    <2> QED BY <1>1, <1>2, <1>4, <2>5, <2>6, <2>7 DEF Quiet
<1> QED
    BY <1>3, <1>4

\* bufferEmptied takes the oldest packet off the ring.
LEMMA BufferEmptiedReleases ==
    ASSUME IInv, NEW p \in Ports, BufferEmptied(p)
    PROVE  /\ InUse(p) /\ ~InUse(p)'
           /\ Held(p)' = Tail(Held(p)) /\ Arrived(p)' = Arrived(p)
           /\ \A q \in Ports \ {p} : Quiet(q)
<1> USE DEF IInv
<1>1. InUse(p) /\ ~InUse(p)' /\ cpc[p] = "bufferEmptied" /\ cpc'[p] = "getData"
    BY DEF BufferEmptied, InUse, BasicInv, TypeOK
<1>2. \A q, k : Content(q, k)' = Content(q, k)
    BY DEF BufferEmptied, Content
<1>3. ASSUME NEW q \in Ports \ {p} PROVE Quiet(q)
    <2>1. /\ (InUse(q)' <=> InUse(q)) /\ First(q)' = First(q) /\ Count(q)' = Count(q)
          /\ cpc'[q] = cpc[q] /\ log' = log
        BY DEF BufferEmptied, InUse, First, Count, BasicInv, TypeOK
    <2> QED BY <1>2, <2>1, HeldFrame DEF Quiet, Arrived
<1>4. PICK f : f = Wrap(First(p) + 1)
    OBVIOUS
<1>5. /\ First(p)' = f /\ Count(p)' = Count(p) - 1
      /\ First(p) \in Slots /\ f \in Slots /\ Count(p) \in 1 .. bufferLength
    <2>1. First(p) = slot[p] /\ First(p)' = rdPtr[p] /\ Count(p) = data_ready[p] + 1
          /\ Count(p)' = data_ready[p]
        BY <1>1, Ranges DEF BufferEmptied, First, Count
    <2>2. ready_for_input[p] + Count(p) + Wr(p) = bufferLength /\ rdPtr[p] = Wrap(slot[p] + 1)
        BY <1>1 DEF RingInv, RingAt
    <2> QED BY <1>4, <2>1, <2>2, Ranges, BufferAssumption DEF BasicInv
<1>6. ASSUME NEW k \in 1 .. Count(p) - 1
      PROVE  Content(p, Wrap(f + k - 1)) = Held(p)[k + 1]
    <2>1. /\ k - 1 \in 0 .. (bufferLength - 1) /\ k + 1 \in 1 .. Count(p)
          /\ f + (k - 1) = f + k - 1 /\ First(p) + (k - 1 + 1) = First(p) + (k + 1) - 1
        BY <1>5, BufferAssumption DEF Slots
    <2>2. Wrap(f + (k - 1)) = Wrap(First(p) + (k - 1 + 1))
        BY <1>4, <1>5, <2>1, WrapShift
    <2>3. Held(p)[k + 1] = Content(p, Wrap(First(p) + (k + 1) - 1))
        BY <2>1, HeldType
    <2> QED BY <2>1, <2>2, <2>3
<1>7. Held(p) \in Seq(Pairs) /\ Held(p) # << >> /\ Len(Held(p)) = Count(p)
    BY <1>1, HeldType, InUseHeld
<1>8. Held(p)' = Tail(Held(p))
    <2>1. Held(p)' = [k \in 1 .. Count(p) - 1 |-> Content(p, Wrap(f + k - 1))]
        BY <1>5, BufferEmptied(p) DEF Held, BufferEmptied, Content
    <2>2. \A k \in 1 .. Count(p) - 1 : Held(p)[k + 1] \in Pairs
        BY <1>5, <1>7, ElementOfSeq
    <2>3. /\ Held(p)' \in [1 .. Len(Held(p)) - 1 -> Pairs]
          /\ \A k \in 1 .. Len(Held(p)) - 1 : Held(p)'[k] = Held(p)[k + 1]
        BY <1>6, <1>7, <2>1, <2>2
    <2> QED BY <1>7, <2>3, IsTail
<1>9. Arrived(p)' = Arrived(p)
    <2>1. Tail(Held(p)) = SubSeq(Held(p), 2, Count(p))
        BY <1>7, TailIsSubSeq
    <2> QED BY <1>1, <1>8, <2>1 DEF Arrived, BufferEmptied
<1> QED
    BY <1>1, <1>3, <1>8, <1>9

\* What a step does to the packets, as far as a channel is concerned.
Accepts(t) ==
    \E d \in Ports :
        /\ PostDataReady(t) /\ d = dest(t)
        /\ Len(Held(d)) < bufferLength
        /\ Held(d)' = Append(Held(d), <<pkt(t), pkt(t)>>)
        /\ \A p \in Ports : InUse(p)' <=> InUse(p)
        /\ \A p \in Ports \ {d} : Held(p)' = Held(p)
Hands(p) ==
    /\ ~InUse(p) /\ InUse(p)' /\ Held(p) # << >> /\ Held(p)' = Held(p)
    /\ \A q \in Ports \ {p} : Quiet(q)
Releases(p) ==
    /\ InUse(p) /\ ~InUse(p)' /\ Held(p)' = Tail(Held(p))
    /\ \A q \in Ports \ {p} : Quiet(q)

LEMMA StepKinds ==
    ASSUME IInv, IInv', [Next]_vars
    PROVE  \/ \A p \in Ports : Quiet(p)
           \/ \E t \in Threads : Accepts(t)
           \/ \E p \in Ports : Hands(p) \/ Releases(p)
<1>1. CASE UNCHANGED vars
    BY <1>1, SenderQuiet DEF vars
<1>2. ASSUME NEW t \in Threads, Produce(t) \/ Lock(t) \/ Return(t) \/ PushRaises(t)
      PROVE  \A p \in Ports : Quiet(p)
    BY <1>2, SenderQuiet DEF Produce, Lock, Return, PushRaises
<1>3. ASSUME NEW t \in Threads,
             WaitForInput(t) \/ WriteI(t) \/ WriteQ(t) \/ AdvanceWrPtr(t)
      PROVE  \A p \in Ports : Quiet(p)
    BY <1>3, ServantQuiet
<1>4. ASSUME NEW t \in Threads, PostDataReady(t) PROVE Accepts(t)
    <2>1. PICK d \in Ports : d = dest(t)
        BY <1>4, DestType DEF PostDataReady, Filling, IInv
    <2> QED BY <1>4, <2>1, PostAccepts DEF Accepts, Quiet
<1>5. ASSUME NEW c \in Controllers,
             (\E call \in Calls : CallController(c, call)) \/ ControllerStep(c)
      PROVE  \A p \in Ports : Quiet(p)
    BY <1>5, SenderQuiet DEF CallController, ControllerStep, ConnectPort, DisconnectPort
<1>6. ASSUME NEW p \in Ports, ReadI(p) \/ ReadQ(p) \/ Crash(p)
      PROVE  \A q \in Ports : Quiet(q)
    BY <1>6, ReadQuiet
<1>7. ASSUME NEW p \in Ports, GetData(p) PROVE Hands(p)
    BY <1>7, GetDataHands DEF Hands
<1>8. ASSUME NEW p \in Ports, BufferEmptied(p) PROVE Releases(p)
    BY <1>8, BufferEmptiedReleases DEF Releases
<1> QED
    BY <1>1, <1>2, <1>3, <1>4, <1>5, <1>6, <1>7, <1>8 DEF Next, ThreadStep, ConsumerStep

\* The ports implement bounded first-in first-out channels: whatever threads,
\* connectPort, disconnectPort, consumers and crashes do, a step accepts one
\* packet behind all others, hands the oldest over, gives its place back, or
\* changes no channel.
THEOREM Implementation == Spec => ImplementsChannels
<1> DEFINE held == [p \in Ports |-> Held(p)]
           used == [p \in Ports |-> InUse(p)]
<1>1. Init => Channels!Init
    <2> SUFFICES ASSUME Init PROVE held = [p \in Ports |-> << >>] /\ used = [p \in Ports |-> FALSE]
        BY DEF Channels!Init
    <2>1. ASSUME NEW p \in Ports PROVE Held(p) = << >> /\ InUse(p) = FALSE
        <3>1. Count(p) = 0 /\ InUse(p) = FALSE
            BY <2>1 DEF Init, InUse, Count
        <3> QED BY <3>1 DEF Held
    <2> QED BY <2>1
<1>2. IInv /\ IInv' /\ [Next]_vars => [Channels!Next]_Channels!cvars
    <2> SUFFICES ASSUME IInv, IInv', [Next]_vars
                 PROVE  Channels!Next \/ (held' = held /\ used' = used)
        BY DEF Channels!cvars
    <2>1. CASE \A p \in Ports : Quiet(p)
        BY <2>1 DEF Quiet, InUse
    <2>2. ASSUME NEW t \in Threads, Accepts(t) PROVE Channels!Next
        <3>1. PICK d \in Ports :
                  /\ PostDataReady(t) /\ d = dest(t)
                  /\ Len(Held(d)) < bufferLength
                  /\ Held(d)' = Append(Held(d), <<pkt(t), pkt(t)>>)
                  /\ \A p \in Ports : InUse(p)' <=> InUse(p)
                  /\ \A p \in Ports \ {d} : Held(p)' = Held(p)
            BY <2>2 DEF Accepts
        <3>2. <<pkt(t), pkt(t)>> \in Pairs
            BY <3>1, PacketMade DEF PostDataReady, Pairs, IInv
        <3>3. used' = used
            BY <3>1 DEF InUse
        <3>4. held' = [held EXCEPT ![d] = Append(held[d], <<pkt(t), pkt(t)>>)]
            BY <3>1
        <3>5. Len(held[d]) < bufferLength
            BY <3>1
        <3>6. Channels!Accept(d, <<pkt(t), pkt(t)>>)
            BY <3>3, <3>4, <3>5 DEF Channels!Accept
        <3> QED BY <3>2, <3>6 DEF Channels!Next, Pairs
    <2>3. ASSUME NEW p \in Ports, Hands(p) PROVE Channels!Next
        <3>1. held' = held
            BY <2>3 DEF Hands, Quiet
        <3>2. ~used[p] /\ held[p] # << >>
            BY <2>3 DEF Hands
        <3>3. used' = [used EXCEPT ![p] = TRUE]
            BY <2>3 DEF Hands, Quiet, InUse
        <3>4. Channels!Hand(p)
            BY <3>1, <3>2, <3>3 DEF Channels!Hand
        <3> QED BY <3>4 DEF Channels!Next
    <2>4. ASSUME NEW p \in Ports, Releases(p) PROVE Channels!Next
        <3>1. used[p]
            BY <2>4 DEF Releases
        <3>2. held' = [held EXCEPT ![p] = Tail(held[p])]
            BY <2>4 DEF Releases, Quiet
        <3>3. used' = [used EXCEPT ![p] = FALSE]
            BY <2>4 DEF Releases, Quiet, InUse
        <3>4. Channels!Release(p)
            BY <3>1, <3>2, <3>3 DEF Channels!Release
        <3> QED BY <3>4 DEF Channels!Next
    <2> QED BY <2>1, <2>2, <2>3, <2>4, StepKinds
<1> QED
    BY <1>1, <1>2, Invariance, PTL DEF Spec, ImplementsChannels, Channels!Spec

-----------------------------------------------------------------------------
(***************************************************************************)
(* What has reached a port, and in which order.  A packet arrives while    *)
(* its thread holds the mutex, behind all others, and the thread gets no   *)
(* new packet before it has returned.                                      *)
(***************************************************************************)

Got(p) == [k \in DOMAIN Arrived(p) |-> Arrived(p)[k][1]]
GotLen(p) == Len(Arrived(p))

LEMMA PacketParts ==
    ASSUME NEW x \in Packet
    PROVE  x[1] \in Threads /\ x[2] \in Nat /\ x = <<x[1], x[2]>>
    BY BoundAssumption DEF Packet

LEMMA ArrivedType ==
    ASSUME IInv, NEW p \in Ports
    PROVE  Arrived(p) \in Seq(Pairs)
<1>1. log[p] \in Seq(Pairs) /\ Held(p) \in Seq(Pairs) /\ Len(Held(p)) = Count(p)
    BY LogType, HeldType
<1>2. PICK r \in Seq(Pairs), s \in Seq(Pairs) :
          r = log[p] /\ s = (IF cpc[p] = "bufferEmptied" THEN SubSeq(Held(p), 2, Count(p)) ELSE Held(p))
    <2>1. CASE cpc[p] = "bufferEmptied"
        <3>1. Held(p) # << >>
            BY <2>1, InUseHeld DEF InUse
        <3>2. SubSeq(Held(p), 2, Count(p)) \in Seq(Pairs)
            BY <1>1, <3>1, HeadTailProperties, TailIsSubSeq
        <3> QED BY <1>1, <2>1, <3>2
    <2> QED BY <1>1, <2>1
<1>3. r \o s \in Seq(Pairs)
    BY ConcatProperties
<1> QED
    BY <1>2, <1>3 DEF Arrived

LEMMA GotType ==
    ASSUME IInv, NEW p \in Ports
    PROVE  /\ GotLen(p) \in Nat /\ DOMAIN Arrived(p) = 1 .. GotLen(p)
           /\ Got(p) \in [1 .. GotLen(p) -> Packet]
<1>1. GotLen(p) \in Nat /\ DOMAIN Arrived(p) = 1 .. GotLen(p)
    BY ArrivedType, LenProperties DEF GotLen
<1>2. \A k \in 1 .. GotLen(p) : Arrived(p)[k] \in Pairs
    BY ArrivedType, ElementOfSeq DEF GotLen
<1>3. \A k \in 1 .. GotLen(p) : Arrived(p)[k][1] \in Packet
    BY <1>2 DEF Pairs
<1> QED
    BY <1>1, <1>3 DEF Got

\* A packet reaches port d.
Gets(d, x) ==
    /\ GotLen(d)' = GotLen(d) + 1
    /\ DOMAIN Arrived(d)' = 1 .. GotLen(d) + 1
    /\ \A k \in 1 .. GotLen(d) : Arrived(d)'[k] = Arrived(d)[k] /\ Got(d)'[k] = Got(d)[k]
    /\ Arrived(d)'[GotLen(d) + 1][1] = x /\ Got(d)'[GotLen(d) + 1] = x
    /\ \A p \in Ports \ {d} : Arrived(p)' = Arrived(p)

LEMMA PostGets ==
    ASSUME IInv, NEW t \in Threads, PostDataReady(t), NEW d \in Ports, d = dest(t)
    PROVE  Gets(d, pkt(t)) /\ pkt(t) \in Packet
<1> DEFINE e == <<pkt(t), pkt(t)>>
<1>1. e \in Pairs /\ Arrived(d)' = Append(Arrived(d), e) /\ e[1] = pkt(t)
    BY PostAccepts
<1>2. \A p \in Ports \ {d} : Arrived(p)' = Arrived(p)
    BY PostAccepts DEF Quiet
<1>3. pkt(t) \in Packet
    BY PacketMade DEF PostDataReady, IInv
<1> HIDE DEF e
<1>4. /\ Append(Arrived(d), e) \in Seq(Pairs)
      /\ Len(Append(Arrived(d), e)) = GotLen(d) + 1
      /\ \A k \in 1 .. GotLen(d) : Append(Arrived(d), e)[k] = Arrived(d)[k]
      /\ Append(Arrived(d), e)[GotLen(d) + 1] = e
    BY <1>1, ArrivedType, AppendProperties DEF GotLen
<1>5. DOMAIN Append(Arrived(d), e) = 1 .. GotLen(d) + 1
    BY <1>4, LenProperties
<1>6. /\ GotLen(d)' = GotLen(d) + 1 /\ DOMAIN Arrived(d)' = 1 .. GotLen(d) + 1
      /\ \A k \in 1 .. GotLen(d) : Arrived(d)'[k] = Arrived(d)[k]
      /\ Arrived(d)'[GotLen(d) + 1][1] = pkt(t)
    BY <1>1, <1>4, <1>5 DEF GotLen
<1>7. Got(d)' = [k \in 1 .. GotLen(d) + 1 |-> Arrived(d)'[k][1]]
    BY <1>6 DEF Got
<1>8. Got(d) = [k \in 1 .. GotLen(d) |-> Arrived(d)[k][1]] /\ GotLen(d) \in Nat
    BY GotType DEF Got
<1> QED
    BY <1>2, <1>3, <1>6, <1>7, <1>8 DEF Gets

\* What has arrived was made, and before the thread asked for the mutex.
OldInv ==
    \A p \in Ports : \A k \in 1 .. GotLen(p) : LET x == Got(p)[k] IN
        x[2] <= made[x[1]] /\ (pc[x[1]] = "lock" => x[2] < made[x[1]])

\* Nothing comes between two arrivals of the packet that is being pushed.
LatestInv ==
    \A p \in Ports, t \in Threads : pc[t] \in Locked =>
        \A m, n \in 1 .. GotLen(p) : m < n /\ Got(p)[m] = pkt(t) => Got(p)[n] = pkt(t)

\* The two parts of SameOrder.
SortedInv ==
    \A p \in Ports : \A j, k \in 1 .. GotLen(p) :
        j < k /\ Got(p)[j][1] = Got(p)[k][1] => Got(p)[j][2] <= Got(p)[k][2]
AgreeInv ==
    \A p, q \in Ports : \A j, k \in 1 .. GotLen(p), m, n \in 1 .. GotLen(q) :
        j < k /\ m < n /\ Got(q)[m] = Got(p)[k] /\ Got(q)[n] = Got(p)[j] => Got(p)[j] = Got(p)[k]

OrderInv == OldInv /\ LatestInv /\ SortedInv /\ AgreeInv

\* What the steps of the threads do to their place and their packet.
Goes(u) ==
    \/ made'[u] = made[u] /\ pc'[u] = pc[u]
    \/ made'[u] = made[u] /\ pc[u] = "lock" /\ pc'[u] = "loop"
    \/ made'[u] = made[u] /\ pc[u] \in Locked /\ pc'[u] \in Locked
    \/ made'[u] = made[u] /\ pc[u] = "loop" /\ pc'[u] = "idle"
    \/ made'[u] = made[u] + 1 /\ pc[u] = "idle" /\ pc'[u] = "lock"

LEMMA ThreadsGo ==
    ASSUME IInv, [Next]_vars, NEW u \in Threads
    PROVE  Goes(u)
<1> USE DEF IInv, BasicInv
<1>1. ASSUME NEW t \in Threads, Produce(t) PROVE Goes(u)
    BY <1>1 DEF Produce, Goes, TypeOK
<1>2. ASSUME NEW t \in Threads, Lock(t) \/ Return(t) \/ PushRaises(t) PROVE Goes(u)
    BY <1>2 DEF Lock, Return, PushRaises, Goes, TypeOK
<1>3. ASSUME NEW t \in Threads,
             WaitForInput(t) \/ WriteI(t) \/ WriteQ(t) \/ AdvanceWrPtr(t) \/ PostDataReady(t)
      PROVE  Goes(u)
    BY <1>3 DEF WaitForInput, WriteI, WriteQ, AdvanceWrPtr, PostDataReady, Goes, TypeOK,
                Locked, Filling
<1>4. ASSUME UNCHANGED <<pc, made>> PROVE Goes(u)
    BY <1>4 DEF Goes
<1>5. ASSUME NEW c \in Controllers,
             (\E call \in Calls : CallController(c, call)) \/ ControllerStep(c)
      PROVE  UNCHANGED <<pc, made>>
    BY <1>5 DEF CallController, ControllerStep, ConnectPort, DisconnectPort
<1>6. ASSUME NEW p \in Ports, ConsumerStep(p) \/ Crash(p) PROVE UNCHANGED <<pc, made>>
    BY <1>6 DEF ConsumerStep, GetData, ReadI, ReadQ, BufferEmptied, Crash, senderVars
<1>7. UNCHANGED vars => UNCHANGED <<pc, made>>
    BY DEF vars, senderVars
<1> QED
    BY <1>1, <1>2, <1>3, <1>4, <1>5, <1>6, <1>7 DEF Next, ThreadStep

\* A step that is not a servant's last leaves what has arrived alone.
LEMMA NothingArrives ==
    ASSUME IInv, IInv', [Next]_vars, \A t \in Threads : ~PostDataReady(t), NEW p \in Ports
    PROVE  Arrived(p)' = Arrived(p)
<1>1. CASE UNCHANGED vars
    BY <1>1, SenderQuiet DEF vars, Quiet
<1>2. ASSUME NEW t \in Threads, Produce(t) \/ Lock(t) \/ Return(t) \/ PushRaises(t)
      PROVE  Quiet(p)
    BY <1>2, SenderQuiet DEF Produce, Lock, Return, PushRaises
<1>3. ASSUME NEW t \in Threads,
             WaitForInput(t) \/ WriteI(t) \/ WriteQ(t) \/ AdvanceWrPtr(t)
      PROVE  Quiet(p)
    BY <1>3, ServantQuiet
<1>4. ASSUME NEW c \in Controllers,
             (\E call \in Calls : CallController(c, call)) \/ ControllerStep(c)
      PROVE  Quiet(p)
    BY <1>4, SenderQuiet DEF CallController, ControllerStep, ConnectPort, DisconnectPort
<1>5. ASSUME NEW q \in Ports, ReadI(q) \/ ReadQ(q) \/ Crash(q) PROVE Quiet(p)
    BY <1>5, ReadQuiet
<1>6. ASSUME NEW q \in Ports, GetData(q) \/ BufferEmptied(q) PROVE Arrived(p)' = Arrived(p)
    BY <1>6, GetDataHands, BufferEmptiedReleases DEF Quiet
<1> QED
    BY <1>1, <1>2, <1>3, <1>4, <1>5, <1>6 DEF Next, ThreadStep, ConsumerStep, Quiet

LEMMA OrderInit == Init => OrderInv
<1> SUFFICES ASSUME Init PROVE OrderInv
    OBVIOUS
<1>1. \A p \in Ports : Arrived(p) = << >>
    <2> TAKE p \in Ports
    <2>1. Count(p) = 0 /\ cpc[p] = "getData" /\ log[p] = << >>
        BY DEF Init, InUse, Count
    <2>2. Held(p) = << >>
        BY <2>1 DEF Held
    <2> QED BY <2>1, <2>2 DEF Arrived
<1>2. \A p \in Ports : GotLen(p) = 0
    BY <1>1 DEF GotLen
<1> QED
    BY <1>2 DEF OrderInv, OldInv, LatestInv, SortedInv, AgreeInv

LEMMA OrderQuiet ==
    ASSUME IInv, OrderInv, \A p \in Ports : Arrived(p)' = Arrived(p), \A u \in Threads : Goes(u)
    PROVE  OrderInv'
<1>1. \A p \in Ports : /\ Got(p)' = Got(p) /\ GotLen(p)' = GotLen(p) /\ GotLen(p) \in Nat
                       /\ \A k \in 1 .. GotLen(p) : Got(p)[k] \in Packet
    BY GotType DEF Got, GotLen
<1>2. OldInv'
    <2> SUFFICES ASSUME NEW p \in Ports, NEW k \in 1 .. GotLen(p)
                 PROVE  /\ Got(p)[k][2] <= made'[Got(p)[k][1]]
                        /\ pc'[Got(p)[k][1]] = "lock" => Got(p)[k][2] < made'[Got(p)[k][1]]
        BY <1>1 DEF OldInv
    <2>1. Got(p)[k][1] \in Threads /\ Got(p)[k][2] \in Nat
        BY <1>1, PacketParts
    <2>2. PICK u \in Threads, n \in Nat : u = Got(p)[k][1] /\ n = Got(p)[k][2]
        BY <2>1
    <2>3. n <= made[u] /\ (pc[u] = "lock" => n < made[u])
        BY <2>2 DEF OrderInv, OldInv
    <2>4. made[u] \in Nat
        BY DEF IInv, BasicInv, TypeOK
    <2>5. n <= made'[u] /\ (pc'[u] = "lock" => n < made'[u])
        BY <2>3, <2>4 DEF Goes, Locked, Filling
    <2> QED BY <2>2, <2>5
<1>3. LatestInv'
    <2> SUFFICES ASSUME NEW p \in Ports, NEW t \in Threads, pc'[t] \in Locked,
                        NEW m \in 1 .. GotLen(p), NEW n \in 1 .. GotLen(p), m < n,
                        Got(p)[m] = pkt(t)'
                 PROVE  Got(p)[n] = pkt(t)'
        BY <1>1 DEF LatestInv
    <2>1. pkt(t)' = pkt(t) /\ pc[t] \in Locked \cup {"lock"}
        BY DEF Goes, Locked, Filling, pkt
    <2>2. pc[t] # "lock"
        <3>1. Got(p)[m] = <<t, made[t]>> /\ Got(p)[m][1] = t /\ Got(p)[m][2] = made[t]
            BY <2>1 DEF pkt
        <3>2. made[t] \in Nat
            BY DEF IInv, BasicInv, TypeOK
        <3> QED BY <3>1, <3>2 DEF OrderInv, OldInv
    <2> QED BY <2>1, <2>2 DEF OrderInv, LatestInv
<1>4. SortedInv' /\ AgreeInv'
    BY <1>1 DEF OrderInv, SortedInv, AgreeInv
<1> QED
    BY <1>2, <1>3, <1>4 DEF OrderInv

LEMMA OrderPost ==
    ASSUME IInv, OrderInv, NEW t \in Threads, PostDataReady(t), \A u \in Threads : Goes(u)
    PROVE  OrderInv'
<1>1. PICK d \in Ports : d = dest(t)
    BY DestType DEF PostDataReady, Filling, IInv
<1>2. PICK x \in Packet : x = pkt(t) /\ Gets(d, x)
    BY <1>1, PostGets
<1>3. x[1] = t /\ x[2] = made[t] /\ made' = made /\ pc[t] = "post" /\ pc'[t] = "loop"
    BY <1>2 DEF PostDataReady, pkt, IInv, BasicInv, TypeOK
<1>4. \A u \in Threads \ {t} : pc'[u] = pc[u] /\ pc[u] \notin Locked
    BY <1>3, OneWriter DEF PostDataReady, Locked, Filling, IInv, BasicInv, TypeOK
<1>5. \A p \in Ports \ {d} : Got(p)' = Got(p) /\ GotLen(p)' = GotLen(p)
    BY <1>2 DEF Gets, Got, GotLen
<1>6. PICK n \in Nat : n = GotLen(d) /\ GotLen(d)' = n + 1
    BY <1>2, GotType DEF Gets
<1>7. Got(d)'[n + 1] = x /\ \A k \in 1 .. n : Got(d)'[k] = Got(d)[k]
    BY <1>2, <1>6 DEF Gets
<1>8. \A k \in 1 .. n + 1 : k = n + 1 \/ k \in 1 .. n
    OBVIOUS
<1>9. \A p \in Ports : GotLen(p) \in Nat /\ \A k \in 1 .. GotLen(p) : Got(p)[k] \in Packet
    BY GotType
\* Whatever has arrived at p after x is x.
<1>10. ASSUME NEW p \in Ports, NEW j \in 1 .. GotLen(p), NEW k \in 1 .. GotLen(p),
              j < k, Got(p)[j] = x
       PROVE  Got(p)[k] = x
    BY <1>2, <1>3, <1>10 DEF OrderInv, LatestInv, Locked, Filling
<1>11. OldInv'
    <2>1. ASSUME NEW p \in Ports, NEW k \in 1 .. GotLen(p), NEW y, y = Got(p)[k]
          PROVE  y[2] <= made'[y[1]] /\ (pc'[y[1]] = "lock" => y[2] < made'[y[1]])
        <3>1. y[1] \in Threads /\ y[2] <= made[y[1]] /\ (pc[y[1]] = "lock" => y[2] < made[y[1]])
            BY <1>9, <2>1, PacketParts DEF OrderInv, OldInv
        <3> QED BY <1>3, <1>4, <3>1
    <2>2. x[2] <= made'[x[1]] /\ pc'[x[1]] # "lock"
        <3>1. made[t] \in Nat
            BY DEF IInv, BasicInv, TypeOK
        <3> QED BY <1>3, <3>1
    <2>3. ASSUME NEW p \in Ports, NEW k \in 1 .. GotLen(p)', NEW y, y = Got(p)'[k]
          PROVE  y[2] <= made'[y[1]] /\ (pc'[y[1]] = "lock" => y[2] < made'[y[1]])
        BY <1>5, <1>6, <1>7, <1>8, <2>1, <2>2, <2>3
    <2> QED BY <2>3 DEF OldInv
<1>12. LatestInv'
    <2> SUFFICES ASSUME NEW p \in Ports, NEW u \in Threads, pc'[u] \in Locked,
                        NEW j \in 1 .. GotLen(p)', NEW k \in 1 .. GotLen(p)', j < k,
                        Got(p)'[j] = pkt(u)'
                 PROVE  Got(p)'[k] = pkt(u)'
        BY DEF LatestInv
    <2>1. u = t /\ pkt(u)' = x
        BY <1>2, <1>3, <1>4 DEF pkt
    <2>2. CASE p # d
        BY <1>5, <1>10, <2>1, <2>2
    <2>3. CASE p = d /\ k \in 1 .. n
        BY <1>6, <1>7, <1>10, <2>1, <2>3
    <2>4. CASE p = d /\ k = n + 1
        BY <1>7, <2>1, <2>4
    <2> QED BY <1>6, <1>8, <2>2, <2>3, <2>4
<1>13. SortedInv'
    <2> SUFFICES ASSUME NEW p \in Ports, NEW j \in 1 .. GotLen(p)', NEW k \in 1 .. GotLen(p)',
                        j < k, Got(p)'[j][1] = Got(p)'[k][1]
                 PROVE  Got(p)'[j][2] <= Got(p)'[k][2]
        BY DEF SortedInv
    <2>1. CASE p # d
        BY <1>5, <2>1 DEF OrderInv, SortedInv
    <2>2. CASE p = d /\ k \in 1 .. n
        BY <1>6, <1>7, <2>2 DEF OrderInv, SortedInv
    <2>3. CASE p = d /\ k = n + 1
        <3>1. j \in 1 .. n /\ Got(p)'[j] = Got(p)[j] /\ Got(p)'[k] = x
            BY <1>6, <1>7, <2>3
        <3>2. Got(p)[j][1] = t /\ Got(p)[j][2] <= made[Got(p)[j][1]]
            BY <1>3, <1>6, <2>3, <3>1 DEF OrderInv, OldInv
        <3> QED BY <1>3, <3>1, <3>2
    <2> QED BY <1>6, <1>8, <2>1, <2>2, <2>3
<1>14. AgreeInv'
    <2> SUFFICES ASSUME NEW p \in Ports, NEW q \in Ports,
                        NEW j \in 1 .. GotLen(p)', NEW k \in 1 .. GotLen(p)',
                        NEW l \in 1 .. GotLen(q)', NEW m \in 1 .. GotLen(q)', j < k, l < m,
                        Got(q)'[l] = Got(p)'[k], Got(q)'[m] = Got(p)'[j]
                 PROVE  Got(p)'[j] = Got(p)'[k]
        BY DEF AgreeInv
    \* The later of two arrivals is new, or neither is.
    <2>1. /\ \/ p = d /\ k = n + 1
             \/ k \in 1 .. GotLen(p) /\ Got(p)'[k] = Got(p)[k]
          /\ j \in 1 .. GotLen(p) /\ Got(p)'[j] = Got(p)[j]
        BY <1>5, <1>6, <1>7, <1>8, <1>9
    <2>2. /\ \/ q = d /\ m = n + 1
             \/ m \in 1 .. GotLen(q) /\ Got(q)'[m] = Got(q)[m]
          /\ l \in 1 .. GotLen(q) /\ Got(q)'[l] = Got(q)[l]
        BY <1>5, <1>6, <1>7, <1>8, <1>9
    <2>3. CASE p = d /\ k = n + 1
        <3>1. Got(p)'[k] = x /\ Got(q)[l] = x
            BY <1>7, <2>2, <2>3
        <3>2. Got(q)'[m] = x
            BY <1>7, <1>10, <2>2, <3>1
        <3> QED BY <3>1, <3>2
    <2>4. CASE k \in 1 .. GotLen(p) /\ Got(p)'[k] = Got(p)[k] /\ q = d /\ m = n + 1
        <3>1. Got(q)'[m] = x /\ Got(p)[j] = x
            BY <1>7, <2>1, <2>4
        <3>2. Got(p)[k] = x
            BY <1>10, <2>1, <2>4, <3>1
        <3> QED BY <2>4, <3>1, <3>2
    <2>5. CASE k \in 1 .. GotLen(p) /\ Got(p)'[k] = Got(p)[k]
               /\ m \in 1 .. GotLen(q) /\ Got(q)'[m] = Got(q)[m]
        <3>1. Got(q)[l] = Got(p)[k] /\ Got(q)[m] = Got(p)[j]
            BY <2>1, <2>2, <2>5
        <3>2. Got(p)[j] = Got(p)[k]
            BY <2>1, <2>2, <2>5, <3>1 DEF OrderInv, AgreeInv
        <3> QED BY <2>1, <2>5, <3>2
    <2> QED BY <2>1, <2>2, <2>3, <2>4, <2>5
<1> QED
    BY <1>11, <1>12, <1>13, <1>14 DEF OrderInv

LEMMA OrderStep == IInv /\ IInv' /\ OrderInv /\ [Next]_vars => OrderInv'
    BY ThreadsGo, NothingArrives, OrderQuiet, OrderPost

\* Two ports never disagree about the order of two packets, and each gets the
\* packets of a thread in the order they were made, though nothing but the
\* uses port's mutex orders the threads.
THEOREM SameOrderAlways == Spec => []SameOrder
<1>1. IInv /\ OrderInv => SameOrder
    <2> SUFFICES ASSUME IInv, OrderInv PROVE SameOrder
        OBVIOUS
    <2>1. \A p \in Ports : Got(p) = [k \in 1 .. GotLen(p) |-> Arrived(p)[k][1]]
                           /\ DOMAIN Arrived(p) = 1 .. GotLen(p) /\ GotLen(p) \in Nat
        BY GotType DEF Got
    <2> DEFINE got == [p \in Ports |-> LET s == Arrived(p) IN [k \in DOMAIN s |-> s[k][1]]]
    <2>2. \A p \in Ports : got[p] = Got(p) /\ DOMAIN got[p] = 1 .. GotLen(p)
        BY <2>1 DEF Got
    <2> HIDE DEF got
    <2>3. ASSUME NEW p \in Ports, NEW q \in Ports,
                 NEW j \in DOMAIN got[p], NEW k \in DOMAIN got[p], j < k
          PROVE  /\ got[p][j][1] = got[p][k][1] => got[p][j][2] <= got[p][k][2]
                 /\ \A m, n \in DOMAIN got[q] :
                        m < n /\ got[q][m] = got[p][k] /\ got[q][n] = got[p][j]
                        => got[p][j] = got[p][k]
        <3>1. /\ j \in 1 .. GotLen(p) /\ k \in 1 .. GotLen(p)
              /\ got[p][j] = Got(p)[j] /\ got[p][k] = Got(p)[k]
            BY <2>2
        <3>2. got[p][j][1] = got[p][k][1] => got[p][j][2] <= got[p][k][2]
            BY <2>3, <3>1 DEF OrderInv, SortedInv
        <3>3. ASSUME NEW m \in 1 .. GotLen(q), NEW n \in 1 .. GotLen(q), m < n,
                     Got(q)[m] = Got(p)[k], Got(q)[n] = Got(p)[j]
              PROVE  Got(p)[j] = Got(p)[k]
            BY <2>3, <3>1, <3>3 DEF OrderInv, AgreeInv
        <3> QED BY <2>2, <3>1, <3>2, <3>3
    <2> QED BY <2>3 DEF SameOrder, got
<1> QED
    BY <1>1, OrderInit, OrderStep, Invariance, PTL DEF Spec

-----------------------------------------------------------------------------
(* The fan-out: how often the packet of a thread has reached a port, and   *)
(* how many connections to the port the thread has passed.                 *)

Came(p, t) == {k \in DOMAIN Arrived(p) : Arrived(p)[k][1] = pkt(t)}
PassedBy(p, t) == {i \in DOMAIN dest_ports : i < idx[t] /\ dest_ports[i].port = p}

FanInv ==
    \A t \in Threads : pc[t] \in Locked =>
        \A p \in Ports : Cardinality(Came(p, t)) = Cardinality(PassedBy(p, t))

LEMMA FiniteSets ==
    ASSUME IInv, NEW t \in Threads, NEW p \in Ports
    PROVE  IsFiniteSet(Came(p, t)) /\ IsFiniteSet(PassedBy(p, t))
<1>1. DOMAIN Arrived(p) = 1 .. GotLen(p) /\ GotLen(p) \in Nat
    BY GotType
<1>2. DOMAIN dest_ports = 1 .. Len(dest_ports) /\ Len(dest_ports) \in Nat
    BY LenProperties DEF IInv, BasicInv, TypeOK
<1>3. Came(p, t) \in SUBSET (1 .. GotLen(p)) /\ PassedBy(p, t) \in SUBSET (1 .. Len(dest_ports))
    BY <1>1, <1>2 DEF Came, PassedBy
<1>4. IsFiniteSet(1 .. GotLen(p)) /\ IsFiniteSet(1 .. Len(dest_ports))
    BY <1>1, <1>2, FS_Interval
<1> QED
    BY <1>3, <1>4, FS_Subset

\* Who is in the loop stays at its place while other steps are taken.
LEMMA HolderStays ==
    ASSUME IInv, [Next]_vars, NEW t \in Threads, ~PostDataReady(t), pc'[t] \in Locked
    PROVE  \/ pc[t] \in Locked /\ UNCHANGED dest_ports /\ idx'[t] = idx[t] /\ pkt(t)' = pkt(t)
           \/ pc[t] = "lock" /\ idx'[t] = 1 /\ pkt(t)' = pkt(t)
<1> USE DEF IInv, BasicInv
<1> DEFINE Stays == /\ pc[t] \in Locked /\ UNCHANGED dest_ports
                    /\ idx'[t] = idx[t] /\ pkt(t)' = pkt(t)
           Starts == pc[t] = "lock" /\ idx'[t] = 1 /\ pkt(t)' = pkt(t)
<1>1. ASSUME NEW u \in Threads, Produce(u) PROVE Stays
    BY <1>1 DEF Produce, TypeOK, Locked, Filling, pkt
<1>2. ASSUME NEW u \in Threads, Lock(u) PROVE Stays \/ Starts
    BY <1>2 DEF Lock, TypeOK, Locked, Filling, pkt
<1>3. ASSUME NEW u \in Threads, Return(u) \/ PushRaises(u) PROVE Stays
    BY <1>3 DEF Return, PushRaises, TypeOK, Locked, Filling, pkt
<1>4. ASSUME NEW u \in Threads,
             WaitForInput(u) \/ WriteI(u) \/ WriteQ(u) \/ AdvanceWrPtr(u)
      PROVE  Stays
    BY <1>4 DEF WaitForInput, WriteI, WriteQ, AdvanceWrPtr, TypeOK, Locked, Filling, pkt
<1>5. ASSUME NEW u \in Threads, PostDataReady(u) PROVE Stays
    <2>1. u # t
        BY <1>5
    <2> QED BY <1>5, <2>1 DEF PostDataReady, TypeOK, Locked, Filling, pkt
<1>6. ASSUME NEW c \in Controllers,
             (\E call \in Calls : CallController(c, call)) \/ ControllerStep(c)
      PROVE  Stays
    <2>1. pc' = pc /\ idx' = idx /\ made' = made
        BY <1>6 DEF CallController, ControllerStep, ConnectPort, DisconnectPort
    <2>2. UNCHANGED dest_ports
        BY <1>6, <2>1, NoneAssumption
           DEF CallController, ControllerStep, ConnectPort, DisconnectPort, HolderInv
    <2> QED BY <2>1, <2>2 DEF pkt
<1>7. ASSUME NEW q \in Ports, ConsumerStep(q) \/ Crash(q) PROVE Stays
    BY <1>7 DEF ConsumerStep, GetData, ReadI, ReadQ, BufferEmptied, Crash, senderVars, pkt
<1>8. ASSUME UNCHANGED vars PROVE Stays
    BY <1>8 DEF vars, senderVars, pkt
<1> QED
    BY <1>1, <1>2, <1>3, <1>4, <1>5, <1>6, <1>7, <1>8 DEF Next, ThreadStep

LEMMA FanQuiet ==
    ASSUME IInv, IInv', OrderInv, FanInv, [Next]_vars, \A u \in Threads : ~PostDataReady(u)
    PROVE  FanInv'
<1> SUFFICES ASSUME NEW t \in Threads, pc'[t] \in Locked, NEW p \in Ports
             PROVE  Cardinality(Came(p, t)') = Cardinality(PassedBy(p, t)')
    BY DEF FanInv
<1>1. Arrived(p)' = Arrived(p)
    BY NothingArrives
<1>2. CASE pc[t] \in Locked /\ UNCHANGED dest_ports /\ idx'[t] = idx[t] /\ pkt(t)' = pkt(t)
    <2>1. Came(p, t)' = Came(p, t) /\ PassedBy(p, t)' = PassedBy(p, t)
        BY <1>1, <1>2 DEF Came, PassedBy
    <2> QED BY <1>2, <2>1 DEF FanInv
\* The thread has just taken the mutex: its packet has been nowhere yet.
<1>3. CASE pc[t] = "lock" /\ idx'[t] = 1 /\ pkt(t)' = pkt(t)
    <2>1. made[t] \in Nat /\ DOMAIN dest_ports' \subseteq Nat \ {0}
        <3>1. dest_ports' \in Seq(Connection) /\ made[t] \in Nat
            BY DEF IInv, BasicInv, TypeOK
        <3>2. DOMAIN dest_ports' = 1 .. Len(dest_ports') /\ Len(dest_ports') \in Nat
            BY <3>1, LenProperties
        <3> QED BY <3>1, <3>2
    <2>2. ASSUME NEW k \in DOMAIN Arrived(p) PROVE Arrived(p)[k][1] # pkt(t)
        <3>1. k \in 1 .. GotLen(p) /\ Got(p)[k] = Arrived(p)[k][1]
            BY GotType DEF Got
        <3>2. ASSUME Got(p)[k] = pkt(t) PROVE FALSE
            <4>1. Got(p)[k][1] = t /\ Got(p)[k][2] = made[t]
                BY <3>2 DEF pkt
            <4> QED BY <1>3, <2>1, <3>1, <4>1 DEF OrderInv, OldInv
        <3> QED BY <3>1, <3>2
    <2>3. Came(p, t)' = {}
        BY <1>1, <1>3, <2>2 DEF Came
    <2>4. PassedBy(p, t)' = {}
        BY <1>3, <2>1 DEF PassedBy
    <2> QED BY <2>3, <2>4
<1> QED
    BY <1>2, <1>3, HolderStays

LEMMA FanPost ==
    ASSUME IInv, FanInv, NEW t \in Threads, PostDataReady(t)
    PROVE  FanInv'
<1>1. PICK d \in Ports : d = dest(t)
    BY DestType DEF PostDataReady, Filling, IInv
<1>2. Gets(d, pkt(t))
    BY <1>1, PostGets
<1>3. /\ pc[t] = "post" /\ pc[t] \in Locked /\ pkt(t)' = pkt(t) /\ dest_ports' = dest_ports
      /\ idx'[t] = idx[t] + 1 /\ idx[t] \in Nat \ {0}
    BY DEF PostDataReady, pkt, Locked, Filling, IInv, BasicInv, TypeOK
<1>4. ASSUME NEW u \in Threads, pc'[u] \in Locked PROVE u = t
    BY <1>3, <1>4, OneWriter DEF PostDataReady, IInv, BasicInv, TypeOK
<1>5. DOMAIN dest_ports = 1 .. Len(dest_ports) /\ Len(dest_ports) \in Nat
    BY LenProperties DEF IInv, BasicInv, TypeOK
<1>6. idx[t] \in DOMAIN dest_ports /\ dest_ports[idx[t]].port = d
    BY <1>1, <1>3, <1>5 DEF dest, IInv, BasicInv, IndexInv, Filling
<1>7. GotLen(d) \in Nat /\ DOMAIN Arrived(d) = 1 .. GotLen(d)
    BY GotType
<1>8. ASSUME NEW p \in Ports, p # d
      PROVE  Came(p, t)' = Came(p, t) /\ PassedBy(p, t)' = PassedBy(p, t)
    <2>1. Came(p, t)' = Came(p, t)
        BY <1>2, <1>3, <1>8 DEF Gets, Came
    <2>2. \A i \in DOMAIN dest_ports :
              (i < idx[t] + 1 /\ dest_ports[i].port = p) <=> (i < idx[t] /\ dest_ports[i].port = p)
        BY <1>3, <1>5, <1>6, <1>8
    <2> QED BY <1>3, <2>1, <2>2 DEF PassedBy
<1>9. Came(d, t)' = Came(d, t) \cup {GotLen(d) + 1} /\ GotLen(d) + 1 \notin Came(d, t)
    <2>1. GotLen(d) + 1 \notin 1 .. GotLen(d) /\ 1 .. GotLen(d) + 1 = 1 .. GotLen(d) \cup {GotLen(d) + 1}
        BY <1>7
    <2> QED BY <1>2, <1>3, <1>7, <2>1 DEF Gets, Came
<1>10. PassedBy(d, t)' = PassedBy(d, t) \cup {idx[t]} /\ idx[t] \notin PassedBy(d, t)
    <2>1. \A i \in DOMAIN dest_ports : i < idx[t] + 1 <=> i < idx[t] \/ i = idx[t]
        BY <1>3, <1>5
    <2> QED BY <1>3, <1>6, <2>1 DEF PassedBy
<1>11. /\ Cardinality(Came(d, t)') = Cardinality(Came(d, t)) + 1
       /\ Cardinality(PassedBy(d, t)') = Cardinality(PassedBy(d, t)) + 1
    BY <1>9, <1>10, FiniteSets, FS_AddElement
<1>12. \A p \in Ports : Cardinality(Came(p, t)') = Cardinality(PassedBy(p, t)')
    BY <1>3, <1>8, <1>11 DEF FanInv
<1> QED
    BY <1>4, <1>12 DEF FanInv

\* Whatever connectPort and disconnectPort do meanwhile, a pushPacket gives
\* its packet once to each connection it passes, and to nobody else.
THEOREM FanOutCompleteAlways == Spec => []FanOutComplete
<1>1. Init => FanInv
    BY DEF Init, FanInv, Locked, Filling
<1>2. IInv /\ IInv' /\ OrderInv /\ FanInv /\ [Next]_vars => FanInv'
    BY FanQuiet, FanPost
<1>3. FanInv => FanOutComplete
    BY DEF FanInv, FanOutComplete, Locked, Came, PassedBy
<1> QED
    BY <1>1, <1>2, <1>3, OrderInit, OrderStep, Invariance, PTL DEF Spec
=============================================================================
