---------------------------- MODULE RadioDevice ----------------------------
(***************************************************************************)
(* Starting and stopping the USRP (src/sca/platform/USRP): the radio       *)
(* control ports set flags that the receive and transmit threads of USRP_i *)
(* poll, and every start makes another thread.  The caller is the resource *)
(* usrp-control, whose start and stop turn into calls of the two ports.    *)
(*                                                                         *)
(* One client calls usrp-control at a time, so the mutexes of the ports    *)
(* are never contended; the threads take no mutex at all, so a step of a   *)
(* control call is one read or write of what they share.  The condition of *)
(* the receive loop is one step (a call between its reads has the effect   *)
(* of one before or after), and the test and the load of the countdown are *)
(* one load.  The client of the received packets takes them: pushPacket    *)
(* returns.  The transmit port is the bounded ring of PacketPorts, of      *)
(* which only the two semaphores matter here.                              *)
(***************************************************************************)
EXTENDS Integers

CONSTANTS
    Counts,         \* what SET_NUM_RX_PACKETS is given; Endless is the default
    BufferLength,   \* slots of the transmit port
    MaxCalls,       \* bound: calls of start and stop
    MaxBothCalls    \* bound: the same when both sides are used

Endless == -1

ASSUME CountsAssumption == Counts \subseteq Nat
ASSUME BufferAssumption == BufferLength \in Nat \ {0}
ASSUME RadioBound == MaxCalls \in Nat /\ MaxBothCalls \in 0 .. MaxCalls

\* The threads are named by the call of start that makes them.
Starts == 1 .. MaxCalls

VARIABLES
    (* usrp-control *)
    call,       \* the last call made of it
    step,       \* what it does next, or "idle"
    tx_start, rx_start, \* its properties, configured before the first call
    calls,      \* calls made so far
    (* USRP_i *)
    set_rx_packet_count, rx_packet_count,
    rx_active, tx_active,
    rx, tx,     \* the step of the receive and the transmit thread of each start
    seen,       \* the count a receive thread has loaded
    (* the port that feeds the transmitter: its semaphores *)
    data_ready, ready_for_input,
    (* the device *)
    rxOn, txOn,
    (* history of the receive threads *)
    owed,       \* the packets a thread still has to deliver, while no other
                \* thread and no stop has interfered with it, else None
    late        \* the packets it has pushed since stop returned, up to two

settings == <<tx_start, rx_start, set_rx_packet_count>>
controlVars == <<call, step, calls>>
histVars == <<owed, late>>
rxVars == <<rx_packet_count, rx_active, rx, seen, rxOn, histVars>>
txVars == <<tx_active, tx, txOn>>
portVars == <<data_ready, ready_for_input>>
vars == <<controlVars, settings, rxVars, txVars, portVars>>

\* A reception nothing is owed of, and the most packets too many noted of one.
None == -2
Surplus == -1

RxLive(t) == rx[t] \notin {"none", "ended"}
TxLive(t) == tx[t] \notin {"none", "ended"}

Init ==
    /\ call = "none"
    /\ step = "idle"
    /\ tx_start \in BOOLEAN
    /\ rx_start \in BOOLEAN
    /\ calls = 0
    /\ set_rx_packet_count = Endless
    /\ rx_packet_count = 1024
    /\ rx_active = FALSE
    /\ tx_active = FALSE
    /\ rx = [t \in Starts |-> "none"]
    /\ seen = [t \in Starts |-> 0]
    /\ owed = [t \in Starts |-> None]
    /\ late = [t \in Starts |-> 0]
    /\ tx = [t \in Starts |-> "none"]
    /\ data_ready = 0
    /\ ready_for_input = BufferLength
    /\ rxOn = FALSE
    /\ txOn = FALSE

-----------------------------------------------------------------------------
(* usrp-control: start calls the transmit port, then the receive port, as  *)
(* its properties tx_start and rx_start say; stop calls both, in the other *)
(* order.                                                                  *)

MayCall ==
    /\ step = "idle"
    /\ calls < IF tx_start /\ rx_start THEN MaxBothCalls ELSE MaxCalls

\* Packets pushed after a stop are counted from that stop.
CallStart ==
    /\ MayCall
    /\ calls' = calls + 1
    /\ call' = "start"
    /\ step' = IF tx_start THEN "powerTx" ELSE IF rx_start THEN "setCount" ELSE "idle"
    /\ late' = [t \in Starts |-> 0]
    /\ UNCHANGED <<settings, rx_packet_count, rx_active>>
    /\ UNCHANGED <<rx, seen, rxOn, owed, txVars, portVars>>

CallStop ==
    /\ MayCall
    /\ calls' = calls + 1
    /\ call' = "stop"
    /\ step' = "disarmRx"
    /\ UNCHANGED <<settings, rxVars, txVars, portVars>>

\* USRP_TX_Control::start
PowerTx ==
    /\ step = "powerTx"
    /\ txOn' = (txOn \/ ~tx_active)
    /\ step' = "spawnTx"
    /\ UNCHANGED <<call, calls, settings, rxVars, tx_active, tx, portVars>>

SpawnTx ==
    /\ step = "spawnTx"
    /\ tx' = [tx EXCEPT ![calls] = "new"]
    /\ step' = IF rx_start THEN "setCount" ELSE "idle"
    /\ UNCHANGED <<call, calls, settings, rxVars, tx_active, txOn, portVars>>

\* USRP_RX_Control::start
SetCount ==
    /\ step = "setCount"
    /\ rx_packet_count' = set_rx_packet_count
    /\ owed' = [t \in Starts |-> None]
    /\ step' = "armRx"
    /\ UNCHANGED <<call, calls, settings, rx_active>>
    /\ UNCHANGED <<rx, seen, rxOn, late, txVars, portVars>>

ArmRx ==
    /\ step = "armRx"
    /\ rx_active' = TRUE
    /\ step' = "spawnRx"
    /\ UNCHANGED <<call, calls, settings, rx_packet_count>>
    /\ UNCHANGED <<rx, seen, rxOn, histVars, txVars, portVars>>

\* An endless reception owes nothing, nor does one that is not alone.
SpawnRx ==
    /\ step = "spawnRx"
    /\ rx' = [rx EXCEPT ![calls] = "new"]
    /\ owed' = [owed EXCEPT ![calls] =
                   IF rx_packet_count # Endless /\ rx_active
                      /\ \A t \in Starts : ~RxLive(t)
                   THEN rx_packet_count ELSE None]
    /\ step' = "idle"
    /\ UNCHANGED <<call, calls, settings, rx_packet_count>>
    /\ UNCHANGED <<rx_active, seen, rxOn, late, txVars, portVars>>

\* USRP_RX_Control::stop
DisarmRx ==
    /\ step = "disarmRx"
    /\ rx_active' = FALSE
    /\ owed' = [t \in Starts |-> None]
    /\ step' = "unpowerTx"
    /\ UNCHANGED <<call, calls, settings, rx_packet_count>>
    /\ UNCHANGED <<rx, seen, rxOn, late, txVars, portVars>>

\* USRP_TX_Control::stop
UnpowerTx ==
    /\ step = "unpowerTx"
    /\ txOn' = (txOn /\ ~tx_active)
    /\ step' = "disarmTx"
    /\ UNCHANGED <<call, calls, settings, rxVars>>
    /\ UNCHANGED <<tx_active, tx, portVars>>

DisarmTx ==
    /\ step = "disarmTx"
    /\ tx_active' = FALSE
    /\ step' = "idle"
    /\ UNCHANGED <<call, calls, settings, rxVars>>
    /\ UNCHANGED <<tx, txOn, portVars>>

\* SET_NUM_RX_PACKETS, of USRP_RX_Control::set_values: only SetCount reads it,
\* so a client that sets it during a call may as well set it before.
SetNumRxPackets(n) ==
    /\ MayCall
    /\ set_rx_packet_count' = n
    /\ UNCHANGED <<controlVars, tx_start, rx_start, rxVars, txVars, portVars>>

ControlStep ==
    \/ PowerTx \/ SpawnTx
    \/ SetCount \/ ArmRx \/ SpawnRx
    \/ DisarmRx \/ UnpowerTx \/ DisarmTx

-----------------------------------------------------------------------------
(* rx_data_process *)

\* A step of the thread touches nothing of the control calls or the transmitter.
RxGoto(t, from, to) ==
    /\ rx[t] = from
    /\ rx' = [rx EXCEPT ![t] = to]
    /\ UNCHANGED <<controlVars, settings, txVars, portVars>>

\* Fault: the thread announces itself, as tx_data_process does.
RxEntersArmed(t) ==
    /\ RxGoto(t, "new", "test")
    /\ rxOn' = TRUE
    /\ rx_active' = TRUE
    /\ UNCHANGED <<rx_packet_count, seen, histVars>>

RxEnter(t) ==
    /\ RxGoto(t, "new", "test")
    /\ rxOn' = TRUE
    /\ UNCHANGED <<rx_packet_count, rx_active, seen, histVars>>

\* Fault: the packet that makes the count zero is not the last.
ToReceiveOneMore == rx_active /\ (rx_packet_count = Endless \/ rx_packet_count >= 0)

\* Fault: the flag is looked at only when there is no count.
ToReceiveTheRest ==
    (rx_packet_count = Endless /\ rx_active) \/ rx_packet_count > 0

\* The condition of the loop.
ToReceive == rx_active /\ (rx_packet_count = Endless \/ rx_packet_count > 0)

RxTest(t) ==
    /\ RxGoto(t, "test", IF ToReceive THEN "push" ELSE "stop")
    /\ UNCHANGED <<rx_packet_count, rx_active, seen, rxOn, histVars>>

Stopped == call = "stop" /\ step = "idle"

\* One read from the device and one packet to the connected ports.
RxPush(t) ==
    /\ RxGoto(t, "push", "count")
    /\ owed' = [owed EXCEPT ![t] = IF @ > Surplus THEN @ - 1 ELSE @]
    /\ late' = [late EXCEPT ![t] = IF Stopped /\ @ < 2 THEN @ + 1 ELSE @]
    /\ UNCHANGED <<rx_packet_count, rx_active, seen, rxOn>>

\* Fault: an endless reception is counted down as well.
LoadAlways(t) ==
    /\ RxGoto(t, "count", "store")
    /\ seen' = [seen EXCEPT ![t] = rx_packet_count]
    /\ UNCHANGED <<rx_packet_count, rx_active, rxOn, histVars>>

\* The count is loaded to be tested and decremented, then stored.
RxLoad(t) ==
    /\ RxGoto(t, "count", IF rx_packet_count = Endless THEN "test" ELSE "store")
    /\ seen' = IF rx_packet_count = Endless THEN seen
               ELSE [seen EXCEPT ![t] = rx_packet_count]
    /\ UNCHANGED <<rx_packet_count, rx_active, rxOn, histVars>>

RxStore(t) ==
    /\ RxGoto(t, "store", "test")
    /\ rx_packet_count' = seen[t] - 1
    /\ seen' = [seen EXCEPT ![t] = 0]
    /\ UNCHANGED <<rx_active, rxOn, histVars>>

RxStop(t) ==
    /\ RxGoto(t, "stop", "clear")
    /\ rxOn' = FALSE
    /\ UNCHANGED <<rx_packet_count, rx_active, seen, histVars>>

\* The thread clears the flag, whoever has set it.
RxClear(t) ==
    /\ RxGoto(t, "clear", "ended")
    /\ rx_active' = FALSE
    /\ owed' = [owed EXCEPT ![t] = None]
    /\ late' = [late EXCEPT ![t] = 0]
    /\ UNCHANGED <<rx_packet_count, seen, rxOn>>

RxStep(t) ==
    \/ RxEnter(t) \/ RxTest(t) \/ RxPush(t) \/ RxLoad(t) \/ RxStore(t)
    \/ RxStop(t) \/ RxClear(t)

-----------------------------------------------------------------------------
(* tx_data_process *)

TxGoto(t, from, to) ==
    /\ tx[t] = from
    /\ tx' = [tx EXCEPT ![t] = to]
    /\ UNCHANGED <<controlVars, settings, rxVars>>

\* tx_active is set by the thread, not by the call that made it.
TxEnter(t) ==
    /\ TxGoto(t, "new", "test")
    /\ tx_active' = TRUE
    /\ UNCHANGED <<txOn, portVars>>

\* Fault: the loop does not look at the flag.
TxTestNothing(t) ==
    /\ TxGoto(t, "test", "get")
    /\ UNCHANGED <<tx_active, txOn, portVars>>

TxTest(t) ==
    /\ TxGoto(t, "test", IF tx_active THEN "get" ELSE "stop")
    /\ UNCHANGED <<tx_active, txOn, portVars>>

TxGet(t) ==
    /\ data_ready > 0
    /\ TxGoto(t, "get", "write")
    /\ data_ready' = data_ready - 1
    /\ UNCHANGED <<tx_active, txOn, ready_for_input>>

\* The packet is written to the device and its slot given back.
TxWrite(t) ==
    /\ TxGoto(t, "write", "test")
    /\ ready_for_input' = ready_for_input + 1
    /\ UNCHANGED <<tx_active, txOn, data_ready>>

\* Fault: the thread leaves the device to the call of stop.
TxEndsOnly(t) ==
    /\ TxGoto(t, "stop", "ended")
    /\ UNCHANGED <<tx_active, txOn, portVars>>

TxStop(t) ==
    /\ TxGoto(t, "stop", "ended")
    /\ txOn' = FALSE
    /\ UNCHANGED <<tx_active, portVars>>

TxStep(t) == TxEnter(t) \/ TxTest(t) \/ TxGet(t) \/ TxWrite(t) \/ TxStop(t)

\* A component upstream sends a packet to transmit, as long as there is room.
PushPacket ==
    /\ ready_for_input > 0
    /\ ready_for_input' = ready_for_input - 1
    /\ data_ready' = data_ready + 1
    /\ UNCHANGED <<controlVars, settings, rxVars, txVars>>

-----------------------------------------------------------------------------

Next ==
    \/ CallStart
    \/ CallStop
    \/ ControlStep
    \/ \E n \in Counts : SetNumRxPackets(n)
    \/ \E t \in Starts : RxStep(t) \/ TxStep(t)
    \/ PushPacket

Spec == Init /\ [][Next]_vars

\* A call goes on and threads run; nobody owes a call or a packet.
FairSpec ==
    /\ Spec
    /\ WF_vars(ControlStep)
    /\ \A t \in Starts : WF_vars(RxStep(t)) /\ WF_vars(TxStep(t))

-----------------------------------------------------------------------------

RxSteps == {"none", "new", "test", "push", "count", "store", "stop", "clear", "ended"}
TxSteps == {"none", "new", "test", "get", "write", "stop", "ended"}

\* Types: among them that an endless reception is not counted down, and that
\* the slots in use and the free ones of the transmit port add up to no more
\* than there are.
TypeOK ==
    /\ call \in {"none", "start", "stop"}
    /\ step \in {"idle", "powerTx", "spawnTx", "setCount", "armRx", "spawnRx",
                 "disarmRx", "unpowerTx", "disarmTx"}
    /\ tx_start \in BOOLEAN
    /\ rx_start \in BOOLEAN
    /\ calls \in 0 .. MaxCalls
    /\ set_rx_packet_count \in Counts \cup {Endless}
    /\ rx_packet_count \in Nat \cup {Endless}
    /\ rx_active \in BOOLEAN
    /\ tx_active \in BOOLEAN
    /\ rx \in [Starts -> RxSteps]
    /\ seen \in [Starts -> Nat]
    /\ tx \in [Starts -> TxSteps]
    /\ data_ready \in 0 .. BufferLength
    /\ ready_for_input \in 0 .. BufferLength
    /\ rxOn \in BOOLEAN
    /\ txOn \in BOOLEAN
    /\ owed \in [Starts -> Int]
    /\ late \in [Starts -> 0 .. 2]

\* When the last thread that uses a side of the device has ended, that side
\* is switched off, in whatever order starts, stops and threads came
\* (USRP.cpp:632, 718; port_impl.cpp:164-165, 184-185).
IdleRadioSilent ==
    /\ rxOn => \E t \in Starts : RxLive(t)
    /\ txOn => step = "spawnTx" \/ \E t \in Starts : TxLive(t)

\* A reception of n packets that no other thread and no stop interferes with
\* delivers n and ends, and never one more, whatever count a client sets
\* meanwhile (USRP.cpp:609-626).
ExactCount ==
    \A t \in Starts :
        /\ owed[t] # Surplus
        /\ rx[t] = "stop" => owed[t] \in {None, 0}

\* Once stop has returned, and until the next start, no receive thread delivers
\* more than the packet it was busy with (USRP.cpp:609).
OneMoreAtMost == \A t \in Starts : late[t] <= 1

\* After a stop that no other call follows, every receive thread ends,
\* even one that had not begun yet (port_impl.cpp:383-388).
ReceptionStops ==
    Stopped ~> (~Stopped \/ \A t \in Starts : ~RxLive(t))

\* A transmit thread does nothing any more unless it is given a packet.
TxRests(t) == ~TxLive(t) \/ (tx[t] = "get" /\ data_ready = 0)

\* After a stop that no other call follows and that came when every transmit
\* thread had begun, the threads end or wait for data that is not there
\* (port_impl.cpp:172-187, USRP.cpp:690).
TransmissionRests ==
    (Stopped /\ ~tx_active /\ \A t \in Starts : tx[t] # "new")
        ~> (~Stopped \/ \A t \in Starts : TxRests(t))

\* What the comment at USRP.cpp:688 says of stop, whenever it comes: tx_active
\* is cleared by it and transmission stops.
StopEndsTransmission ==
    Stopped ~> (~Stopped \/ \A t \in Starts : TxRests(t))
=============================================================================
