------------------------- MODULE RadioDevice_proof -------------------------
(***************************************************************************)
(* Proofs about RadioDevice, for any counts, any buffer and any number of  *)
(* calls: the device is off when no thread is left, a reception left alone *)
(* delivers what was asked, and after a stop a thread finishes its packet  *)
(* at most.  The three follow from one inductive invariant, Inv.           *)
(***************************************************************************)
EXTENDS RadioDevice, TLAPS, FiniteSetTheorems

StartSteps == {"powerTx", "spawnTx", "setCount", "armRx", "spawnRx"}
StopSteps == {"disarmRx", "unpowerTx", "disarmTx"}

\* The types the steps need.
Shape ==
    /\ calls \in 0 .. MaxCalls
    /\ step # "idle" => calls \in Starts
    /\ rx_active \in BOOLEAN
    /\ tx_active \in BOOLEAN
    /\ rxOn \in BOOLEAN
    /\ txOn \in BOOLEAN
    /\ set_rx_packet_count \in Nat \cup {Endless}
    /\ rx_packet_count \in Nat \cup {Endless}
    /\ rx \in [Starts -> RxSteps]
    /\ tx \in [Starts -> TxSteps]
    /\ seen \in [Starts -> Nat]
    /\ owed \in [Starts -> Int]
    /\ late \in [Starts -> 0 .. 2]

\* Which call a step belongs to, that what stop cleared stays cleared, and that
\* the receive thread of a call is made at its last step.
CallInv ==
    /\ step \in {"idle"} \cup StartSteps \cup StopSteps
    /\ step \in StartSteps => call = "start"
    /\ step \in StopSteps => call = "stop"
    /\ call = "stop" /\ step # "disarmRx" => ~rx_active
    /\ \A t \in Starts :
           t > calls \/ (t = calls /\ step \in StartSteps) => rx[t] = "none"

\* The thread that keeps the receiver on has not passed RxStop; the one that
\* keeps the transmitter on may still have to be made.
OnInv ==
    /\ rxOn => \E t \in Starts : rx[t] \in {"test", "push", "count", "store", "stop"}
    /\ txOn => step = "spawnTx" \/ \E t \in Starts : TxLive(t)

\* Where a thread that owes packets stands, and what the count then is.
Owes(t) ==
    /\ owed[t] >= 0
    /\ rx[t] \in RxSteps \ {"none", "ended"}
    /\ rx_active
    /\ step \notin {"armRx", "spawnRx"}
    /\ \A u \in Starts \ {t} : ~RxLive(u)
    /\ rx[t] \in {"new", "test", "push"} => rx_packet_count = owed[t]
    /\ rx[t] = "push" => owed[t] > 0
    /\ rx[t] = "count" => rx_packet_count = owed[t] + 1
    /\ rx[t] = "store" => seen[t] = owed[t] + 1
    /\ rx[t] \in {"stop", "clear"} => owed[t] = 0

OwedInv == \A t \in Starts : owed[t] # None => Owes(t)

\* A thread that has pushed a packet since a stop is past its last one.
LateInv ==
    \A t \in Starts :
        late[t] # 0 =>
            /\ late[t] = 1
            /\ rx[t] # "push"
            /\ call = "stop"
            /\ ~rx_active

Inv == Shape /\ CallInv /\ OnInv /\ OwedInv /\ LateInv

-----------------------------------------------------------------------------

\* What a step of Next is, one action per case of the proofs below.
LEMMA NextCases ==
    ASSUME Next
    PROVE  \/ CallStart \/ CallStop
           \/ PowerTx \/ SpawnTx
           \/ SetCount \/ ArmRx \/ SpawnRx
           \/ DisarmRx \/ UnpowerTx \/ DisarmTx
           \/ \E n \in Counts : SetNumRxPackets(n)
           \/ \E t \in Starts : RxStep(t)
           \/ \E t \in Starts : TxStep(t)
           \/ PushPacket
    BY DEF Next, ControlStep

\* No step leaves the types.
LEMMA ShapeStep ==
    ASSUME Shape, Next
    PROVE  Shape'
<1>1. CASE CallStart
  BY <1>1, RadioBound
  DEF CallStart, MayCall, Shape, Starts, RxSteps, TxSteps, Endless, None,
      Surplus, controlVars, settings, rxVars, histVars, txVars, portVars
<1>2. CASE CallStop
  BY <1>2, RadioBound
  DEF CallStop, MayCall, Shape, Starts, RxSteps, TxSteps, Endless, None,
      Surplus, controlVars, settings, rxVars, histVars, txVars, portVars
<1>3. CASE PowerTx
  BY <1>3, RadioBound
  DEF PowerTx, Shape, Starts, RxSteps, TxSteps, Endless, None, Surplus,
      controlVars, settings, rxVars, histVars, txVars, portVars
<1>4. CASE SpawnTx
  BY <1>4, RadioBound
  DEF SpawnTx, Shape, Starts, RxSteps, TxSteps, Endless, None, Surplus,
      controlVars, settings, rxVars, histVars, txVars, portVars
<1>5. CASE SetCount
  BY <1>5, RadioBound
  DEF SetCount, Shape, Starts, RxSteps, TxSteps, Endless, None, Surplus,
      controlVars, settings, rxVars, histVars, txVars, portVars
<1>6. CASE ArmRx
  BY <1>6, RadioBound
  DEF ArmRx, Shape, Starts, RxSteps, TxSteps, Endless, None, Surplus,
      controlVars, settings, rxVars, histVars, txVars, portVars
<1>7. CASE SpawnRx
  BY <1>7, RadioBound
  DEF SpawnRx, RxLive, Shape, Starts, RxSteps, TxSteps, Endless, None,
      Surplus, controlVars, settings, rxVars, histVars, txVars, portVars
<1>8. CASE DisarmRx
  <2>1. owed' \in [Starts -> Int]
    BY <1>8 DEF DisarmRx, None
  <2> QED
    BY <1>8, <2>1
    DEF DisarmRx, Shape, controlVars, settings, rxVars, histVars, txVars,
        portVars
<1>9. CASE UnpowerTx
  BY <1>9, RadioBound
  DEF UnpowerTx, Shape, Starts, RxSteps, TxSteps, Endless, None, Surplus,
      controlVars, settings, rxVars, histVars, txVars, portVars
<1>10. CASE DisarmTx
  BY <1>10, RadioBound
  DEF DisarmTx, Shape, Starts, RxSteps, TxSteps, Endless, None, Surplus,
      controlVars, settings, rxVars, histVars, txVars, portVars
<1>11. ASSUME NEW t \in Starts, RxStep(t) PROVE Shape'
  <2>1. CASE RxEnter(t)
    BY <2>1
    DEF RxEnter, RxGoto, Shape, Starts, RxSteps, TxSteps, Endless, None,
        Surplus, controlVars, settings, rxVars, histVars, txVars, portVars
  <2>2. CASE RxTest(t)
    BY <2>2
    DEF RxTest, RxGoto, ToReceive, Shape, Starts, RxSteps, TxSteps, Endless,
        None, Surplus, controlVars, settings, rxVars, histVars, txVars,
        portVars
  <2>3. CASE RxPush(t)
    BY <2>3
    DEF RxPush, RxGoto, Stopped, Shape, Starts, RxSteps, TxSteps, Endless,
        None, Surplus, controlVars, settings, rxVars, histVars, txVars,
        portVars
  <2>4. CASE RxLoad(t)
    BY <2>4
    DEF RxLoad, RxGoto, Shape, Starts, RxSteps, TxSteps, Endless, None,
        Surplus, controlVars, settings, rxVars, histVars, txVars, portVars
  <2>5. CASE RxStore(t)
    BY <2>5
    DEF RxStore, RxGoto, Shape, Starts, RxSteps, TxSteps, Endless, None,
        Surplus, controlVars, settings, rxVars, histVars, txVars, portVars
  <2>6. CASE RxStop(t)
    BY <2>6
    DEF RxStop, RxGoto, Shape, Starts, RxSteps, TxSteps, Endless, None,
        Surplus, controlVars, settings, rxVars, histVars, txVars, portVars
  <2>7. CASE RxClear(t)
    <3>1. owed' \in [Starts -> Int] /\ late' \in [Starts -> 0 .. 2]
      BY <2>7 DEF RxClear, Shape, None
    <3>2. rx' \in [Starts -> RxSteps]
      BY <2>7 DEF RxClear, RxGoto, Shape, RxSteps
    <3>3. UNCHANGED <<controlVars, settings, txVars, rx_packet_count, seen, rxOn>>
      BY <2>7 DEF RxClear, RxGoto
    <3>4. rx_active' \in BOOLEAN
      BY <2>7 DEF RxClear
    <3> QED
      BY <3>1, <3>2, <3>3, <3>4 DEF Shape, controlVars, settings, txVars
  <2> QED
    BY <1>11, <2>1, <2>2, <2>3, <2>4, <2>5, <2>6, <2>7 DEF RxStep
<1>12. ASSUME NEW t \in Starts, TxStep(t) PROVE Shape'
  <2>1. CASE TxEnter(t)
    BY <2>1
    DEF TxEnter, TxGoto, Shape, Starts, RxSteps, TxSteps, Endless, None,
        Surplus, controlVars, settings, rxVars, histVars, txVars, portVars
  <2>2. CASE TxTest(t)
    BY <2>2
    DEF TxTest, TxGoto, Shape, Starts, RxSteps, TxSteps, Endless, None,
        Surplus, controlVars, settings, rxVars, histVars, txVars, portVars
  <2>3. CASE TxGet(t)
    BY <2>3
    DEF TxGet, TxGoto, Shape, Starts, RxSteps, TxSteps, Endless, None,
        Surplus, controlVars, settings, rxVars, histVars, txVars, portVars
  <2>4. CASE TxWrite(t)
    BY <2>4
    DEF TxWrite, TxGoto, Shape, Starts, RxSteps, TxSteps, Endless, None,
        Surplus, controlVars, settings, rxVars, histVars, txVars, portVars
  <2>5. CASE TxStop(t)
    BY <2>5
    DEF TxStop, TxGoto, Shape, Starts, RxSteps, TxSteps, Endless, None,
        Surplus, controlVars, settings, rxVars, histVars, txVars, portVars
  <2> QED
    BY <1>12, <2>1, <2>2, <2>3, <2>4, <2>5 DEF TxStep
<1>13. CASE \/ PushPacket
            \/ \E n \in Counts : SetNumRxPackets(n)
  BY <1>13, CountsAssumption
  DEF SetNumRxPackets, PushPacket, Shape, Starts, RxSteps, TxSteps, Endless,
      None, Surplus, controlVars, settings, rxVars, histVars, txVars, portVars
<1> QED
  BY <1>1, <1>2, <1>3, <1>4, <1>5, <1>6, <1>7, <1>8, <1>9, <1>10, <1>11, <1>12,
     <1>13, NextCases

\* A step belongs to its call, and no step goes back on an earlier one.
LEMMA CallStep ==
    ASSUME Shape, CallInv, Next
    PROVE  CallInv'
<1>1. CASE CallStart
  BY <1>1, RadioBound
  DEF CallStart, MayCall, Shape, CallInv, StartSteps, StopSteps, Starts,
      controlVars, settings, rxVars, histVars, txVars, portVars
<1>2. CASE CallStop
  BY <1>2, RadioBound
  DEF CallStop, MayCall, Shape, CallInv, StartSteps, StopSteps, Starts,
      controlVars, settings, rxVars, histVars, txVars, portVars
<1>3. CASE PowerTx
  BY <1>3, RadioBound
  DEF PowerTx, Shape, CallInv, StartSteps, StopSteps, Starts, controlVars,
      settings, rxVars, histVars, txVars, portVars
<1>4. CASE SpawnTx
  BY <1>4, RadioBound
  DEF SpawnTx, Shape, CallInv, StartSteps, StopSteps, Starts, controlVars,
      settings, rxVars, histVars, txVars, portVars
<1>5. CASE SetCount
  BY <1>5, RadioBound
  DEF SetCount, Shape, CallInv, StartSteps, StopSteps, Starts, controlVars,
      settings, rxVars, histVars, txVars, portVars
<1>6. CASE ArmRx
  BY <1>6, RadioBound
  DEF ArmRx, Shape, CallInv, StartSteps, StopSteps, Starts, controlVars,
      settings, rxVars, histVars, txVars, portVars
<1>7. CASE SpawnRx
  BY <1>7, RadioBound
  DEF SpawnRx, RxLive, Shape, CallInv, StartSteps, StopSteps, Starts,
      controlVars, settings, rxVars, histVars, txVars, portVars
<1>8. CASE DisarmRx
  BY <1>8, RadioBound
  DEF DisarmRx, Shape, CallInv, StartSteps, StopSteps, Starts, controlVars,
      settings, rxVars, histVars, txVars, portVars
<1>9. CASE UnpowerTx
  BY <1>9, RadioBound
  DEF UnpowerTx, Shape, CallInv, StartSteps, StopSteps, Starts, controlVars,
      settings, rxVars, histVars, txVars, portVars
<1>10. CASE DisarmTx
  BY <1>10, RadioBound
  DEF DisarmTx, Shape, CallInv, StartSteps, StopSteps, Starts, controlVars,
      settings, rxVars, histVars, txVars, portVars
<1>11. ASSUME NEW t \in Starts, RxStep(t) PROVE CallInv'
  <2>1. \A u \in Starts : rx[u] = "none" => rx'[u] = "none"
    BY <1>11
    DEF RxStep, RxEnter, RxTest, RxPush, RxLoad, RxStore, RxStop, RxClear,
        RxGoto, Shape
  <2>2. (rx_active' => rx_active) /\ UNCHANGED controlVars
    BY <1>11
    DEF RxStep, RxEnter, RxTest, RxPush, RxLoad, RxStore, RxStop, RxClear,
        RxGoto
  <2> QED
    BY <2>1, <2>2 DEF CallInv, controlVars
<1>12. ASSUME \/ PushPacket
              \/ \E n \in Counts : SetNumRxPackets(n)
              \/ \E t \in Starts : TxStep(t)
       PROVE  CallInv'
  <2>1. UNCHANGED <<controlVars, rxVars>>
    BY <1>12
    DEF SetNumRxPackets, PushPacket, TxStep, TxEnter, TxTest, TxGet, TxWrite,
        TxStop, TxGoto
  <2> QED
    BY <2>1 DEF CallInv, controlVars, rxVars
<1> QED
  BY <1>1, <1>2, <1>3, <1>4, <1>5, <1>6, <1>7, <1>8, <1>9, <1>10, <1>11, <1>12,
     NextCases

\* A side of the device that is on has a thread to switch it off.
LEMMA OnStep ==
    ASSUME Shape, CallInv, OnInv, Next
    PROVE  OnInv'
<1>1. CASE CallStart
  BY <1>1, RadioBound
  DEF CallStart, MayCall, Shape, OnInv, TxLive, controlVars, settings, rxVars,
      histVars, txVars, portVars
<1>2. CASE CallStop
  BY <1>2, RadioBound
  DEF CallStop, MayCall, Shape, OnInv, TxLive, controlVars, settings, rxVars,
      histVars, txVars, portVars
<1>3. CASE PowerTx
  BY <1>3, RadioBound
  DEF PowerTx, Shape, OnInv, TxLive, controlVars, settings, rxVars, histVars,
      txVars, portVars
<1>4. CASE SpawnTx
  BY <1>4, RadioBound
  DEF SpawnTx, Shape, OnInv, TxLive, controlVars, settings, rxVars, histVars,
      txVars, portVars
<1>5. CASE SetCount
  BY <1>5, RadioBound
  DEF SetCount, Shape, OnInv, TxLive, controlVars, settings, rxVars, histVars,
      txVars, portVars
<1>6. CASE ArmRx
  BY <1>6, RadioBound
  DEF ArmRx, Shape, OnInv, TxLive, controlVars, settings, rxVars, histVars,
      txVars, portVars
<1>7. CASE SpawnRx
  BY <1>7, RadioBound
  DEF SpawnRx, RxLive, CallInv, StartSteps, Starts, Shape, OnInv, TxLive, controlVars, settings, rxVars,
      histVars, txVars, portVars
<1>8. CASE DisarmRx
  BY <1>8, RadioBound
  DEF DisarmRx, Shape, OnInv, TxLive, controlVars, settings, rxVars, histVars,
      txVars, portVars
<1>9. CASE UnpowerTx
  BY <1>9, RadioBound
  DEF UnpowerTx, Shape, OnInv, TxLive, controlVars, settings, rxVars,
      histVars, txVars, portVars
<1>10. CASE DisarmTx
  BY <1>10, RadioBound
  DEF DisarmTx, Shape, OnInv, TxLive, controlVars, settings, rxVars, histVars,
      txVars, portVars
<1>11. ASSUME NEW t \in Starts, RxStep(t) PROVE OnInv'
  <2>1. CASE RxEnter(t)
    BY <2>1
    DEF RxEnter, RxGoto, Shape, OnInv, TxLive, controlVars, settings, rxVars,
        histVars, txVars, portVars
  <2>2. CASE RxTest(t)
    BY <2>2
    DEF RxTest, RxGoto, ToReceive, Shape, OnInv, TxLive, controlVars,
        settings, rxVars, histVars, txVars, portVars
  <2>3. CASE RxPush(t)
    BY <2>3
    DEF RxPush, RxGoto, Stopped, Shape, OnInv, TxLive, controlVars, settings,
        rxVars, histVars, txVars, portVars
  <2>4. CASE RxLoad(t)
    BY <2>4
    DEF RxLoad, RxGoto, Shape, OnInv, TxLive, controlVars, settings, rxVars,
        histVars, txVars, portVars
  <2>5. CASE RxStore(t)
    BY <2>5
    DEF RxStore, RxGoto, Shape, OnInv, TxLive, controlVars, settings, rxVars,
        histVars, txVars, portVars
  <2>6. CASE RxStop(t)
    BY <2>6
    DEF RxStop, RxGoto, Shape, OnInv, TxLive, controlVars, settings, rxVars,
        histVars, txVars, portVars
  <2>7. CASE RxClear(t)
    BY <2>7
    DEF RxClear, RxGoto, Shape, OnInv, TxLive, controlVars, settings, rxVars,
        histVars, txVars, portVars
  <2> QED
    BY <1>11, <2>1, <2>2, <2>3, <2>4, <2>5, <2>6, <2>7 DEF RxStep
<1>12. ASSUME NEW t \in Starts, TxStep(t) PROVE OnInv'
  <2>1. CASE TxEnter(t)
    BY <2>1
    DEF TxEnter, TxGoto, Shape, OnInv, TxLive, controlVars, settings, rxVars,
        histVars, txVars, portVars
  <2>2. CASE TxTest(t)
    BY <2>2
    DEF TxTest, TxGoto, Shape, OnInv, TxLive, controlVars, settings, rxVars,
        histVars, txVars, portVars
  <2>3. CASE TxGet(t)
    BY <2>3
    DEF TxGet, TxGoto, Shape, OnInv, TxLive, controlVars, settings, rxVars,
        histVars, txVars, portVars
  <2>4. CASE TxWrite(t)
    BY <2>4
    DEF TxWrite, TxGoto, Shape, OnInv, TxLive, controlVars, settings, rxVars,
        histVars, txVars, portVars
  <2>5. CASE TxStop(t)
    BY <2>5
    DEF TxStop, TxGoto, Shape, OnInv, TxLive, controlVars, settings, rxVars,
        histVars, txVars, portVars
  <2> QED
    BY <1>12, <2>1, <2>2, <2>3, <2>4, <2>5 DEF TxStep
<1>13. CASE \/ PushPacket
            \/ \E n \in Counts : SetNumRxPackets(n)
  BY <1>13, CountsAssumption
  DEF SetNumRxPackets, PushPacket, Shape, OnInv, TxLive, controlVars,
      settings, rxVars, histVars, txVars, portVars
<1> QED
  BY <1>1, <1>2, <1>3, <1>4, <1>5, <1>6, <1>7, <1>8, <1>9, <1>10, <1>11, <1>12,
     <1>13, NextCases

\* A thread that owes packets is alone and the count is what it owes.
LEMMA OwedStep ==
    ASSUME Shape, CallInv, OwedInv, Next
    PROVE  OwedInv'
<1>1. CASE CallStart
  BY <1>1, RadioBound
  DEF CallStart, MayCall, Shape, RxSteps, OwedInv, Owes, RxLive, None,
      Surplus, Endless, controlVars, settings, rxVars, histVars, txVars,
      portVars
<1>2. CASE CallStop
  BY <1>2, RadioBound
  DEF CallStop, MayCall, Shape, RxSteps, OwedInv, Owes, RxLive, None, Surplus,
      Endless, controlVars, settings, rxVars, histVars, txVars, portVars
<1>3. CASE PowerTx
  BY <1>3, RadioBound
  DEF PowerTx, Shape, RxSteps, OwedInv, Owes, RxLive, None, Surplus, Endless,
      controlVars, settings, rxVars, histVars, txVars, portVars
<1>4. CASE SpawnTx
  BY <1>4, RadioBound
  DEF SpawnTx, Shape, RxSteps, OwedInv, Owes, RxLive, None, Surplus, Endless,
      controlVars, settings, rxVars, histVars, txVars, portVars
<1>5. CASE SetCount
  BY <1>5, RadioBound
  DEF SetCount, Shape, RxSteps, OwedInv, Owes, RxLive, None, Surplus, Endless,
      controlVars, settings, rxVars, histVars, txVars, portVars
<1>6. CASE ArmRx
  BY <1>6, RadioBound
  DEF ArmRx, Shape, RxSteps, OwedInv, Owes, RxLive, None, Surplus, Endless,
      controlVars, settings, rxVars, histVars, txVars, portVars
<1>7. CASE SpawnRx
  BY <1>7, RadioBound
  DEF SpawnRx, Shape, RxSteps, OwedInv, Owes, RxLive, None, Surplus, Endless,
      controlVars, settings, rxVars, histVars, txVars, portVars
<1>8. CASE DisarmRx
  BY <1>8, RadioBound
  DEF DisarmRx, Shape, RxSteps, OwedInv, Owes, RxLive, None, Surplus, Endless,
      controlVars, settings, rxVars, histVars, txVars, portVars
<1>9. CASE UnpowerTx
  BY <1>9, RadioBound
  DEF UnpowerTx, Shape, RxSteps, OwedInv, Owes, RxLive, None, Surplus,
      Endless, controlVars, settings, rxVars, histVars, txVars, portVars
<1>10. CASE DisarmTx
  BY <1>10, RadioBound
  DEF DisarmTx, Shape, RxSteps, OwedInv, Owes, RxLive, None, Surplus, Endless,
      controlVars, settings, rxVars, histVars, txVars, portVars
<1>11. ASSUME NEW t \in Starts, RxStep(t) PROVE OwedInv'
  <2>1. CASE RxEnter(t)
    BY <2>1
    DEF RxEnter, RxGoto, Shape, RxSteps, OwedInv, Owes, RxLive, None, Surplus,
        Endless, controlVars, settings, rxVars, histVars, txVars, portVars
  <2>2. CASE RxTest(t)
    BY <2>2
    DEF RxTest, RxGoto, ToReceive, Shape, RxSteps, OwedInv, Owes, RxLive,
        None, Surplus, Endless, controlVars, settings, rxVars, histVars,
        txVars, portVars
  <2>3. CASE RxPush(t)
    BY <2>3
    DEF RxPush, RxGoto, Stopped, Shape, RxSteps, OwedInv, Owes, RxLive, None,
        Surplus, Endless, controlVars, settings, rxVars, histVars, txVars,
        portVars
  <2>4. CASE RxLoad(t)
    BY <2>4
    DEF RxLoad, RxGoto, Shape, RxSteps, OwedInv, Owes, RxLive, None, Surplus,
        Endless, controlVars, settings, rxVars, histVars, txVars, portVars
  <2>5. CASE RxStore(t)
    BY <2>5
    DEF RxStore, RxGoto, Shape, RxSteps, OwedInv, Owes, RxLive, None, Surplus,
        Endless, controlVars, settings, rxVars, histVars, txVars, portVars
  <2>6. CASE RxStop(t)
    BY <2>6
    DEF RxStop, RxGoto, Shape, RxSteps, OwedInv, Owes, RxLive, None, Surplus,
        Endless, controlVars, settings, rxVars, histVars, txVars, portVars
  <2>7. CASE RxClear(t)
    BY <2>7
    DEF RxClear, RxGoto, Shape, RxSteps, OwedInv, Owes, RxLive, None, Surplus,
        Endless, controlVars, settings, rxVars, histVars, txVars, portVars
  <2> QED
    BY <1>11, <2>1, <2>2, <2>3, <2>4, <2>5, <2>6, <2>7 DEF RxStep
<1>12. CASE \/ PushPacket
            \/ \E n \in Counts : SetNumRxPackets(n)
            \/ \E t \in Starts : TxStep(t)
  BY <1>12, CountsAssumption
  DEF SetNumRxPackets, PushPacket, TxStep, TxEnter, TxTest, TxGet, TxWrite,
      TxStop, TxGoto, Shape, RxSteps, OwedInv, Owes, RxLive, None, Surplus,
      Endless, controlVars, settings, rxVars, histVars, txVars, portVars
<1> QED
  BY <1>1, <1>2, <1>3, <1>4, <1>5, <1>6, <1>7, <1>8, <1>9, <1>10, <1>11, <1>12,
     NextCases

\* A thread that has pushed a packet since a stop pushes no other.
LEMMA LateStep ==
    ASSUME Shape, CallInv, LateInv, Next
    PROVE  LateInv'
<1>1. CASE CallStart
  BY <1>1, RadioBound
  DEF CallStart, MayCall, Shape, CallInv, StartSteps, StopSteps, LateInv,
      controlVars, settings, rxVars, histVars, txVars, portVars
<1>2. CASE CallStop
  BY <1>2, RadioBound
  DEF CallStop, MayCall, Shape, CallInv, StartSteps, StopSteps, LateInv,
      controlVars, settings, rxVars, histVars, txVars, portVars
<1>3. CASE ArmRx
  BY <1>3, RadioBound
  DEF ArmRx, Shape, CallInv, StartSteps, StopSteps, LateInv, controlVars,
      settings, rxVars, histVars, txVars, portVars
<1>4. CASE SpawnRx
  BY <1>4, RadioBound
  DEF SpawnRx, RxLive, Shape, CallInv, StartSteps, StopSteps, LateInv,
      controlVars, settings, rxVars, histVars, txVars, portVars
<1>5. CASE DisarmRx
  BY <1>5, RadioBound
  DEF DisarmRx, Shape, CallInv, StartSteps, StopSteps, LateInv, controlVars,
      settings, rxVars, histVars, txVars, portVars
<1>6. ASSUME NEW t \in Starts, RxStep(t) PROVE LateInv'
  <2>1. CASE RxEnter(t)
    BY <2>1
    DEF RxEnter, RxGoto, Shape, CallInv, StartSteps, StopSteps, LateInv,
        controlVars, settings, rxVars, histVars, txVars, portVars
  <2>2. CASE RxTest(t)
    BY <2>2
    DEF RxTest, RxGoto, ToReceive, Shape, CallInv, StartSteps, StopSteps,
        LateInv, controlVars, settings, rxVars, histVars, txVars, portVars
  <2>3. CASE RxPush(t)
    BY <2>3
    DEF RxPush, RxGoto, Stopped, Shape, CallInv, StartSteps, StopSteps,
        LateInv, controlVars, settings, rxVars, histVars, txVars, portVars
  <2>4. CASE RxLoad(t)
    BY <2>4
    DEF RxLoad, RxGoto, Shape, CallInv, StartSteps, StopSteps, LateInv,
        controlVars, settings, rxVars, histVars, txVars, portVars
  <2>5. CASE RxStore(t)
    BY <2>5
    DEF RxStore, RxGoto, Shape, CallInv, StartSteps, StopSteps, LateInv,
        controlVars, settings, rxVars, histVars, txVars, portVars
  <2>6. CASE RxStop(t)
    BY <2>6
    DEF RxStop, RxGoto, Shape, CallInv, StartSteps, StopSteps, LateInv,
        controlVars, settings, rxVars, histVars, txVars, portVars
  <2>7. CASE RxClear(t)
    BY <2>7
    DEF RxClear, RxGoto, Shape, CallInv, StartSteps, StopSteps, LateInv,
        controlVars, settings, rxVars, histVars, txVars, portVars
  <2> QED
    BY <1>6, <2>1, <2>2, <2>3, <2>4, <2>5, <2>6, <2>7 DEF RxStep
<1>7. CASE \/ PowerTx
           \/ SpawnTx
           \/ SetCount
           \/ UnpowerTx
           \/ DisarmTx
           \/ PushPacket
           \/ \E n \in Counts : SetNumRxPackets(n)
           \/ \E t \in Starts : TxStep(t)
  BY <1>7, CountsAssumption
  DEF PowerTx, SpawnTx, SetCount, UnpowerTx, DisarmTx, SetNumRxPackets,
      PushPacket, TxStep, TxEnter, TxTest, TxGet, TxWrite, TxStop, TxGoto,
      Shape, CallInv, StartSteps, StopSteps, LateInv, controlVars, settings,
      rxVars, histVars, txVars, portVars
<1> QED
  BY <1>1, <1>2, <1>3, <1>4, <1>5, <1>6, <1>7, NextCases

\* A stuttering step changes nothing Inv speaks of.
LEMMA StutterStep ==
    ASSUME Inv, UNCHANGED vars
    PROVE  Inv'
  BY DEF Inv, Shape, CallInv, OnInv, OwedInv, Owes, LateInv, RxLive, TxLive,
         vars, controlVars, settings, rxVars, histVars, txVars, portVars

\* Nothing runs and nothing is owed when the device is opened.
LEMMA InitInv == Init => Inv
<1> SUFFICES ASSUME Init PROVE Inv
  OBVIOUS
<1>1. Shape
  <2>1. owed \in [Starts -> Int]
    BY DEF Init, None
  <2>2. rx \in [Starts -> RxSteps] /\ tx \in [Starts -> TxSteps]
    BY DEF Init, RxSteps, TxSteps
  <2>3. seen \in [Starts -> Nat] /\ late \in [Starts -> 0 .. 2]
    BY DEF Init
  <2>4. {rx_active, tx_active, rxOn, txOn} \subseteq BOOLEAN
    BY DEF Init
  <2>5. calls \in 0 .. MaxCalls /\ step = "idle"
    BY RadioBound DEF Init
  <2>6. set_rx_packet_count = Endless /\ rx_packet_count \in Nat
    BY DEF Init
  <2> QED
    BY <2>1, <2>2, <2>3, <2>4, <2>5, <2>6 DEF Shape
<1>2. CallInv
  BY DEF Init, CallInv, StartSteps, StopSteps
<1>3. OnInv /\ OwedInv /\ LateInv
  BY DEF Init, OnInv, OwedInv, LateInv
<1> QED
  BY <1>1, <1>2, <1>3 DEF Inv

\* The inductive invariant holds throughout.
THEOREM Invariance == Spec => []Inv
<1>1. Inv /\ [Next]_vars => Inv'
  <2> SUFFICES ASSUME Inv, [Next]_vars PROVE Inv'
    OBVIOUS
  <2>1. CASE Next
    BY <2>1, ShapeStep, CallStep, OnStep, OwedStep, LateStep DEF Inv
  <2>2. CASE UNCHANGED vars
    BY <2>2, StutterStep
  <2> QED
    BY <2>1, <2>2
<1> QED
  BY InitInv, <1>1, PTL DEF Spec

\* Whatever the order of starts, stops and threads, a side of the device whose
\* threads have all ended is off: each thread ends by usrp_rx->stop or
\* usrp_tx->stop (USRP.cpp:632, 718).
THEOREM DeviceOff == Spec => []IdleRadioSilent
<1>1. Inv => IdleRadioSilent
  BY DEF Inv, OnInv, IdleRadioSilent, RxLive
<1> QED
  BY Invariance, <1>1, PTL

\* For any counts, a reception of n packets that is left alone delivers n: the
\* unlocked countdown of rx_data_process is exact then (USRP.cpp:609-626).
THEOREM ReceptionExact == Spec => []ExactCount
<1>1. Inv => ExactCount
  BY DEF Inv, OwedInv, Owes, ExactCount, Surplus, None
<1> QED
  BY Invariance, <1>1, PTL

\* However many threads are left when stop returns, each delivers the packet it
\* was busy with at most (USRP.cpp:609, port_impl.cpp:387).
THEOREM LastPacket == Spec => []OneMoreAtMost
<1>1. Inv => OneMoreAtMost
  BY DEF Inv, Shape, LateInv, OneMoreAtMost
<1> QED
  BY Invariance, <1>1, PTL
-----------------------------------------------------------------------------
(* Types, and the slots of the transmit port: each is free, holds a packet *)
(* that waits, or is with a thread that writes it to the device.           *)

Writers == {t \in Starts : tx[t] = "write"}

SlotsInv ==
    /\ data_ready \in Nat
    /\ ready_for_input \in Nat
    /\ data_ready + ready_for_input + Cardinality(Writers) = BufferLength

\* Types, and that the transmit thread of a call is made by that call.
RestInv ==
    /\ call \in {"none", "start", "stop"}
    /\ step \in {"idle"} \cup StartSteps \cup StopSteps
    /\ tx_start \in BOOLEAN
    /\ rx_start \in BOOLEAN
    /\ set_rx_packet_count \in Counts \cup {Endless}
    /\ \A t \in Starts :
           t > calls \/ (t = calls /\ step \in {"powerTx", "spawnTx"}) => tx[t] = "none"

LEMMA WritersFinite == IsFiniteSet(Writers) /\ Cardinality(Writers) \in Nat
<1>1. IsFiniteSet(Starts)
  BY RadioBound, FS_Interval DEF Starts
<1>2. Writers \in SUBSET Starts
  BY DEF Writers
<1> QED
  BY <1>1, <1>2, FS_Subset, FS_CardinalityType

\* A thread that starts to write takes the slot from the waiting packets, and
\* gives it back free; nobody else writes.
LEMMA SlotsStep ==
    ASSUME Shape, RestInv, SlotsInv, Next
    PROVE  SlotsInv'
<1>1. ASSUME UNCHANGED portVars, Writers' = Writers PROVE SlotsInv'
  BY <1>1 DEF SlotsInv, portVars
<1>2. CASE \/ CallStart \/ CallStop \/ PowerTx \/ SetCount \/ ArmRx \/ SpawnRx
           \/ DisarmRx \/ UnpowerTx \/ DisarmTx
           \/ \E n \in Counts : SetNumRxPackets(n)
  <2>1. UNCHANGED <<portVars, tx>>
    BY <1>2
    DEF CallStart, CallStop, PowerTx, SetCount, ArmRx, SpawnRx, DisarmRx, UnpowerTx,
        DisarmTx, SetNumRxPackets, txVars, portVars
  <2> QED
    BY <1>1, <2>1 DEF Writers
<1>3. CASE SpawnTx
  <2>1. step = "spawnTx" /\ calls \in Starts /\ tx[calls] = "none"
    BY <1>3 DEF SpawnTx, Shape, RestInv
  <2>2. tx' = [tx EXCEPT ![calls] = "new"] /\ UNCHANGED portVars
    BY <1>3 DEF SpawnTx
  <2>3. Writers' = Writers
    BY <2>1, <2>2 DEF Writers, Shape
  <2> QED
    BY <1>1, <2>2, <2>3
<1>4. ASSUME NEW t \in Starts, RxStep(t) PROVE SlotsInv'
  <2>1. UNCHANGED <<portVars, tx>>
    BY <1>4
    DEF RxStep, RxEnter, RxTest, RxPush, RxLoad, RxStore, RxStop, RxClear, RxGoto, txVars,
        portVars
  <2> QED
    BY <1>1, <2>1 DEF Writers
<1>5. ASSUME NEW t \in Starts, TxStep(t) PROVE SlotsInv'
  <2>1. CASE TxEnter(t) \/ TxTest(t) \/ TxStop(t)
    <3>1. /\ tx[t] # "write" /\ \E to \in TxSteps : to # "write" /\ tx' = [tx EXCEPT ![t] = to]
          /\ UNCHANGED portVars
      BY <2>1 DEF TxEnter, TxTest, TxStop, TxGoto, TxSteps
    <3>2. Writers' = Writers
      BY <3>1 DEF Writers, Shape
    <3> QED
      BY <1>1, <3>1, <3>2
  <2>2. CASE TxGet(t)
    <3>1. /\ tx[t] = "get" /\ tx' = [tx EXCEPT ![t] = "write"] /\ data_ready > 0
          /\ data_ready' = data_ready - 1 /\ UNCHANGED ready_for_input
      BY <2>2 DEF TxGet, TxGoto
    <3>2. Writers' = Writers \cup {t} /\ t \notin Writers
      BY <3>1 DEF Writers, Shape
    <3>3. Cardinality(Writers') = Cardinality(Writers) + 1
      BY <3>2, WritersFinite, FS_AddElement
    <3> QED
      BY <3>1, <3>3, WritersFinite, BufferAssumption DEF SlotsInv
  <2>3. CASE TxWrite(t)
    <3>1. /\ tx[t] = "write" /\ tx' = [tx EXCEPT ![t] = "test"]
          /\ ready_for_input' = ready_for_input + 1 /\ UNCHANGED data_ready
      BY <2>3 DEF TxWrite, TxGoto
    <3>2. Writers' = Writers \ {t} /\ t \in Writers
      BY <3>1 DEF Writers, Shape
    <3>3. Cardinality(Writers') = Cardinality(Writers) - 1
      BY <3>2, WritersFinite, FS_RemoveElement
    <3> QED
      BY <3>1, <3>3, WritersFinite, BufferAssumption DEF SlotsInv
  <2> QED
    BY <1>5, <2>1, <2>2, <2>3 DEF TxStep
<1>6. CASE PushPacket
  <2>1. Writers' = Writers
    BY <1>6 DEF PushPacket, txVars, Writers
  <2> QED
    BY <1>6, <2>1, WritersFinite, BufferAssumption DEF PushPacket, SlotsInv
<1> QED
  BY <1>2, <1>3, <1>4, <1>5, <1>6, NextCases

LEMMA RestStep ==
    ASSUME Shape, CallInv, RestInv, Next
    PROVE  RestInv'
<1>1. CASE CallStart
  BY <1>1, RadioBound
  DEF CallStart, MayCall, RestInv, Shape, StartSteps, StopSteps, settings, txVars, Starts
<1>2. CASE CallStop
  BY <1>2, RadioBound
  DEF CallStop, MayCall, RestInv, Shape, StartSteps, StopSteps, settings, txVars, Starts
<1>3. CASE SpawnTx
  BY <1>3 DEF SpawnTx, RestInv, Shape, StartSteps, StopSteps, settings, Starts
<1>4. CASE PowerTx \/ SetCount \/ ArmRx \/ SpawnRx \/ DisarmRx \/ UnpowerTx \/ DisarmTx
  BY <1>4
  DEF PowerTx, SetCount, ArmRx, SpawnRx, DisarmRx, UnpowerTx, DisarmTx, RestInv, StartSteps,
      StopSteps, settings, txVars
<1>5. ASSUME NEW n \in Counts, SetNumRxPackets(n) PROVE RestInv'
  BY <1>5 DEF SetNumRxPackets, RestInv, controlVars, txVars
<1>6. ASSUME NEW t \in Starts, RxStep(t) PROVE RestInv'
  <2>1. UNCHANGED <<controlVars, settings, txVars>>
    BY <1>6
    DEF RxStep, RxEnter, RxTest, RxPush, RxLoad, RxStore, RxStop, RxClear, RxGoto
  <2> QED
    BY <2>1 DEF RestInv, controlVars, settings, txVars
<1>7. ASSUME NEW t \in Starts, TxStep(t) PROVE RestInv'
  <2>1. UNCHANGED <<controlVars, settings>>
    BY <1>7 DEF TxStep, TxEnter, TxTest, TxGet, TxWrite, TxStop, TxGoto
  <2>2. tx[t] # "none" /\ \A u \in Starts \ {t} : tx'[u] = tx[u]
    BY <1>7 DEF TxStep, TxEnter, TxTest, TxGet, TxWrite, TxStop, TxGoto, Shape
  <2> QED
    BY <2>1, <2>2 DEF RestInv, controlVars, settings
<1>8. CASE PushPacket
  BY <1>8 DEF PushPacket, RestInv, controlVars, settings, txVars
<1> QED
  BY <1>1, <1>2, <1>3, <1>4, <1>5, <1>6, <1>7, <1>8, NextCases

\* All variables keep their types; slots in use and free ones are never more
\* than the transmit port has, although nobody counts the one that is written.
THEOREM TypeCorrect == Spec => []TypeOK
<1>1. Init => RestInv /\ SlotsInv
  <2> SUFFICES ASSUME Init PROVE RestInv /\ SlotsInv
    OBVIOUS
  <2>1. Writers = {}
    BY DEF Init, Writers
  <2>2. Cardinality(Writers) = 0
    BY <2>1, FS_EmptySet
  <2>3. data_ready = 0 /\ ready_for_input = BufferLength
    BY DEF Init
  <2>4. SlotsInv
    BY <2>2, <2>3, BufferAssumption DEF SlotsInv
  <2> QED
    BY <2>4 DEF Init, RestInv
<1>2. Inv /\ RestInv /\ SlotsInv /\ [Next]_vars => (RestInv /\ SlotsInv)'
  <2> SUFFICES ASSUME Inv, RestInv, SlotsInv, [Next]_vars PROVE RestInv' /\ SlotsInv'
    OBVIOUS
  <2>1. CASE Next
    BY <2>1, RestStep, SlotsStep DEF Inv
  <2>2. CASE UNCHANGED vars
    BY <2>2
    DEF RestInv, SlotsInv, Writers, vars, controlVars, settings, txVars, portVars
  <2> QED
    BY <2>1, <2>2
<1>3. Inv /\ RestInv /\ SlotsInv => TypeOK
  <2> SUFFICES ASSUME Inv, RestInv, SlotsInv PROVE TypeOK
    OBVIOUS
  <2>1. data_ready \in 0 .. BufferLength /\ ready_for_input \in 0 .. BufferLength
    BY WritersFinite, BufferAssumption DEF SlotsInv
  <2> QED
    BY <2>1 DEF TypeOK, Inv, Shape, RestInv, StartSteps, StopSteps
<1> QED
  BY Invariance, <1>1, <1>2, <1>3, PTL DEF Spec
=============================================================================
