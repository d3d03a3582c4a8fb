--------------------------- MODULE LrWpanMac_proofs ---------------------------
(***************************************************************************)
(* Theorems about LrWpanMac, the data service of model/lr-wpan-mac.cc.     *)
(***************************************************************************)
EXTENDS LrWpanMac, TLAPS

(* TypeOK by groups of variables.                                          *)
RadioOK ==
  /\ trxState \in {"TRX_OFF", "RX_ON", "TX_ON", "BUSY_TX"}
  /\ trxRequest \in {"none", "TRX_OFF", "RX_ON", "TX_ON"}

QueueOK ==
  /\ txQueue \in Seq(Frames)
  /\ retransmission \in Nat
  /\ sent \in Nat
  /\ lastStatus \in Statuses \union {"none"}

SetMacStates == {"none", "IDLE", "CSMA", "ACK_PENDING", "SendAck", "Direct"}
Packets == Frames \union {Ack, Beacon, NoPacket}

PktOK == txPkt \in Packets /\ setMacState \in SetMacStates

AccessOK == access \in Nat /\ starts \in Nat

OthersOK ==
  /\ rxOnWhenIdle \in BOOLEAN
  /\ gtsFrame \in Frames \union {NoPacket}
  /\ overheard \in BOOLEAN

StateOK ==
  macState \in MacStates /\ ackWaitTimeout \in BOOLEAN /\ heard \in 0 .. MaxHeard

LEMMA TypeParts ==
  TypeOK <=> StateOK /\ RadioOK /\ QueueOK /\ PktOK /\ AccessOK /\ OthersOK
  BY DEF TypeOK, StateOK, RadioOK, QueueOK, PktOK, AccessOK, OthersOK,
         SetMacStates, Packets

LEMMA RequestTypes ==
  ASSUME RadioOK, NEW state \in {"TRX_OFF", "RX_ON", "TX_ON"},
         Trx!Granted(state) \/ Trx!PutOff(state)
  PROVE  RadioOK'
  BY DEF RadioOK, Trx!Granted, Trx!PutOff

LEMMA IdleStateTypes ==
  ASSUME RadioOK, NEW on, RequestIdleState(on)
  PROVE  RadioOK'
  BY RequestTypes DEF RequestIdleState

LEMMA ReceptionTypes ==
  ASSUME RadioOK, Trx!Receiving, Trx!EndReception
  PROVE  RadioOK'
  BY DEF RadioOK, Trx!Receiving, Trx!EndReception

LEMMA RemoveTypes ==
  ASSUME QueueOK, NEW status \in Statuses, RemoveFirstTxQElement(status)
  PROVE  QueueOK'
  BY DEF QueueOK, RemoveFirstTxQElement

LEMMA RetryTypes ==
  ASSUME QueueOK, GiveUp \/ PrepareRetransmission
  PROVE  QueueOK'
<1>1. CASE GiveUp
  BY <1>1, RemoveTypes DEF GiveUp, Statuses
<1>2. CASE PrepareRetransmission
  BY <1>2 DEF PrepareRetransmission, QueueOK
<1>3. QED
  BY <1>1, <1>2

LEMMA CheckQueueTypes ==
  ASSUME NEW state, NEW q \in Seq(Frames), NEW p \in Packets,
         NEW set \in SetMacStates, CheckQueue(state, q, p, set)
  PROVE  PktOK'
  BY DEF CheckQueue, PktOK, Packets, SetMacStates

LEMMA GoIdleTypes ==
  ASSUME RadioOK, NEW q \in Seq(Frames), NEW p \in Packets,
         NEW set \in SetMacStates, GoIdle(q, p, set)
  PROVE  macState' \in MacStates /\ RadioOK' /\ PktOK'
  BY IdleStateTypes, CheckQueueTypes DEF GoIdle, MacStates

LEMMA GoCsmaTypes ==
  ASSUME RadioOK, access \in Nat, GoCsma
  PROVE  macState' \in MacStates /\ RadioOK' /\ access' \in Nat
<1>1. RadioOK'
  BY RequestTypes DEF GoCsma
<1>2. QED
  BY <1>1 DEF GoCsma, MacStates

LEMMA PdDataRequestTypes ==
  ASSUME QueueOK, trxState \in {"TRX_OFF", "RX_ON", "TX_ON", "BUSY_TX"},
         NEW p \in Packets, NEW set \in SetMacStates, PdDataRequest(p, set)
  PROVE  /\ trxState' \in {"TRX_OFF", "RX_ON", "TX_ON", "BUSY_TX"}
         /\ QueueOK' /\ PktOK'
<1>1. CASE p \notin TooLong /\ txPkt' = p /\ setMacState' = set
           /\ trxState' = "BUSY_TX" /\ sent' \in {sent, sent + 1}
           /\ UNCHANGED <<txQueue, retransmission, lastStatus>>
  BY <1>1 DEF QueueOK, PktOK
<1>2. CASE RemoveFirstTxQElement("FRAME_TOO_LONG") /\ txPkt' = NoPacket
           /\ setMacState' = "IDLE"
           /\ trxState' = IF trxState = "BUSY_TX" THEN trxState ELSE "TX_ON"
  BY <1>2, RemoveTypes DEF PktOK, Packets, SetMacStates, Statuses
<1>3. QED
  BY <1>1, <1>2 DEF PdDataRequest

LEMMA GoSendingTypes ==
  ASSUME RadioOK, QueueOK, NEW p \in Packets, NEW set \in SetMacStates,
         GoSending(p, set)
  PROVE  macState' \in MacStates /\ RadioOK' /\ QueueOK' /\ PktOK'
<1>1. macState' \in MacStates
  BY DEF GoSending, MacStates
<1>2. CASE /\ Trx!PutOff("TX_ON") /\ txPkt' = p /\ setMacState' = set
           /\ UNCHANGED <<txQueue, retransmission, sent, lastStatus>>
  BY <1>1, <1>2, RequestTypes DEF QueueOK, PktOK
<1>3. CASE trxRequest' = "none" /\ PdDataRequest(p, set)
  BY <1>1, <1>3, PdDataRequestTypes DEF RadioOK
<1>4. QED
  BY <1>2, <1>3 DEF GoSending

LEMMA CcaAbortedTypes ==
  ASSUME access \in Nat, CcaAborted
  PROVE  access' \in Nat
  BY DEF CcaAborted

LEMMA InterruptedTypes ==
  ASSUME TypeOK, Interrupted
  PROVE  ackWaitTimeout' \in BOOLEAN /\ QueueOK' /\ txPkt' \in Packets
         /\ access' \in Nat
<1>0. QueueOK /\ PktOK /\ StateOK /\ AccessOK
  BY TypeParts
<1>1. CASE UNCHANGED <<queue, ackWaitTimeout>> /\ access' \in 0 .. access
  BY <1>0, <1>1 DEF queue, QueueOK, PktOK, StateOK, AccessOK
<1>2. CASE ackWaitTimeout' = FALSE /\ access' = access
           /\ \/ GiveUp /\ txPkt' = NoPacket
              \/ PrepareRetransmission /\ UNCHANGED txPkt
  BY <1>0, <1>2, RetryTypes DEF PktOK, Packets, AccessOK
<1>3. CASE UNCHANGED <<queue, ackWaitTimeout, access>>
  BY <1>0, <1>3 DEF queue, QueueOK, PktOK, StateOK, AccessOK
<1>4. QED
  BY <1>1, <1>2, <1>3 DEF Interrupted, queue

LEMMA UnchangedTypes ==
  ASSUME TypeOK
  PROVE  /\ UNCHANGED <<macState, ackWaitTimeout, heard>> => StateOK'
         /\ UNCHANGED radio => RadioOK'
         /\ UNCHANGED <<txQueue, retransmission, sent, lastStatus>> => QueueOK'
         /\ UNCHANGED <<txPkt, setMacState>> => PktOK'
         /\ UNCHANGED csmaCa => AccessOK'
         /\ UNCHANGED others => OthersOK'
  BY DEF TypeOK, StateOK, RadioOK, QueueOK, PktOK, AccessOK, OthersOK, radio,
         csmaCa, others, SetMacStates, Packets

LEMMA TypeStep ==
  ASSUME TypeOK, [Next]_vars
  PROVE  TypeOK'
<1> USE MacAssumption
<1> SUFFICES /\ StateOK' /\ RadioOK' /\ QueueOK' /\ PktOK'
             /\ AccessOK' /\ OthersOK'
  BY DEF TypeOK, StateOK, RadioOK, QueueOK, PktOK, AccessOK, OthersOK,
         SetMacStates, Packets
<1>0. StateOK /\ RadioOK /\ QueueOK /\ PktOK /\ AccessOK /\ OthersOK
  BY TypeParts
<1> USE <1>0, UnchangedTypes DEF queue
<1>1. CASE SetIdle
  <2>1. macState' \in MacStates /\ RadioOK' /\ PktOK'
    BY <1>1, GoIdleTypes DEF SetIdle, QueueOK, PktOK, SetMacStates
  <2>2. QED
    BY <1>1, <2>1 DEF SetIdle, StateOK
<1>2. CASE SetAckPending
  <2>1. RadioOK'
    BY <1>2, RequestTypes DEF SetAckPending
  <2>2. QED
    BY <1>2, <2>1 DEF SetAckPending, StateOK, MacStates, PktOK, SetMacStates
<1>3. CASE SetCsma
  <2>1. macState' \in MacStates /\ RadioOK' /\ access' \in Nat
    BY <1>3, GoCsmaTypes DEF SetCsma, AccessOK
  <2>2. QED
    BY <1>3, <2>1 DEF SetCsma, StateOK, AccessOK, PktOK, SetMacStates
<1>4. ASSUME NEW p \in Packets, NEW set \in SetMacStates,
             GoSending(p, set), CcaAborted,
             UNCHANGED <<ackWaitTimeout, starts, heard>>
      PROVE  StateOK' /\ RadioOK' /\ QueueOK' /\ PktOK' /\ AccessOK'
  BY <1>4, GoSendingTypes, CcaAbortedTypes DEF StateOK, AccessOK
<1>5. CASE SendAck \/ TransmitBeacon
  BY <1>4, <1>5 DEF SendAck, TransmitBeacon, Packets, SetMacStates
<1>6. CASE DirectTransmission
  BY <1>4, <1>6 DEF DirectTransmission, Packets, PktOK, OthersOK
<1>7. CASE TrxConfirm
  <2>1. CASE UNCHANGED <<setMacState, queue>> /\ trxState' = trxRequest
             /\ access' \in {access, access + 1}
    BY <1>7, <2>1 DEF TrxConfirm, RadioOK, AccessOK
  <2>2. CASE PdDataRequest(txPkt, setMacState) /\ UNCHANGED access
    <3>1. trxState' \in {"TRX_OFF", "RX_ON", "TX_ON", "BUSY_TX"}
          /\ QueueOK' /\ PktOK'
      BY <2>2, PdDataRequestTypes DEF RadioOK, PktOK
    <3>2. QED
      BY <1>7, <2>2, <3>1 DEF TrxConfirm, RadioOK, csmaCa
  <2>3. QED
    BY <1>7, <2>1, <2>2 DEF TrxConfirm
<1>8. CASE EndTx
  <2>1. RadioOK' /\ StateOK' /\ AccessOK' /\ OthersOK'
    BY <1>8 DEF EndTx, RadioOK, StateOK
  <2>2. PktOK'
    BY <1>8 DEF EndTx, PktOK, Packets, SetMacStates
  <2>3. QueueOK'
    BY <1>8, RemoveTypes DEF EndTx, Statuses
  <2>4. QED
    BY <2>1, <2>2, <2>3
<1>9. CASE AckWaitTimeout
  <2>1. QueueOK'
    BY <1>9, RetryTypes DEF AckWaitTimeout
  <2>2. CASE GoIdle(txQueue', NoPacket, setMacState) /\ UNCHANGED access
    BY <1>9, <2>1, <2>2, GoIdleTypes
    DEF AckWaitTimeout, QueueOK, PktOK, Packets, StateOK, csmaCa
  <2>3. CASE GoCsma /\ UNCHANGED <<txPkt, setMacState>>
    BY <1>9, <2>1, <2>3, GoCsmaTypes DEF AckWaitTimeout, AccessOK, StateOK
  <2>4. QED
    BY <1>9, <2>2, <2>3 DEF AckWaitTimeout
<1>10. CASE ChannelIdle
  <2>1. AccessOK'
    BY <1>10 DEF ChannelIdle, AccessOK
  <2>2. macState' \in MacStates /\ RadioOK' /\ QueueOK' /\ PktOK'
    BY <1>10, GoSendingTypes DEF ChannelIdle, PktOK, StateOK
  <2>3. QED
    BY <1>10, <2>1, <2>2 DEF ChannelIdle, StateOK
<1>11. CASE ChannelAccessFailure
  <2>1. AccessOK'
    BY <1>11 DEF ChannelAccessFailure, AccessOK
  <2>2. QueueOK'
    BY <1>11, RemoveTypes DEF ChannelAccessFailure, Statuses
  <2>3. QED
    BY <1>11, <2>1, <2>2
    DEF ChannelAccessFailure, StateOK, MacStates, PktOK, Packets
<1>12. CASE AccessAbsorbed \/ StartFires
  BY <1>12 DEF AccessAbsorbed, StartFires, AccessOK
<1>13. CASE ReceiveAckReqFrame \/ OverhearGtsRequest
  <2>1. RadioOK'
    BY <1>13, ReceptionTypes DEF ReceiveAckReqFrame, OverhearGtsRequest
  <2>2. ackWaitTimeout' \in BOOLEAN /\ QueueOK' /\ txPkt' \in Packets
        /\ access' \in Nat
    BY <1>13, InterruptedTypes DEF ReceiveAckReqFrame, OverhearGtsRequest
  <2>3. StateOK' /\ AccessOK'
    BY <1>13, <2>2
    DEF ReceiveAckReqFrame, OverhearGtsRequest, StateOK, MacStates, AccessOK
  <2>4. PktOK' /\ OthersOK'
    BY <1>13, <2>2
    DEF ReceiveAckReqFrame, OverhearGtsRequest, PktOK, SetMacStates, OthersOK,
        others
  <2>5. QED
    BY <2>1, <2>2, <2>3, <2>4
<1>14. CASE ReceiveAck \/ ReceiveOtherAck
  <2>1. RadioOK'
    BY <1>14, ReceptionTypes DEF ReceiveAck, ReceiveOtherAck
  <2>2. QueueOK'
    BY <1>14, RemoveTypes, RetryTypes
    DEF ReceiveAck, ReceiveOtherAck, Statuses
  <2>3. QED
    BY <1>14, <2>1, <2>2
    DEF ReceiveAck, ReceiveOtherAck, StateOK, PktOK, Packets, SetMacStates
<1>15. CASE ReceiveBeacon
  <2>1. RadioOK'
    BY <1>15, ReceptionTypes DEF ReceiveBeacon
  <2>2. PktOK' /\ AccessOK'
    BY <1>15 DEF ReceiveBeacon, PktOK, AccessOK, Packets, QueueOK
  <2>3. QED
    BY <1>15, <2>1, <2>2 DEF ReceiveBeacon, OthersOK
<1>16. ASSUME NEW f \in Frames,
              \/ MlmeAssociate(f) \/ McpsDataRequestQueued(f)
              \/ McpsDataRequest(f) \/ MlmeGtsRequest(f)
       PROVE  /\ StateOK' /\ RadioOK' /\ QueueOK' /\ PktOK'
              /\ AccessOK' /\ OthersOK'
  <2>1. Enqueue(f) \/ McpsDataRequest(f) \/ MlmeGtsRequest(f)
    BY <1>16 DEF MlmeAssociate, McpsDataRequestQueued
  <2>2. txQueue' \in Seq(Frames)
    <3>1. txQueue \in Seq(Frames)
      BY DEF QueueOK
    <3>2. \/ txQueue' = Append(txQueue, f)
          \/ txQueue' = txQueue \o <<f, f>>
      BY <2>1 DEF Enqueue, McpsDataRequest, MlmeGtsRequest
    <3>3. <<f, f>> \in Seq(Frames)
      OBVIOUS
    <3>4. Append(txQueue, f) \in Seq(Frames)
      BY <3>1
    <3>5. txQueue \o <<f, f>> \in Seq(Frames)
      BY <3>1, <3>3
    <3>6. QED
      BY <3>2, <3>4, <3>5
  <2>3. QueueOK' /\ AccessOK'
    <3>1. UNCHANGED <<retransmission, sent>>
      BY <2>1 DEF Enqueue, McpsDataRequest, MlmeGtsRequest
    <3>2. lastStatus' \in {lastStatus, "SUCCESS"}
      BY <1>16
      DEF MlmeAssociate, McpsDataRequestQueued, McpsDataRequest, MlmeGtsRequest
    <3>3. access' = access /\ starts' \in {starts, starts + 1}
      BY <2>1 DEF Enqueue, McpsDataRequest, MlmeGtsRequest, csmaCa
    <3>4. QED
      BY <2>2, <3>1, <3>2, <3>3 DEF QueueOK, AccessOK, Statuses
  <2>4. PktOK'
    <3>1. CASE CheckQueue(macState, txQueue', txPkt, setMacState)
      BY <2>2, <3>1, CheckQueueTypes DEF PktOK
    <3>2. CASE txPkt' \in {f, txPkt} /\ UNCHANGED setMacState
      BY <3>2 DEF PktOK, Packets
    <3>3. QED
      BY <2>1, <3>1, <3>2 DEF Enqueue, McpsDataRequest, MlmeGtsRequest
  <2>5. StateOK' /\ RadioOK' /\ OthersOK'
    BY <2>1 DEF Enqueue, McpsDataRequest, MlmeGtsRequest
  <2>6. QED
    BY <2>3, <2>4, <2>5
<1>17. CASE SendOneBeacon
  <2>1. PktOK' /\ AccessOK'
    BY <1>17
    DEF SendOneBeacon, PktOK, AccessOK, Packets, SetMacStates, QueueOK
  <2>2. StateOK' /\ RadioOK' /\ QueueOK' /\ OthersOK'
    BY <1>17 DEF SendOneBeacon, StateOK, MacStates
  <2>3. QED
    BY <2>1, <2>2
<1>18. ASSUME NEW v \in BOOLEAN, SetRxOnWhenIdle(v)
       PROVE  /\ StateOK' /\ RadioOK' /\ QueueOK' /\ PktOK'
              /\ AccessOK' /\ OthersOK'
  <2>1. RadioOK'
    BY <1>18, IdleStateTypes DEF SetRxOnWhenIdle
  <2>2. OthersOK'
    BY <1>18 DEF SetRxOnWhenIdle, OthersOK
  <2>3. QED
    BY <1>18, <2>1, <2>2 DEF SetRxOnWhenIdle
<1>19. CASE UNCHANGED vars
  BY <1>19 DEF vars
<1>20. QED
  BY <1>1, <1>2, <1>3, <1>5, <1>6, <1>7, <1>8, <1>9, <1>10, <1>11, <1>12,
     <1>13, <1>14, <1>15, <1>16, <1>17, <1>18, <1>19
  DEF Next, SetMacStateEvent, AccessAnswered, Reception, Request

LEMMA TypeInit ==
  ASSUME Init
  PROVE  TypeOK
<1>1. /\ ackWaitTimeout \in BOOLEAN /\ rxOnWhenIdle \in BOOLEAN
      /\ overheard \in BOOLEAN
  BY DEF Init
<1>2. QED
  BY <1>1, MacAssumption DEF Init, TypeOK, MacStates

(* The module is type correct, whatever operations are used.               *)
THEOREM TypeCorrect == Spec => []TypeOK
<1>1. Init => TypeOK
  BY TypeInit
<1>2. TypeOK /\ [Next]_vars => TypeOK'
  BY TypeStep
<1>3. QED
  BY <1>1, <1>2, PTL DEF Spec
-----------------------------------------------------------------------------
(* Every wait ends.  The receiver is never both on and about to be turned  *)
(* on, and MAC_ACK_PENDING is only set with a timer.                       *)
WaitInv ==
  /\ trxState = "RX_ON" => trxRequest # "RX_ON"
  /\ setMacState = "ACK_PENDING" => ackWaitTimeout
  /\ WaitEndsUnlessOverheard

LEMMA WaitStep ==
  ASSUME TypeOK, WaitInv, [Next]_vars
  PROVE  WaitInv'
<1> USE DEF WaitInv, WaitEndsUnlessOverheard, EveryWaitEnds
<1>1. CASE SetIdle
  BY <1>1
  DEF SetIdle, GoIdle, RequestIdleState, Trx!Granted, Trx!PutOff, CheckQueue
<1>2. CASE SetAckPending
  BY <1>2 DEF SetAckPending, Trx!Granted, Trx!PutOff, others
<1>3. CASE SetCsma
  BY <1>3 DEF SetCsma, GoCsma, Trx!Granted, Trx!PutOff, TypeOK
<1>4. ASSUME NEW p, NEW set, set = "ACK_PENDING" => ackWaitTimeout,
             GoSending(p, set), UNCHANGED ackWaitTimeout
      PROVE  WaitInv'
  BY <1>4 DEF GoSending, PdDataRequest, Trx!PutOff
<1>5. CASE SendAck \/ TransmitBeacon \/ DirectTransmission
  BY <1>4, <1>5 DEF SendAck, TransmitBeacon, DirectTransmission
<1>6. CASE TrxConfirm
  BY <1>6 DEF TrxConfirm, PdDataRequest, TypeOK, others
<1>7. CASE EndTx
  BY <1>7 DEF EndTx, others
<1>8. CASE AckWaitTimeout
  BY <1>8
  DEF AckWaitTimeout, GoIdle, RequestIdleState, Trx!Granted, Trx!PutOff,
      CheckQueue, GoCsma, TypeOK
<1>9. CASE ChannelIdle
  <2>1. CASE macState = "CSMA"
    BY <1>4, <1>9, <2>1 DEF ChannelIdle
  <2>2. CASE macState # "CSMA"
    BY <1>9, <2>2 DEF ChannelIdle, radio, others
  <2>3. QED
    BY <2>1, <2>2
<1>10. CASE ChannelAccessFailure
  BY <1>10 DEF ChannelAccessFailure, radio, others
<1>11. CASE AccessAbsorbed \/ StartFires
  BY <1>11 DEF AccessAbsorbed, StartFires, radio, others, TypeOK
<1>12. CASE ReceiveAckReqFrame
  BY <1>12 DEF ReceiveAckReqFrame, Trx!Receiving, Trx!EndReception
<1>13. CASE OverhearGtsRequest
  BY <1>13
  DEF OverhearGtsRequest, Interrupted, NothingJustReceived, Trx!Receiving,
      Trx!EndReception
<1>14. CASE ReceiveAck \/ ReceiveOtherAck
  BY <1>14
  DEF ReceiveAck, ReceiveOtherAck, NothingJustReceived, Trx!Receiving,
      Trx!EndReception, others
<1>15. CASE ReceiveBeacon
  BY <1>15 DEF ReceiveBeacon, Trx!Receiving, Trx!EndReception
<1>16. ASSUME NEW f \in Frames,
              \/ MlmeAssociate(f) \/ McpsDataRequestQueued(f)
              \/ McpsDataRequest(f) \/ MlmeGtsRequest(f)
       PROVE  WaitInv'
  BY <1>16
  DEF MlmeAssociate, McpsDataRequestQueued, Enqueue, McpsDataRequest,
      MlmeGtsRequest, CheckQueue, radio, csmaCa, others
<1>17. CASE SendOneBeacon
  BY <1>17 DEF SendOneBeacon, radio, others
<1>18. ASSUME NEW v \in BOOLEAN, SetRxOnWhenIdle(v)
       PROVE  WaitInv'
  BY <1>18
  DEF SetRxOnWhenIdle, RequestIdleState, Trx!Granted, Trx!PutOff, radio, csmaCa
<1>19. CASE UNCHANGED vars
  BY <1>19 DEF vars, radio, csmaCa, others
<1>20. QED
  BY <1>1, <1>2, <1>3, <1>5, <1>6, <1>7, <1>8, <1>9, <1>10, <1>11, <1>12,
     <1>13, <1>14, <1>15, <1>16, <1>17, <1>18, <1>19
  DEF Next, SetMacStateEvent, AccessAnswered, Reception, Request

(* Whatever operations the client uses, and in whatever order: a MAC that  *)
(* waits for the PHY, for an access or for an ACK has an event scheduled   *)
(* that ends the wait, unless it overheard the GTS request of another      *)
(* device.                                                                 *)
THEOREM WaitEndsUnlessOverheardAlways == Spec => []WaitEndsUnlessOverheard
<1>1. Init => WaitInv
  BY DEF Init, WaitInv, WaitEndsUnlessOverheard, EveryWaitEnds
<1>2. TypeOK /\ WaitInv /\ [Next]_vars => WaitInv'
  BY WaitStep
<1>3. WaitInv => WaitEndsUnlessOverheard
  BY DEF WaitInv
<1>4. Spec => []TypeOK
  BY TypeCorrect
<1>5. QED
  BY <1>1, <1>2, <1>3, <1>4, PTL DEF Spec

LEMMA NothingOverheard ==
  ASSUME "overhear" \notin ClientOps, ~overheard, [Next]_vars
  PROVE  ~overheard'
  BY DEF Next, SetMacStateEvent, SetIdle, SetAckPending, SetCsma, SendAck,
         TransmitBeacon, DirectTransmission, TrxConfirm, EndTx, AckWaitTimeout,
         AccessAnswered, ChannelIdle, ChannelAccessFailure, AccessAbsorbed,
         StartFires, Reception, ReceiveAckReqFrame, OverhearGtsRequest,
         ReceiveAck, ReceiveOtherAck, ReceiveBeacon, Request, MlmeAssociate,
         McpsDataRequestQueued, Enqueue, McpsDataRequest, MlmeGtsRequest,
         SendOneBeacon, SetRxOnWhenIdle, vars, others

(* Where no GTS request of another device can be overheard, every wait     *)
(* ends.                                                                   *)
THEOREM EveryWaitEndsAlways ==
  ASSUME "overhear" \notin ClientOps
  PROVE  Spec => []EveryWaitEnds
<1>1. Init => ~overheard
  BY DEF Init
<1>2. ~overheard /\ [Next]_vars => ~overheard'
  BY NothingOverheard
<1>3. ~overheard /\ WaitEndsUnlessOverheard => EveryWaitEnds
  BY DEF WaitEndsUnlessOverheard
<1>4. Spec => []WaitEndsUnlessOverheard
  BY WaitEndsUnlessOverheardAlways
<1>5. QED
  BY <1>1, <1>2, <1>3, <1>4, PTL DEF Spec
-----------------------------------------------------------------------------
(* A MAC whose requests all go through CheckQueue (ClientOps = {}): what   *)
(* each of its states implies about the event scheduled, the packet held,  *)
(* the timer for an ACK, the transceiver and the channel access.  None of  *)
(* the parts is inductive alone, since a step leaves one state for         *)
(* another.                                                                *)
FrontTaken == txQueue # <<>> /\ txPkt = Head(txQueue)

WhenIdle ==
  macState = "IDLE" =>
    /\ ~ackWaitTimeout
    /\ trxState # "BUSY_TX" /\ trxRequest # "TX_ON"
    /\ \/ /\ setMacState = "none" /\ txPkt = NoPacket
          /\ txQueue = <<>> \/ lastStatus = "CHANNEL_ACCESS_FAILURE"
       \/ setMacState = "CSMA" /\ FrontTaken
       \/ setMacState = "SendAck" /\ (FrontTaken \/ txPkt = NoPacket)

WhenCsma ==
  macState = "CSMA" =>
    /\ setMacState = "none" /\ FrontTaken /\ ~ackWaitTimeout
    /\ \/ trxState = "RX_ON" /\ trxRequest = "none" /\ access > 0
       \/ trxState \in {"TRX_OFF", "TX_ON"} /\ trxRequest = "RX_ON"

WhenAckPending ==
  macState = "ACK_PENDING" =>
    /\ trxState # "BUSY_TX" /\ trxRequest # "TX_ON"
    /\ \/ setMacState = "none" /\ FrontTaken /\ ackWaitTimeout
       \/ setMacState = "CSMA" /\ FrontTaken /\ ~ackWaitTimeout
       \/ setMacState = "IDLE" /\ txPkt = NoPacket /\ ~ackWaitTimeout

WhenSending ==
  macState = "SENDING" =>
    \/ /\ setMacState = "none" /\ (txPkt = Ack \/ FrontTaken) /\ ~ackWaitTimeout
       /\ \/ trxState = "RX_ON" /\ trxRequest = "TX_ON"
          \/ trxState = "BUSY_TX" /\ trxRequest = "none" /\ txPkt \notin TooLong
    \/ /\ trxState = "TX_ON" /\ trxRequest = "none"
       /\ \/ setMacState = "ACK_PENDING" /\ FrontTaken /\ ackWaitTimeout
          \/ setMacState = "IDLE" /\ txPkt = NoPacket /\ ~ackWaitTimeout

(* No frame for a GTS, and no access that the state machine did not start. *)
QueueOnly == gtsFrame = NoPacket /\ starts = 0

MacInv == QueueOnly /\ WhenIdle /\ WhenCsma /\ WhenAckPending /\ WhenSending

(* Going idle takes up the front of the queue, unless an event is          *)
(* scheduled.                                                              *)
LEMMA GoIdleInv ==
  ASSUME RadioOK, trxState # "BUSY_TX", NEW q, NEW set \in {"none", "SendAck"},
         GoIdle(q, NoPacket, set), txQueue' = q, ~ackWaitTimeout'
  PROVE  WhenIdle' /\ WhenCsma' /\ WhenAckPending' /\ WhenSending'
<1>1. macState' = "IDLE" /\ trxState' # "BUSY_TX" /\ trxRequest' # "TX_ON"
  BY DEF GoIdle, RequestIdleState, Trx!Granted, Trx!PutOff, RadioOK
<1>2. \/ setMacState' = "CSMA" /\ FrontTaken'
      \/ setMacState' = "SendAck" /\ txPkt' = NoPacket
      \/ setMacState' = "none" /\ txPkt' = NoPacket /\ txQueue' = <<>>
  BY DEF GoIdle, CheckQueue, FrontTaken
<1>3. QED
  BY <1>1, <1>2 DEF WhenIdle, WhenCsma, WhenAckPending, WhenSending

LEMMA GoCsmaInv ==
  ASSUME RadioOK, access \in Nat, trxState # "BUSY_TX", GoCsma,
         FrontTaken', setMacState' = "none", ~ackWaitTimeout'
  PROVE  WhenIdle' /\ WhenCsma' /\ WhenAckPending' /\ WhenSending'
  BY DEF GoCsma, Trx!Granted, Trx!PutOff, RadioOK, WhenIdle, WhenCsma,
         WhenAckPending, WhenSending

LEMMA GoSendingInv ==
  ASSUME RadioOK, trxState # "BUSY_TX", NEW p, GoSending(p, "none"),
         ~ackWaitTimeout, UNCHANGED ackWaitTimeout,
         p = Ack \/ (txQueue # <<>> /\ p = Head(txQueue))
  PROVE  WhenIdle' /\ WhenCsma' /\ WhenAckPending' /\ WhenSending'
<1>1. CASE /\ Trx!PutOff("TX_ON") /\ txPkt' = p /\ setMacState' = "none"
           /\ UNCHANGED txQueue
  BY <1>1 DEF GoSending, Trx!PutOff, RadioOK, FrontTaken, WhenIdle, WhenCsma,
              WhenAckPending, WhenSending
<1>2. CASE trxRequest' = "none" /\ PdDataRequest(p, "none")
  BY <1>2 DEF GoSending, PdDataRequest, RadioOK, FrontTaken, WhenIdle, WhenCsma,
              WhenAckPending, WhenSending
<1>3. QED
  BY <1>1, <1>2 DEF GoSending

LEMMA AppendFront ==
  ASSUME NEW q \in Seq(Frames), NEW f \in Frames
  PROVE  /\ Append(q, f) # <<>>
         /\ q # <<>> => Head(Append(q, f)) = Head(q)
<1>1. Len(Append(q, f)) = Len(q) + 1 /\ Len(q) \in Nat
  OBVIOUS
<1>2. Append(q, f) # <<>>
  BY <1>1
<1>3. ASSUME q # <<>>
      PROVE  Head(Append(q, f)) = Head(q)
  <2>1. Head(Append(q, f)) = Append(q, f)[1] /\ Head(q) = q[1]
    BY <1>2, <1>3
  <2>2. 1 \in 1 .. Len(q)
    BY <1>3
  <2>3. QED
    BY <2>1, <2>2
<1>4. QED
  BY <1>2, <1>3

LEMMA MacStep ==
  ASSUME ClientOps = {}, TypeOK, MacInv, [Next]_vars
  PROVE  MacInv'
<1> USE MacAssumption DEF MacInv
<1>0. /\ StateOK /\ RadioOK /\ QueueOK /\ PktOK /\ AccessOK /\ OthersOK
      /\ ~\E op \in BypassingOps : op \in ClientOps
  BY TypeParts
<1>1. QueueOnly'
  BY <1>0
  DEF QueueOnly, BypassingOps, Next, SetMacStateEvent, SetIdle, SetAckPending,
      SetCsma, SendAck, TransmitBeacon, DirectTransmission, TrxConfirm, EndTx,
      AckWaitTimeout, AccessAnswered, ChannelIdle, ChannelAccessFailure,
      AccessAbsorbed, StartFires, Reception, ReceiveAckReqFrame,
      OverhearGtsRequest, ReceiveAck, ReceiveOtherAck, ReceiveBeacon, Request,
      MlmeAssociate, McpsDataRequestQueued, Enqueue, McpsDataRequest,
      MlmeGtsRequest, SendOneBeacon, SetRxOnWhenIdle, vars, csmaCa, others
<1>2. \/ macState = "IDLE" \/ macState = "CSMA"
      \/ macState = "ACK_PENDING" \/ macState = "SENDING"
  BY <1>0 DEF StateOK, MacStates
<1>3. CASE SetIdle
  <2>1. /\ trxState # "BUSY_TX" /\ ~ackWaitTimeout' /\ txPkt = NoPacket
        /\ GoIdle(txQueue', NoPacket, "none")
    BY <1>2, <1>3
    DEF SetIdle, WhenIdle, WhenCsma, WhenAckPending, WhenSending
  <2>2. QED
    BY <1>0, <1>1, <2>1, GoIdleInv
<1>4. CASE SetAckPending
  <2>1. /\ trxState \in {"TX_ON", "RX_ON"} /\ FrontTaken' /\ ackWaitTimeout'
        /\ macState' = "ACK_PENDING" /\ setMacState' = "none"
    BY <1>2, <1>4
    DEF SetAckPending, queue, FrontTaken, WhenIdle, WhenCsma, WhenAckPending,
        WhenSending
  <2>2. trxState' # "BUSY_TX" /\ trxRequest' # "TX_ON"
    BY <1>4, <2>1 DEF SetAckPending, Trx!Granted, Trx!PutOff
  <2>3. QED
    BY <1>1, <2>1, <2>2 DEF WhenIdle, WhenCsma, WhenAckPending, WhenSending
<1>5. CASE SetCsma
  <2>1. trxState # "BUSY_TX" /\ FrontTaken' /\ ~ackWaitTimeout'
    BY <1>2, <1>5
    DEF SetCsma, GoCsma, queue, FrontTaken, WhenIdle, WhenCsma, WhenAckPending,
        WhenSending
  <2>2. QED
    BY <1>0, <1>1, <1>5, <2>1, GoCsmaInv DEF SetCsma, AccessOK
<1>6. CASE SendAck
  <2>1. trxState # "BUSY_TX" /\ ~ackWaitTimeout /\ GoSending(Ack, "none")
    BY <1>6 DEF SendAck, WhenIdle
  <2>2. QED
    BY <1>0, <1>1, <1>6, <2>1, GoSendingInv DEF SendAck
<1>7. CASE TransmitBeacon \/ DirectTransmission
  BY <1>2, <1>7
  DEF TransmitBeacon, DirectTransmission, QueueOnly, WhenIdle, WhenCsma,
      WhenAckPending, WhenSending
<1>8. CASE TrxConfirm
  <2>1. CASE macState = "IDLE" \/ macState = "ACK_PENDING"
    BY <1>1, <1>8, <2>1
    DEF TrxConfirm, queue, FrontTaken, WhenIdle, WhenCsma, WhenAckPending,
        WhenSending
  <2>2. CASE macState = "CSMA"
    BY <1>0, <1>1, <1>8, <2>2
    DEF TrxConfirm, queue, AccessOK, FrontTaken, WhenIdle, WhenCsma,
        WhenAckPending, WhenSending
  <2>3. CASE macState = "SENDING"
    BY <1>1, <1>8, <2>3
    DEF TrxConfirm, PdDataRequest, FrontTaken, WhenIdle, WhenCsma,
        WhenAckPending, WhenSending
  <2>4. QED
    BY <1>2, <2>1, <2>2, <2>3
<1>9. CASE EndTx
  <2>1. /\ setMacState = "none" /\ ~ackWaitTimeout
        /\ txPkt = Ack \/ FrontTaken
        /\ macState' = "SENDING" /\ trxState' = "TX_ON" /\ trxRequest' = "none"
    BY <1>9 DEF EndTx, WhenSending
  <2>2. txPkt # Beacon
    <3>1. txQueue # <<>> => Head(txQueue) \in Frames
      BY <1>0 DEF QueueOK
    <3>2. QED
      BY <2>1, <3>1 DEF FrontTaken
  <2>3. QED
    BY <1>1, <1>9, <2>1, <2>2
    DEF EndTx, queue, FrontTaken, WhenIdle, WhenCsma, WhenAckPending, WhenSending
<1>10. CASE AckWaitTimeout
  <2>1. /\ macState = "ACK_PENDING" /\ setMacState = "none" /\ FrontTaken
        /\ trxState # "BUSY_TX" /\ ~ackWaitTimeout'
    BY <1>2, <1>10
    DEF AckWaitTimeout, WhenIdle, WhenCsma, WhenAckPending, WhenSending
  <2>2. CASE GoIdle(txQueue', NoPacket, setMacState)
    BY <1>0, <1>1, <2>1, <2>2, GoIdleInv
  <2>3. CASE PrepareRetransmission /\ GoCsma /\ UNCHANGED <<txPkt, setMacState>>
    BY <1>0, <1>1, <2>1, <2>3, GoCsmaInv
    DEF PrepareRetransmission, AccessOK, FrontTaken
  <2>4. QED
    BY <1>10, <2>2, <2>3 DEF AckWaitTimeout
<1>11. CASE ChannelIdle
  <2>1. CASE macState = "CSMA"
    <3>1. /\ setMacState = "none" /\ FrontTaken /\ ~ackWaitTimeout
          /\ trxState # "BUSY_TX" /\ GoSending(txPkt, setMacState)
      BY <1>11, <2>1 DEF ChannelIdle, WhenCsma
    <3>2. QED
      BY <1>0, <1>1, <1>11, <3>1, GoSendingInv DEF ChannelIdle, FrontTaken
  <2>2. CASE macState # "CSMA"
    BY <1>1, <1>11, <2>2
    DEF ChannelIdle, queue, radio, FrontTaken, WhenIdle, WhenCsma,
        WhenAckPending, WhenSending
  <2>3. QED
    BY <2>1, <2>2
<1>12. CASE ChannelAccessFailure
  <2>1. CASE macState = "CSMA"
    BY <1>1, <1>12, <2>1
    DEF ChannelAccessFailure, RemoveFirstTxQElement, radio, FrontTaken,
        WhenIdle, WhenCsma, WhenAckPending, WhenSending
  <2>2. CASE macState # "CSMA"
    BY <1>1, <1>12, <2>2
    DEF ChannelAccessFailure, queue, radio, FrontTaken, WhenIdle, WhenCsma,
        WhenAckPending, WhenSending
  <2>3. QED
    BY <2>1, <2>2
<1>13. CASE AccessAbsorbed \/ StartFires
  BY <1>0, <1>1, <1>13
  DEF AccessAbsorbed, StartFires, QueueOnly, queue, radio, AccessOK, FrontTaken,
      WhenIdle, WhenCsma, WhenAckPending, WhenSending
<1>14. CASE ReceiveAckReqFrame
  <2>1. /\ trxState' # "BUSY_TX" /\ trxRequest' # "TX_ON"
        /\ macState' = "IDLE" /\ setMacState' = "SendAck"
    BY <1>0, <1>14
    DEF ReceiveAckReqFrame, Trx!Receiving, Trx!EndReception, RadioOK
  <2>2. ~ackWaitTimeout' /\ (FrontTaken' \/ txPkt' = NoPacket)
    <3>1. CASE macState = "IDLE"
      BY <1>14, <3>1
      DEF ReceiveAckReqFrame, Interrupted, queue, WhenIdle, FrontTaken
    <3>2. CASE macState = "CSMA"
      BY <1>14, <3>2
      DEF ReceiveAckReqFrame, Interrupted, queue, WhenCsma, FrontTaken
    <3>3. CASE macState = "ACK_PENDING"
      BY <1>14, <3>3
      DEF ReceiveAckReqFrame, NothingJustReceived, Interrupted, WhenAckPending,
          PrepareRetransmission, FrontTaken
    <3>4. QED
      BY <1>14, <3>1, <3>2, <3>3 DEF ReceiveAckReqFrame, Interrupted
  <2>3. QED
    BY <1>1, <2>1, <2>2 DEF WhenIdle, WhenCsma, WhenAckPending, WhenSending
<1>15. CASE OverhearGtsRequest \/ ReceiveBeacon \/ SendOneBeacon
  BY <1>0, <1>15
  DEF OverhearGtsRequest, ReceiveBeacon, SendOneBeacon, BypassingOps
<1>16. CASE ReceiveAck \/ ReceiveOtherAck
  <2>1. /\ setMacState = "none" /\ FrontTaken /\ macState = "ACK_PENDING"
        /\ macState' = "ACK_PENDING" /\ ~ackWaitTimeout'
    BY <1>16
    DEF ReceiveAck, ReceiveOtherAck, NothingJustReceived, WhenAckPending
  <2>2. trxState' # "BUSY_TX" /\ trxRequest' # "TX_ON"
    BY <1>0, <1>16
    DEF ReceiveAck, ReceiveOtherAck, Trx!Receiving, Trx!EndReception, RadioOK
  <2>3. \/ setMacState' = "IDLE" /\ txPkt' = NoPacket
        \/ setMacState' = "CSMA" /\ FrontTaken'
    BY <1>16, <2>1
    DEF ReceiveAck, ReceiveOtherAck, PrepareRetransmission, FrontTaken
  <2>4. QED
    BY <1>1, <2>1, <2>2, <2>3
    DEF WhenIdle, WhenCsma, WhenAckPending, WhenSending
<1>17. ASSUME NEW f \in Frames, MlmeAssociate(f) \/ McpsDataRequestQueued(f)
       PROVE  MacInv'
  <2>1. /\ txQueue' = Append(txQueue, f)
        /\ UNCHANGED <<macState, ackWaitTimeout, trxState, trxRequest, access>>
        /\ CheckQueue(macState, txQueue', txPkt, setMacState)
    BY <1>17 DEF MlmeAssociate, McpsDataRequestQueued, Enqueue, radio, csmaCa
  <2>2. txQueue' # <<>> /\ (txQueue # <<>> => Head(txQueue') = Head(txQueue))
    BY <1>0, <2>1, AppendFront DEF QueueOK
  <2>3. QED
    BY <1>1, <2>1, <2>2
    DEF CheckQueue, FrontTaken, WhenIdle, WhenCsma, WhenAckPending, WhenSending
<1>18. ASSUME NEW f \in Frames, McpsDataRequest(f) \/ MlmeGtsRequest(f)
       PROVE  MacInv'
  BY <1>0, <1>18 DEF McpsDataRequest, MlmeGtsRequest, BypassingOps
<1>19. ASSUME NEW v \in BOOLEAN, SetRxOnWhenIdle(v)
       PROVE  MacInv'
  <2>1. CASE macState = "IDLE"
    BY <1>1, <1>19, <2>1
    DEF SetRxOnWhenIdle, RequestIdleState, Trx!Granted, Trx!PutOff, queue,
        FrontTaken, WhenIdle, WhenCsma, WhenAckPending, WhenSending
  <2>2. CASE macState # "IDLE"
    BY <1>1, <1>19, <2>2
    DEF SetRxOnWhenIdle, queue, radio, csmaCa, FrontTaken, WhenIdle, WhenCsma,
        WhenAckPending, WhenSending
  <2>3. QED
    BY <2>1, <2>2
<1>20. CASE UNCHANGED vars
  BY <1>20
  DEF vars, queue, radio, csmaCa, others, QueueOnly, FrontTaken, WhenIdle,
      WhenCsma, WhenAckPending, WhenSending
<1>21. QED
  BY <1>3, <1>4, <1>5, <1>6, <1>7, <1>8, <1>9, <1>10, <1>11, <1>12, <1>13,
     <1>14, <1>15, <1>16, <1>17, <1>18, <1>19, <1>20
  DEF Next, SetMacStateEvent, AccessAnswered, Reception, Request

LEMMA MacInit ==
  ASSUME Init
  PROVE  MacInv
  BY DEF Init, MacInv, QueueOnly, WhenIdle, WhenCsma, WhenAckPending, WhenSending

(* What is true of each state of a MAC whose requests go through           *)
(* CheckQueue.                                                             *)
THEOREM MacInvAlways ==
  ASSUME ClientOps = {}
  PROVE  Spec => []MacInv
<1>1. Init => MacInv
  BY MacInit
<1>2. TypeOK /\ MacInv /\ [Next]_vars => MacInv'
  BY MacStep
<1>3. Spec => []TypeOK
  BY TypeCorrect
<1>4. QED
  BY <1>1, <1>2, <1>3, PTL DEF Spec

LEMMA FrontIsFrame ==
  ASSUME TypeOK, FrontTaken
  PROVE  txPkt \in Frames
<1>1. txQueue \in Seq(Frames) /\ txQueue # <<>>
  BY DEF TypeOK, FrontTaken
<1>2. Head(txQueue) \in Frames
  BY <1>1
<1>3. QED
  BY <1>2 DEF FrontTaken

(* The invariant excludes every state in which an event is scheduled whose *)
(* handler would fail.                                                     *)
LEMMA InvExcludesFailures ==
  ASSUME TypeOK, MacInv
  PROVE  NoAssertFails
<1> USE MacAssumption, FrontIsFrame DEF MacInv, QueueOnly
<1>0. \/ macState = "IDLE" \/ macState = "CSMA"
      \/ macState = "ACK_PENDING" \/ macState = "SENDING"
  BY DEF TypeOK, MacStates
<1>1. ~SendingFails
  BY <1>0
  DEF SendingFails, WhenIdle, WhenCsma, WhenAckPending, WhenSending
<1>2. ~SetMacStateFails
  BY <1>0
  DEF SetMacStateFails, WhenIdle, WhenCsma, WhenAckPending, WhenSending
<1>3. ~AckWaitTimeoutFails
  BY <1>0
  DEF AckWaitTimeoutFails, FrontTaken, WhenIdle, WhenCsma, WhenAckPending,
      WhenSending
<1>4. ~TrxConfirmFails
  BY <1>0
  DEF TrxConfirmFails, FrontTaken, WhenIdle, WhenCsma, WhenAckPending,
      WhenSending
<1>5. ~EndTxFails
  BY <1>0
  DEF EndTxFails, FrontTaken, WhenIdle, WhenCsma, WhenAckPending, WhenSending
<1>6. ~IndicationFails
  BY <1>0
  DEF IndicationFails, Trx!Receiving, NothingJustReceived, FrontTaken,
      WhenAckPending, WhenSending
<1>7. ~AccessFails
  BY DEF AccessFails, FrontTaken, WhenCsma
<1>8. QED
  BY <1>1, <1>2, <1>3, <1>4, <1>5, <1>6, <1>7 DEF NoAssertFails

(* No NS_ASSERT and no NS_FATAL_ERROR of the MAC is reached, for any       *)
(* number of frames, retries and frames received, and any order of events. *)
THEOREM NoAssertFailsAlways ==
  ASSUME ClientOps = {}
  PROVE  Spec => []NoAssertFails
<1>1. TypeOK /\ MacInv => NoAssertFails
  BY InvExcludesFailures
<1>2. Spec => []TypeOK
  BY TypeCorrect
<1>3. Spec => []MacInv
  BY MacInvAlways
<1>4. QED
  BY <1>1, <1>2, <1>3, PTL

(* What contends for the channel, waits for an ACK or is sent is the front *)
(* of the queue: the one that the next confirm is about.                   *)
THEOREM CurrentIsFrontAlways ==
  ASSUME ClientOps = {}
  PROVE  Spec => []CurrentIsFront
<1>1. MacInv => CurrentIsFront
  BY MacAssumption
  DEF MacInv, CurrentIsFront, FrontTaken, WhenCsma, WhenAckPending, WhenSending
<1>2. Spec => []MacInv
  BY MacInvAlways
<1>3. QED
  BY <1>1, <1>2, PTL

(* An idle MAC with frames queued is about to start on them, except after  *)
(* CHANNEL_ACCESS_FAILURE.                                                 *)
THEOREM IdleQueueOnlyAfterFailureAlways ==
  ASSUME ClientOps = {}
  PROVE  Spec => []IdleQueueOnlyAfterFailure
<1>1. MacInv => IdleQueueOnlyAfterFailure
  BY DEF MacInv, WhenIdle, IdleQueueOnlyAfterFailure
<1>2. Spec => []MacInv
  BY MacInvAlways
<1>3. QED
  BY <1>1, <1>2, PTL
-----------------------------------------------------------------------------
(* The front of the queue was sent once more than it was retried while it  *)
(* is on the air or its ACK is awaited, and as often as it was retried at  *)
(* all other times.                                                        *)
OnTheAir ==
  \/ trxState = "BUSY_TX" /\ txPkt # Ack
  \/ setMacState = "ACK_PENDING"
  \/ macState = "ACK_PENDING" /\ setMacState = "none"

SentInv ==
  /\ retransmission <= macMaxFrameRetries
  /\ sent = IF OnTheAir THEN retransmission + 1 ELSE retransmission

(* Nothing is on the air before a packet is handed to the PHY.             *)
LEMMA PdDataRequestSent ==
  ASSUME MacAssumption, QueueOK, SentInv, ~OnTheAir, NEW p,
         PdDataRequest(p, "none"), macState' # "ACK_PENDING",
         trxState # "BUSY_TX",
         p = Ack \/ (txQueue # <<>> /\ p = Head(txQueue) /\ p \in Frames)
  PROVE  SentInv'
<1>1. CASE p \in TooLong
  BY <1>1
  DEF PdDataRequest, RemoveFirstTxQElement, SentInv, OnTheAir, MacAssumption
<1>2. CASE p \notin TooLong
  BY <1>2
  DEF PdDataRequest, QueueOK, SentInv, OnTheAir, MacAssumption
<1>3. QED
  BY <1>1, <1>2

LEMMA GoSendingSent ==
  ASSUME MacAssumption, QueueOK, SentInv, ~OnTheAir, NEW p,
         GoSending(p, "none"), trxState # "BUSY_TX",
         p = Ack \/ (txQueue # <<>> /\ p = Head(txQueue) /\ p \in Frames)
  PROVE  SentInv'
<1>1. CASE /\ Trx!PutOff("TX_ON") /\ txPkt' = p /\ setMacState' = "none"
           /\ UNCHANGED <<txQueue, retransmission, sent, lastStatus>>
  BY <1>1 DEF GoSending, Trx!PutOff, SentInv, OnTheAir
<1>2. CASE PdDataRequest(p, "none")
  BY <1>2, PdDataRequestSent DEF GoSending
<1>3. QED
  BY <1>1, <1>2 DEF GoSending

(* A frame that is given up or tried again was on the air before and is    *)
(* not any more.                                                           *)
LEMMA RetrySent ==
  ASSUME MacAssumption, QueueOK, SentInv, OnTheAir, ~OnTheAir',
         GiveUp \/ PrepareRetransmission
  PROVE  SentInv' /\ (GiveUp => sent = macMaxFrameRetries + 1)
<1>1. macMaxFrameRetries \in Nat /\ retransmission \in Nat
  BY DEF MacAssumption, QueueOK
<1>2. retransmission <= macMaxFrameRetries /\ sent = retransmission + 1
  BY DEF SentInv
<1>3. CASE GiveUp
  <2>1. retransmission' = 0 /\ sent' = 0
    BY <1>3 DEF GiveUp, RemoveFirstTxQElement
  <2>2. SentInv'
    BY <1>1, <2>1 DEF SentInv
  <2>3. sent = macMaxFrameRetries + 1
    BY <1>1, <1>2, <1>3 DEF GiveUp
  <2>4. QED
    BY <2>2, <2>3
<1>4. CASE PrepareRetransmission
  BY <1>1, <1>2, <1>4 DEF PrepareRetransmission, SentInv, GiveUp
<1>5. QED
  BY <1>3, <1>4

ConfirmTrue ==
  Len(txQueue') < Len(txQueue) =>
    /\ lastStatus' = "SUCCESS" => sent \in 1 .. macMaxFrameRetries + 1
    /\ lastStatus' = "NO_ACK" => sent = macMaxFrameRetries + 1

LEMMA SentStep ==
  ASSUME ClientOps = {}, TypeOK, MacInv, SentInv, [Next]_vars
  PROVE  SentInv' /\ ConfirmTrue
<1> USE MacAssumption
<1>0. QueueOK /\ AccessOK /\ WhenIdle /\ WhenCsma /\ WhenAckPending /\ WhenSending
  BY TypeParts DEF MacInv
<1>1. /\ macMaxFrameRetries \in Nat /\ retransmission \in Nat /\ sent \in Nat
      /\ Len(txQueue) \in Nat
      /\ txQueue # <<>> => Head(txQueue) \in Frames
  BY <1>0 DEF QueueOK
<1>2. \/ macState = "IDLE" \/ macState = "CSMA"
      \/ macState = "ACK_PENDING" \/ macState = "SENDING"
  BY TypeParts DEF StateOK, MacStates
<1>3. ASSUME UNCHANGED <<txQueue, retransmission, sent, lastStatus>>,
             OnTheAir' <=> OnTheAir
      PROVE  SentInv' /\ ConfirmTrue
  BY <1>1, <1>3 DEF SentInv, ConfirmTrue
<1>4. ASSUME OnTheAir, RemoveFirstTxQElement("SUCCESS"), ~OnTheAir'
      PROVE  SentInv' /\ ConfirmTrue
  BY <1>1, <1>4 DEF RemoveFirstTxQElement, SentInv, ConfirmTrue
<1>5. ASSUME OnTheAir, ~OnTheAir', GiveUp \/ PrepareRetransmission
      PROVE  SentInv' /\ ConfirmTrue
  <2>1. SentInv' /\ (GiveUp => sent = macMaxFrameRetries + 1)
    BY <1>0, <1>5, RetrySent
  <2>2. CASE GiveUp
    BY <1>1, <2>1, <2>2 DEF GiveUp, RemoveFirstTxQElement, ConfirmTrue
  <2>3. CASE PrepareRetransmission
    BY <1>1, <2>1, <2>3 DEF PrepareRetransmission, ConfirmTrue
  <2>4. QED
    BY <1>5, <2>2, <2>3
<1>6. ASSUME NEW p, GoSending(p, "none"), ~OnTheAir, trxState # "BUSY_TX",
             p = Ack \/ (FrontTaken /\ p = txPkt)
      PROVE  SentInv' /\ ConfirmTrue
  <2>1. SentInv'
    BY <1>0, <1>1, <1>6, GoSendingSent DEF FrontTaken
  <2>2. CASE UNCHANGED txQueue
    BY <1>1, <2>1, <2>2 DEF ConfirmTrue
  <2>3. CASE lastStatus' = "FRAME_TOO_LONG"
    BY <2>1, <2>3 DEF ConfirmTrue
  <2>4. QED
    BY <1>6, <2>2, <2>3 DEF GoSending, PdDataRequest, RemoveFirstTxQElement
<1>7. CASE SetIdle
  <2>1. ~OnTheAir /\ trxState # "BUSY_TX" /\ ~OnTheAir'
    BY <1>0, <1>2, <1>7
    DEF SetIdle, GoIdle, RequestIdleState, Trx!Granted, Trx!PutOff, CheckQueue,
        OnTheAir, WhenIdle, WhenCsma, WhenAckPending, WhenSending
  <2>2. QED
    BY <1>3, <1>7, <2>1 DEF SetIdle
<1>8. CASE SetAckPending
  BY <1>3, <1>8 DEF SetAckPending, queue, OnTheAir
<1>9. CASE SetCsma
  <2>1. ~OnTheAir /\ ~OnTheAir'
    BY <1>0, <1>2, <1>9
    DEF SetCsma, GoCsma, Trx!Granted, Trx!PutOff, OnTheAir, WhenIdle,
        WhenAckPending
  <2>2. QED
    BY <1>3, <1>9, <2>1 DEF SetCsma, queue
<1>10. CASE SendAck
  BY <1>0, <1>6, <1>10 DEF SendAck, OnTheAir, WhenIdle
<1>11. CASE TransmitBeacon \/ DirectTransmission
  BY <1>0, <1>2, <1>11
  DEF TransmitBeacon, DirectTransmission, MacInv, QueueOnly, WhenIdle, WhenCsma,
      WhenAckPending, WhenSending
<1>12. CASE TrxConfirm
  <2>1. CASE macState = "SENDING" /\ PdDataRequest(txPkt, setMacState)
    <3>1. /\ setMacState = "none" /\ ~OnTheAir /\ trxState # "BUSY_TX"
          /\ txPkt = Ack \/ FrontTaken
      BY <1>0, <1>12, <2>1 DEF TrxConfirm, OnTheAir, WhenSending
    <3>2. SentInv'
      BY <1>0, <1>1, <1>12, <2>1, <3>1, PdDataRequestSent
      DEF TrxConfirm, FrontTaken
    <3>3. UNCHANGED txQueue \/ lastStatus' = "FRAME_TOO_LONG"
      BY <2>1 DEF PdDataRequest, RemoveFirstTxQElement
    <3>4. QED
      BY <1>1, <3>2, <3>3 DEF ConfirmTrue
  <2>2. CASE UNCHANGED <<setMacState, queue>> /\ trxState' = trxRequest
    <3>1. OnTheAir' <=> OnTheAir
      BY <1>12, <2>2, TypeParts DEF TrxConfirm, queue, OnTheAir, RadioOK
    <3>2. QED
      BY <1>3, <2>2, <3>1 DEF queue
  <2>3. QED
    BY <1>12, <2>1, <2>2 DEF TrxConfirm, queue
<1>13. CASE EndTx
  <2>1. setMacState = "none" /\ (txPkt = Ack \/ FrontTaken)
    BY <1>0, <1>13 DEF EndTx, WhenSending
  <2>2. CASE txPkt = Ack
    BY <1>1, <1>3, <1>13, <2>1, <2>2 DEF EndTx, OnTheAir
  <2>3. CASE txPkt \in AckFrames
    BY <1>1, <1>3, <1>13, <2>1, <2>3 DEF EndTx, queue, OnTheAir
  <2>4. CASE txPkt \in Frames \ AckFrames
    BY <1>4, <1>13, <2>1, <2>4 DEF EndTx, OnTheAir
  <2>5. QED
    BY <1>1, <2>1, <2>2, <2>3, <2>4 DEF FrontTaken
<1>14. CASE AckWaitTimeout
  <2>1. macState = "ACK_PENDING" /\ setMacState = "none" /\ trxState # "BUSY_TX"
    BY <1>0, <1>2, <1>14
    DEF AckWaitTimeout, WhenIdle, WhenCsma, WhenAckPending, WhenSending
  <2>2. ~OnTheAir'
    BY <1>14, <2>1
    DEF AckWaitTimeout, GoIdle, RequestIdleState, GoCsma, Trx!Granted,
        Trx!PutOff, CheckQueue, OnTheAir
  <2>3. QED
    BY <1>5, <1>14, <2>1, <2>2 DEF AckWaitTimeout, OnTheAir
<1>15. CASE ChannelIdle
  <2>1. CASE macState = "CSMA"
    BY <1>0, <1>6, <1>15, <2>1 DEF ChannelIdle, OnTheAir, WhenCsma
  <2>2. CASE macState # "CSMA"
    BY <1>3, <1>15, <2>2 DEF ChannelIdle, queue, radio, OnTheAir
  <2>3. QED
    BY <2>1, <2>2
<1>16. CASE ChannelAccessFailure
  <2>1. CASE macState = "CSMA"
    BY <1>0, <1>1, <1>16, <2>1
    DEF ChannelAccessFailure, RemoveFirstTxQElement, radio, OnTheAir, WhenCsma,
        SentInv, ConfirmTrue
  <2>2. CASE macState # "CSMA"
    BY <1>3, <1>16, <2>2 DEF ChannelAccessFailure, queue, radio, OnTheAir
  <2>3. QED
    BY <2>1, <2>2
<1>17. CASE AccessAbsorbed \/ StartFires
  BY <1>3, <1>17 DEF AccessAbsorbed, StartFires, queue, radio, OnTheAir
<1>18. CASE ReceiveAckReqFrame
  <2>1. ~OnTheAir'
    BY <1>18, TypeParts
    DEF ReceiveAckReqFrame, Trx!Receiving, Trx!EndReception, RadioOK, OnTheAir
  <2>2. CASE macState = "IDLE" \/ macState = "CSMA"
    <3>1. ~OnTheAir
      BY <1>0, <2>2 DEF OnTheAir, WhenIdle, WhenCsma
    <3>2. UNCHANGED queue
      BY <1>18, <2>2 DEF ReceiveAckReqFrame, Interrupted
    <3>3. QED
      BY <1>3, <2>1, <3>1, <3>2 DEF queue
  <2>3. CASE macState = "ACK_PENDING"
    <3>1. OnTheAir
      BY <1>18, <2>3 DEF ReceiveAckReqFrame, NothingJustReceived, OnTheAir
    <3>2. GiveUp \/ PrepareRetransmission
      BY <1>18, <2>3 DEF ReceiveAckReqFrame, Interrupted
    <3>3. QED
      BY <1>5, <2>1, <3>1, <3>2
  <2>4. QED
    BY <1>18, <2>2, <2>3 DEF ReceiveAckReqFrame, Interrupted
<1>19. CASE OverhearGtsRequest \/ ReceiveBeacon \/ SendOneBeacon
  BY <1>19 DEF OverhearGtsRequest, ReceiveBeacon, SendOneBeacon
<1>20. CASE ReceiveAck \/ ReceiveOtherAck
  <2>1. OnTheAir
    BY <1>20 DEF ReceiveAck, ReceiveOtherAck, NothingJustReceived, OnTheAir
  <2>2. ~OnTheAir'
    BY <1>20, TypeParts
    DEF ReceiveAck, ReceiveOtherAck, Trx!Receiving, Trx!EndReception, RadioOK,
        OnTheAir
  <2>3. QED
    BY <1>4, <1>5, <1>20, <2>1, <2>2 DEF ReceiveAck, ReceiveOtherAck
<1>21. ASSUME NEW f \in Frames, MlmeAssociate(f) \/ McpsDataRequestQueued(f)
       PROVE  SentInv' /\ ConfirmTrue
  <2>0. Enqueue(f)
    BY <1>21 DEF MlmeAssociate, McpsDataRequestQueued
  <2>1. Len(txQueue') = Len(txQueue) + 1
    BY <1>0, <2>0 DEF Enqueue, QueueOK
  <2>2. OnTheAir' <=> OnTheAir
    BY <1>0, <1>2, <2>0
    DEF Enqueue, CheckQueue, radio, OnTheAir, WhenIdle, WhenCsma,
        WhenAckPending, WhenSending
  <2>3. QED
    BY <1>1, <2>0, <2>1, <2>2 DEF Enqueue, SentInv, ConfirmTrue
<1>22. ASSUME NEW f \in Frames, McpsDataRequest(f) \/ MlmeGtsRequest(f)
       PROVE  SentInv' /\ ConfirmTrue
  BY <1>22 DEF McpsDataRequest, MlmeGtsRequest
<1>23. ASSUME NEW v \in BOOLEAN, SetRxOnWhenIdle(v)
       PROVE  SentInv' /\ ConfirmTrue
  <2>1. OnTheAir' <=> OnTheAir
    BY <1>0, <1>23
    DEF SetRxOnWhenIdle, RequestIdleState, Trx!Granted, Trx!PutOff, queue,
        radio, OnTheAir, WhenIdle
  <2>2. QED
    BY <1>3, <1>23, <2>1 DEF SetRxOnWhenIdle, queue
<1>24. CASE UNCHANGED vars
  BY <1>3, <1>24 DEF vars, queue, radio, OnTheAir
<1>25. QED
  BY <1>7, <1>8, <1>9, <1>10, <1>11, <1>12, <1>13, <1>14, <1>15, <1>16, <1>17,
     <1>18, <1>19, <1>20, <1>21, <1>22, <1>23, <1>24
  DEF Next, SetMacStateEvent, AccessAnswered, Reception, Request

(* The confirm with which a frame leaves the queue is true: SUCCESS only   *)
(* for a frame that was sent, NO_ACK only for one that was sent            *)
(* macMaxFrameRetries + 1 times, and no frame is sent more often, whatever *)
(* ACKs, other frames and timers interrupt it.  The SUCCESS McpsDataRequest*)
(* confirms before it queues the frame is not such a confirm, and false.   *)
THEOREM ConfirmTruthfulAlways ==
  ASSUME ClientOps = {}
  PROVE  Spec => ConfirmTruthful
<1>1. Init => SentInv
  BY MacAssumption DEF Init, SentInv, OnTheAir
<1>2. TypeOK /\ MacInv /\ SentInv /\ [Next]_vars => SentInv'
  BY SentStep
<1>3. TypeOK /\ MacInv /\ SentInv /\ [Next]_vars
        => [ /\ sent' <= macMaxFrameRetries + 1
             /\ Len(txQueue') < Len(txQueue) =>
                  /\ lastStatus' = "SUCCESS" => sent \in 1 .. macMaxFrameRetries + 1
                  /\ lastStatus' = "NO_ACK" => sent = macMaxFrameRetries + 1 ]_vars
  <2> SUFFICES ASSUME TypeOK, MacInv, SentInv, Next
               PROVE  /\ sent' <= macMaxFrameRetries + 1
                      /\ ConfirmTrue
    BY DEF ConfirmTrue
  <2>1. SentInv' /\ ConfirmTrue
    BY SentStep
  <2>2. retransmission' \in Nat /\ macMaxFrameRetries \in Nat
    BY TypeStep, MacAssumption DEF TypeOK
  <2>3. sent' <= macMaxFrameRetries + 1
    <3>1. retransmission' <= macMaxFrameRetries
      BY <2>1 DEF SentInv
    <3>2. sent' = retransmission' \/ sent' = retransmission' + 1
      BY <2>1 DEF SentInv
    <3>3. QED
      BY <2>2, <3>1, <3>2
  <2>4. QED
    BY <2>1, <2>3
<1>4. Spec => []TypeOK
  BY TypeCorrect
<1>5. Spec => []MacInv
  BY MacInvAlways
<1>6. QED
  BY <1>1, <1>2, <1>3, <1>4, <1>5, PTL DEF Spec, ConfirmTruthful
=============================================================================
