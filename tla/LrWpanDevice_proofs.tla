------------------------- MODULE LrWpanDevice_proofs -------------------------
(***************************************************************************)
(* Theorems about LrWpanDevice, the MAC over the CSMA/CA.  The MAC of a    *)
(* device takes the steps of LrWpanMac and no others, so that what         *)
(* LrWpanMac_proofs says of each step holds of the device.                 *)
(***************************************************************************)
EXTENDS LrWpanDevice, TLAPS

MacP == INSTANCE LrWpanMac_proofs

LEMMA MacAssumed == MacP!MacAssumption
  BY DeviceAssumption DEF Mac!MacAssumption, MacP!MacAssumption,
     Mac!BypassingOps, MacP!BypassingOps

(* The instance that the device is made of and the instance that the       *)
(* lemmas are about have the same actions.                                 *)
LEMMA SameSteps ==
  [Mac!Next]_(Mac!vars) => [MacP!Next]_(MacP!vars)
<1>1. Mac!SetIdle => MacP!SetIdle
  BY DEF Mac!SetIdle, Mac!GoIdle, Mac!RequestIdleState, Mac!CheckQueue,
         Mac!csmaCa, Mac!others, Mac!Trx!Granted, Mac!Trx!PutOff,
         MacP!SetIdle, MacP!GoIdle, MacP!RequestIdleState, MacP!CheckQueue,
         MacP!csmaCa, MacP!others, MacP!Trx!Granted, MacP!Trx!PutOff
<1>2. Mac!SetAckPending => MacP!SetAckPending
  BY DEF Mac!SetAckPending, Mac!queue, Mac!csmaCa, Mac!others,
         Mac!Trx!Granted, Mac!Trx!PutOff, MacP!SetAckPending, MacP!queue,
         MacP!csmaCa, MacP!others, MacP!Trx!Granted, MacP!Trx!PutOff
<1>3. Mac!SetCsma => MacP!SetCsma
  BY DEF Mac!SetCsma, Mac!GoCsma, Mac!queue, Mac!others, Mac!Trx!Granted,
         Mac!Trx!PutOff, MacP!SetCsma, MacP!GoCsma, MacP!queue, MacP!others,
         MacP!Trx!Granted, MacP!Trx!PutOff
<1>4. Mac!SendAck => MacP!SendAck
  BY DEF Mac!SendAck, Mac!GoSending, Mac!PdDataRequest,
         Mac!RemoveFirstTxQElement, Mac!CcaAborted, Mac!others,
         Mac!Trx!PutOff, MacP!SendAck, MacP!GoSending, MacP!PdDataRequest,
         MacP!RemoveFirstTxQElement, MacP!CcaAborted, MacP!others,
         MacP!Trx!PutOff
<1>5. Mac!TransmitBeacon => MacP!TransmitBeacon
  BY DEF Mac!TransmitBeacon, Mac!GoSending, Mac!PdDataRequest,
         Mac!RemoveFirstTxQElement, Mac!CcaAborted, Mac!others,
         Mac!Trx!PutOff, MacP!TransmitBeacon, MacP!GoSending,
         MacP!PdDataRequest, MacP!RemoveFirstTxQElement, MacP!CcaAborted,
         MacP!others, MacP!Trx!PutOff
<1>6. Mac!DirectTransmission => MacP!DirectTransmission
  BY DEF Mac!DirectTransmission, Mac!GoSending, Mac!PdDataRequest,
         Mac!RemoveFirstTxQElement, Mac!CcaAborted, Mac!Trx!PutOff,
         MacP!DirectTransmission, MacP!GoSending, MacP!PdDataRequest,
         MacP!RemoveFirstTxQElement, MacP!CcaAborted, MacP!Trx!PutOff
<1>7. Mac!TrxConfirm => MacP!TrxConfirm
  BY DEF Mac!TrxConfirm, Mac!PdDataRequest, Mac!RemoveFirstTxQElement,
         Mac!queue, Mac!others, MacP!TrxConfirm, MacP!PdDataRequest,
         MacP!RemoveFirstTxQElement, MacP!queue, MacP!others
<1>8. Mac!EndTx => MacP!EndTx
  BY DEF Mac!EndTx, Mac!RemoveFirstTxQElement, Mac!queue, Mac!csmaCa,
         Mac!others, MacP!EndTx, MacP!RemoveFirstTxQElement, MacP!queue,
         MacP!csmaCa, MacP!others
<1>9. Mac!AckWaitTimeout => MacP!AckWaitTimeout
  BY DEF Mac!AckWaitTimeout, Mac!GiveUp, Mac!PrepareRetransmission,
         Mac!RemoveFirstTxQElement, Mac!GoIdle, Mac!GoCsma,
         Mac!RequestIdleState, Mac!CheckQueue, Mac!others, Mac!Trx!Granted,
         Mac!Trx!PutOff, MacP!AckWaitTimeout, MacP!GiveUp,
         MacP!PrepareRetransmission, MacP!RemoveFirstTxQElement, MacP!GoIdle,
         MacP!GoCsma, MacP!RequestIdleState, MacP!CheckQueue, MacP!others,
         MacP!Trx!Granted, MacP!Trx!PutOff
<1>10. Mac!ChannelIdle => MacP!ChannelIdle
  BY DEF Mac!ChannelIdle, Mac!GoSending, Mac!PdDataRequest,
         Mac!RemoveFirstTxQElement, Mac!queue, Mac!radio, Mac!others,
         Mac!Trx!PutOff, MacP!ChannelIdle, MacP!GoSending, MacP!PdDataRequest,
         MacP!RemoveFirstTxQElement, MacP!queue, MacP!radio, MacP!others,
         MacP!Trx!PutOff
<1>11. Mac!ChannelAccessFailure => MacP!ChannelAccessFailure
  BY DEF Mac!ChannelAccessFailure, Mac!RemoveFirstTxQElement, Mac!queue,
         Mac!radio, Mac!others, MacP!ChannelAccessFailure,
         MacP!RemoveFirstTxQElement, MacP!queue, MacP!radio, MacP!others
<1>12. Mac!AccessAbsorbed => MacP!AccessAbsorbed
  BY DEF Mac!AccessAbsorbed, Mac!queue, Mac!radio, Mac!others,
         MacP!AccessAbsorbed, MacP!queue, MacP!radio, MacP!others
<1>13. Mac!StartFires => MacP!StartFires
  BY DEF Mac!StartFires, Mac!queue, Mac!radio, Mac!others, MacP!StartFires,
         MacP!queue, MacP!radio, MacP!others
<1>14. Mac!ReceiveAckReqFrame => MacP!ReceiveAckReqFrame
  BY DEF Mac!ReceiveAckReqFrame, Mac!NothingJustReceived, Mac!Interrupted,
         Mac!GiveUp, Mac!PrepareRetransmission, Mac!RemoveFirstTxQElement,
         Mac!queue, Mac!others, Mac!Trx!Receiving, Mac!Trx!EndReception,
         MacP!ReceiveAckReqFrame, MacP!NothingJustReceived, MacP!Interrupted,
         MacP!GiveUp, MacP!PrepareRetransmission, MacP!RemoveFirstTxQElement,
         MacP!queue, MacP!others, MacP!Trx!Receiving, MacP!Trx!EndReception
<1>15. Mac!OverhearGtsRequest => MacP!OverhearGtsRequest
  BY DEF Mac!OverhearGtsRequest, Mac!NothingJustReceived, Mac!Interrupted,
         Mac!GiveUp, Mac!PrepareRetransmission, Mac!RemoveFirstTxQElement,
         Mac!queue, Mac!Trx!Receiving, Mac!Trx!EndReception,
         MacP!OverhearGtsRequest, MacP!NothingJustReceived, MacP!Interrupted,
         MacP!GiveUp, MacP!PrepareRetransmission, MacP!RemoveFirstTxQElement,
         MacP!queue, MacP!Trx!Receiving, MacP!Trx!EndReception
<1>16. Mac!ReceiveAck => MacP!ReceiveAck
  BY DEF Mac!ReceiveAck, Mac!NothingJustReceived, Mac!RemoveFirstTxQElement,
         Mac!csmaCa, Mac!others, Mac!Trx!Receiving, Mac!Trx!EndReception,
         MacP!ReceiveAck, MacP!NothingJustReceived,
         MacP!RemoveFirstTxQElement, MacP!csmaCa, MacP!others,
         MacP!Trx!Receiving, MacP!Trx!EndReception
<1>17. Mac!ReceiveOtherAck => MacP!ReceiveOtherAck
  BY DEF Mac!ReceiveOtherAck, Mac!NothingJustReceived, Mac!GiveUp,
         Mac!PrepareRetransmission, Mac!RemoveFirstTxQElement, Mac!csmaCa,
         Mac!others, Mac!Trx!Receiving, Mac!Trx!EndReception,
         MacP!ReceiveOtherAck, MacP!NothingJustReceived, MacP!GiveUp,
         MacP!PrepareRetransmission, MacP!RemoveFirstTxQElement, MacP!csmaCa,
         MacP!others, MacP!Trx!Receiving, MacP!Trx!EndReception
<1>18. Mac!ReceiveBeacon => MacP!ReceiveBeacon
  BY DEF Mac!ReceiveBeacon, Mac!NothingJustReceived, Mac!Trx!Receiving,
         Mac!Trx!EndReception, MacP!ReceiveBeacon, MacP!NothingJustReceived,
         MacP!Trx!Receiving, MacP!Trx!EndReception
<1>19. \A f \in Frames :
         /\ Mac!MlmeAssociate(f) => MacP!MlmeAssociate(f)
         /\ Mac!McpsDataRequestQueued(f) => MacP!McpsDataRequestQueued(f)
  BY DEF Mac!ToSet, MacP!ToSet, Mac!MlmeAssociate, Mac!McpsDataRequestQueued,
         Mac!Enqueue, Mac!CheckQueue, Mac!radio, Mac!csmaCa, Mac!others,
         MacP!MlmeAssociate, MacP!McpsDataRequestQueued, MacP!Enqueue,
         MacP!CheckQueue, MacP!radio, MacP!csmaCa, MacP!others
<1>20. \A f \in Frames : Mac!McpsDataRequest(f) => MacP!McpsDataRequest(f)
  BY DEF Mac!ToSet, MacP!ToSet, Mac!McpsDataRequest, Mac!CheckQueue,
         Mac!radio, Mac!others, MacP!McpsDataRequest, MacP!CheckQueue,
         MacP!radio, MacP!others
<1>21. \A f \in Frames : Mac!MlmeGtsRequest(f) => MacP!MlmeGtsRequest(f)
  BY DEF Mac!ToSet, MacP!ToSet, Mac!MlmeGtsRequest, Mac!radio, Mac!others,
         MacP!MlmeGtsRequest, MacP!radio, MacP!others
<1>22. Mac!SendOneBeacon => MacP!SendOneBeacon
  BY DEF Mac!SendOneBeacon, Mac!radio, Mac!others, MacP!SendOneBeacon,
         MacP!radio, MacP!others
<1>23. \A v \in BOOLEAN : Mac!SetRxOnWhenIdle(v) => MacP!SetRxOnWhenIdle(v)
  BY DEF Mac!SetRxOnWhenIdle, Mac!RequestIdleState, Mac!queue, Mac!radio,
         Mac!csmaCa, Mac!Trx!Granted, Mac!Trx!PutOff, MacP!SetRxOnWhenIdle,
         MacP!RequestIdleState, MacP!queue, MacP!radio, MacP!csmaCa,
         MacP!Trx!Granted, MacP!Trx!PutOff
<1>24. UNCHANGED Mac!vars => UNCHANGED MacP!vars
  BY DEF Mac!vars, Mac!queue, Mac!radio, Mac!csmaCa, Mac!others, MacP!vars,
         MacP!queue, MacP!radio, MacP!csmaCa, MacP!others
<1>25. QED
  BY <1>1, <1>2, <1>3, <1>4, <1>5, <1>6, <1>7, <1>8, <1>9, <1>10, <1>11,
     <1>12, <1>13, <1>14, <1>15, <1>16, <1>17, <1>18, <1>19, <1>20, <1>21,
     <1>22, <1>23, <1>24
  DEF Mac!Next, Mac!SetMacStateEvent, Mac!AccessAnswered, Mac!Reception,
      Mac!Request, MacP!Next, MacP!SetMacStateEvent, MacP!AccessAnswered,
      MacP!Reception, MacP!Request

(* What a confirm of the CSMA/CA makes the MAC do is a step of the MAC.    *)
LEMMA ReportIsMacStep ==
  ASSUME NEW status, NEW e, NEW running, NEW absorbed,
         Reports(status, e, running, absorbed)
  PROVE  Mac!Next \/ UNCHANGED mac
<1>1. \/ Mac!ChannelIdle \/ Mac!ChannelAccessFailure \/ Mac!AccessAbsorbed
      \/ UNCHANGED mac
  BY DEF Reports, Answer
<1>2. QED
  BY <1>1 DEF Mac!Next, Mac!AccessAnswered

LEMMA DeviceStep ==
  ASSUME [Next]_vars
  PROVE  [Mac!Next]_(Mac!vars)
<1>1. UNCHANGED mac => UNCHANGED Mac!vars
  BY DEF mac, Mac!vars, Mac!queue, Mac!radio, Mac!csmaCa, Mac!others
<1>2. CASE SetMacStateEvent
  BY <1>2
  DEF SetMacStateEvent, Alone, Starting, TurningAround, Mac!Next,
      Mac!SetMacStateEvent
<1>3. CASE TurningAround(Mac!DirectTransmission) \/ TrxConfirm \/ EndTx
           \/ AckWaitTimeout \/ StartFires
  BY <1>3
  DEF TurningAround, TrxConfirm, EndTx, AckWaitTimeout, StartFires, Starting,
      Alone, Mac!Next
<1>4. CASE Backoff \/ CanProceed
  BY <1>1, <1>4 DEF Backoff, CanProceed, Silent
<1>5. CASE RequestCCA
  BY <1>1, <1>5 DEF RequestCCA, Mac!Next
<1>6. CASE RequestCCARefused \/ EndCca
  BY <1>1, <1>6, ReportIsMacStep DEF RequestCCARefused, EndCca
<1>7. CASE Reception
  BY <1>7 DEF Reception, Interrupting, Alone, Slotting, Mac!Next, Mac!Reception
<1>8. CASE Request
  <2>1. Mac!Request
    BY <1>8 DEF Request, Alone, Slotting, Mac!Request
  <2>2. QED
    BY <2>1 DEF Mac!Next
<1>9. CASE UNCHANGED vars
  BY <1>1, <1>9 DEF vars
<1>10. QED
  BY <1>2, <1>3, <1>4, <1>5, <1>6, <1>7, <1>8, <1>9
  DEF Next, ClearChannelAssessment

(* A device implements its MAC: over the CSMA/CA that is in use, LrWpanMac *)
(* takes only the steps it was specified, and checked, to take over an     *)
(* arbitrary one.  In particular each answer of the CSMA/CA comes while    *)
(* the MAC has an access to be answered.                                   *)
THEOREM MacImplemented == Spec => Mac!Init /\ [][Mac!Next]_(Mac!vars)
<1>1. Init => Mac!Init
  BY DEF Init
<1>2. [Next]_vars => [Mac!Next]_(Mac!vars)
  BY DeviceStep
<1>3. QED
  BY <1>1, <1>2, PTL DEF Spec

LEMMA MacTypeInit ==
  ASSUME Init
  PROVE  MacP!TypeOK
<1>1. MacP!Init
  BY DEF Init, Mac!Init, MacP!Init
<1>2. QED
  BY <1>1, MacAssumed, MacP!TypeInit

LEMMA MacTypeStep ==
  ASSUME MacP!TypeOK, [Next]_vars
  PROVE  MacP!TypeOK'
<1>1. [MacP!Next]_(MacP!vars)
  BY DeviceStep, SameSteps
<1>2. QED
  BY <1>1, MacAssumed, MacP!TypeStep

LEMMA MacTypeAlways == Spec => []MacP!TypeOK
  BY MacTypeInit, MacTypeStep, PTL DEF Spec

LEMMA MacInvStep ==
  ASSUME ClientOps = {}, MacP!TypeOK, MacP!MacInv, [Next]_vars
  PROVE  MacP!MacInv'
<1>1. [MacP!Next]_(MacP!vars)
  BY DeviceStep, SameSteps
<1>2. QED
  BY <1>1, MacAssumed, MacP!MacStep

LEMMA MacInvInit ==
  ASSUME Init
  PROVE  MacP!MacInv
<1>1. MacP!Init
  BY DEF Init, Mac!Init, MacP!Init
<1>2. QED
  BY <1>1, MacAssumed, MacP!MacInit

(* The states of the MAC of a device whose requests go through CheckQueue. *)
LEMMA MacInvAlways ==
  ASSUME ClientOps = {}
  PROVE  Spec => []MacP!MacInv
<1>1. Init => MacP!MacInv
  BY MacInvInit
<1>2. MacP!TypeOK /\ MacP!MacInv /\ [Next]_vars => MacP!MacInv'
  BY MacInvStep
<1>3. QED
  BY <1>1, <1>2, MacTypeAlways, PTL DEF Spec

(* No assertion of the MAC fails in a device, whose CSMA/CA answers when   *)
(* it does and not whenever the MAC could stand it.                        *)
THEOREM NoAssertFailsAlways ==
  ASSUME ClientOps = {}
  PROVE  Spec => []NoAssertFails
<1>1. MacP!TypeOK /\ MacP!MacInv => MacP!NoAssertFails
  BY MacAssumed, MacP!InvExcludesFailures
<1>2. MacP!NoAssertFails => NoAssertFails
  BY DEF NoAssertFails, Mac!NoAssertFails, Mac!SendingFails,
         Mac!SetMacStateFails, Mac!AckWaitTimeoutFails, Mac!TrxConfirmFails,
         Mac!EndTxFails, Mac!IndicationFails, Mac!AccessFails,
         Mac!NothingJustReceived, Mac!Trx!Receiving, MacP!NoAssertFails,
         MacP!SendingFails, MacP!SetMacStateFails, MacP!AckWaitTimeoutFails,
         MacP!TrxConfirmFails, MacP!EndTxFails, MacP!IndicationFails,
         MacP!AccessFails, MacP!NothingJustReceived, MacP!Trx!Receiving
<1>3. QED
  BY <1>1, <1>2, MacTypeAlways, MacInvAlways, PTL
-----------------------------------------------------------------------------
(* The accesses are counted by the steps of the CSMA/CA that are scheduled *)
(* and by the CCA whose confirm counts.                                    *)
EventsType == [Csma!Kinds -> EventIdType]

EventsOK == event \in EventsType /\ ccaRequestRunning \in BOOLEAN

StepCount(e) ==
  EventCount(e["randomBackoff"]) + EventCount(e["canProceed"])
    + EventCount(e["requestCca"])

StepKinds == Csma!Kinds \ {"endCca"}

LEMMA EventIdCounts ==
  ASSUME NEW id \in EventIdType
  PROVE  /\ EventCount(id) \in Nat
         /\ Live(id) <=> EventCount(id) > 0
         /\ Csma!Scheduled(id) \in EventIdType
         /\ EventCount(Csma!Scheduled(id)) = EventCount(id) + 1
         /\ Csma!Cancelled(id) \in EventIdType
         /\ \A left \in Csma!AfterFiring(id) :
              left \in EventIdType /\ EventCount(left) = EventCount(id) - 1
<1>1. id.held \in BOOLEAN /\ id.orphans \in Nat
  BY DEF EventIdType
<1>2. EventCount(id) \in Nat /\ (Live(id) <=> EventCount(id) > 0)
  BY <1>1 DEF EventCount, Live
<1>3. /\ Csma!Scheduled(id) \in EventIdType
      /\ EventCount(Csma!Scheduled(id)) = EventCount(id) + 1
  BY <1>1 DEF EventIdType, EventCount, Csma!Scheduled
<1>4. Csma!Cancelled(id) \in EventIdType
  BY <1>1 DEF EventIdType, Csma!Cancelled
<1>5. ASSUME NEW left \in Csma!AfterFiring(id)
      PROVE  left \in EventIdType /\ EventCount(left) = EventCount(id) - 1
  <2>1. CASE id.held /\ left = Csma!Cancelled(id)
    BY <1>1, <1>4, <2>1 DEF EventIdType, EventCount, Csma!Cancelled
  <2>2. CASE id.orphans > 0 /\ left = [id EXCEPT !.orphans = id.orphans - 1]
    BY <1>1, <2>2 DEF EventIdType, EventCount
  <2>3. QED
    BY <2>1, <2>2 DEF Csma!AfterFiring
<1>6. QED
  BY <1>2, <1>3, <1>4, <1>5

LEMMA StepCountType ==
  ASSUME NEW e \in EventsType
  PROVE  /\ StepCount(e) \in Nat
         /\ \A k \in Csma!Kinds : e[k] \in EventIdType
         /\ \A k \in StepKinds : Live(e[k]) => StepCount(e) > 0
<1>1. \A k \in Csma!Kinds : e[k] \in EventIdType
  BY DEF EventsType
<1>2. /\ EventCount(e["randomBackoff"]) \in Nat
      /\ EventCount(e["canProceed"]) \in Nat
      /\ EventCount(e["requestCca"]) \in Nat
  BY <1>1, EventIdCounts DEF Csma!Kinds
<1>3. \A k \in Csma!Kinds : Live(e[k]) => EventCount(e[k]) > 0
  BY <1>1, EventIdCounts
<1>4. StepCount(e) \in Nat
  BY <1>2 DEF StepCount
<1>5. ASSUME NEW k \in StepKinds, Live(e[k])
      PROVE  StepCount(e) > 0
  <2>1. k = "randomBackoff" \/ k = "canProceed" \/ k = "requestCca"
    BY DEF StepKinds, Csma!Kinds
  <2>2. EventCount(e[k]) > 0
    BY <1>3, <1>5 DEF StepKinds
  <2>3. QED
    BY <1>2, <2>1, <2>2 DEF StepCount
<1>6. QED
  BY <1>1, <1>4, <1>5

LEMMA ScheduleCounts ==
  ASSUME NEW e \in EventsType, NEW k \in Csma!Kinds
  PROVE  /\ Csma!Schedule(e, k) \in EventsType
         /\ k = "endCca" =>
              /\ StepCount(Csma!Schedule(e, k)) = StepCount(e)
              /\ Live(Csma!Schedule(e, k)["endCca"])
         /\ k # "endCca" =>
              /\ StepCount(Csma!Schedule(e, k)) = StepCount(e) + 1
              /\ Csma!Schedule(e, k)["endCca"] = e["endCca"]
<1>1. \A l \in Csma!Kinds : e[l] \in EventIdType /\ EventCount(e[l]) \in Nat
  BY EventIdCounts DEF EventsType
<1>2. /\ Csma!Scheduled(e[k]) \in EventIdType
      /\ EventCount(Csma!Scheduled(e[k])) = EventCount(e[k]) + 1
  BY <1>1, EventIdCounts
<1>3. Csma!Schedule(e, k) = [e EXCEPT ![k] = Csma!Scheduled(e[k])]
  BY DEF Csma!Schedule
<1>4. Csma!Schedule(e, k) \in EventsType
  BY <1>2, <1>3 DEF EventsType
<1>5. \A l \in Csma!Kinds :
        Csma!Schedule(e, k)[l] = IF l = k THEN Csma!Scheduled(e[k]) ELSE e[l]
  BY <1>3 DEF EventsType
<1>6. Live(Csma!Scheduled(e[k]))
  BY <1>1, <1>2, EventIdCounts
<1>7. QED
  BY <1>1, <1>2, <1>4, <1>5, <1>6 DEF StepCount, Csma!Kinds

LEMMA FireCounts ==
  ASSUME EventsOK, NEW k \in Csma!Kinds, NEW e \in Csma!Fire(k)
  PROVE  /\ e \in EventsType
         /\ Live(event[k])
         /\ k = "endCca" => StepCount(e) = StepCount(event)
         /\ k # "endCca" =>
              /\ StepCount(e) = StepCount(event) - 1
              /\ e["endCca"] = event["endCca"]
<1>1. \A l \in Csma!Kinds :
        event[l] \in EventIdType /\ EventCount(event[l]) \in Nat
  BY EventIdCounts DEF EventsOK, EventsType
<1>2. PICK left \in Csma!AfterFiring(event[k]) : e = [event EXCEPT ![k] = left]
  BY DEF Csma!Fire
<1>3. left \in EventIdType /\ EventCount(left) = EventCount(event[k]) - 1
  BY <1>1, <1>2, EventIdCounts
<1>4. e \in EventsType
  BY <1>2, <1>3 DEF EventsOK, EventsType
<1>5. \A l \in Csma!Kinds : e[l] = IF l = k THEN left ELSE event[l]
  BY <1>2 DEF EventsOK, EventsType
<1>6. Live(event[k])
  BY <1>2 DEF Csma!AfterFiring, Live
<1>7. QED
  BY <1>1, <1>3, <1>4, <1>5, <1>6 DEF StepCount, Csma!Kinds

(* A confirm that counts ends its access, or schedules one more step of it.*)
LEMMA ConfirmCounts ==
  ASSUME EventsOK, NEW status, NEW e \in EventsType, NEW running \in BOOLEAN,
         Csma!PlmeCcaConfirm(status, e, running)
  PROVE  /\ EventsOK'
         /\ running =>
              /\ ~ccaRequestRunning'
              /\ StepCount(event') = IF Answer(status, running) = "none"
                                       THEN StepCount(e) + 1 ELSE StepCount(e)
         /\ ~running => event' = e /\ UNCHANGED ccaRequestRunning
<1>1. CASE ~running
  BY <1>1 DEF Csma!PlmeCcaConfirm, EventsOK
<1>2. CASE running
  <2>1. ~ccaRequestRunning' /\ ccaRequestRunning' \in BOOLEAN
    BY <1>2 DEF Csma!PlmeCcaConfirm
  <2>2. \/ Answer(status, running) # "none" /\ event' = e
        \/ /\ Answer(status, running) = "none"
           /\ \E k \in StepKinds : event' = Csma!Schedule(e, k)
    BY <1>2
    DEF Csma!PlmeCcaConfirm, Csma!ConfirmIdle, Csma!ConfirmNotIdle,
        Csma!Report, Csma!Continue, Csma!Grants, Csma!GivesUp, Answer,
        StepKinds, Csma!Kinds
  <2>3. ASSUME NEW k \in StepKinds
        PROVE  /\ Csma!Schedule(e, k) \in EventsType
               /\ StepCount(Csma!Schedule(e, k)) = StepCount(e) + 1
    BY ScheduleCounts DEF StepKinds
  <2>4. QED
    BY <1>2, <2>1, <2>2, <2>3 DEF EventsOK
<1>3. QED
  BY <1>1, <1>2

LEMMA CancelTypes ==
  ASSUME NEW e \in EventsType
  PROVE  Csma!CancelEvent(e, "endCca") \in EventsType
<1>1. Csma!Cancelled(e["endCca"]) \in EventIdType
  BY EventIdCounts DEF EventsType, Csma!Kinds
<1>2. QED
  BY <1>1 DEF Csma!CancelEvent, EventsType

(* The end of a CCA, of the request for one, or of an access that another  *)
(* absorbs: the MAC and the CSMA/CA count it alike.                        *)
LEMMA ReportAgrees ==
  ASSUME EventsOK, AccessAgrees, access \in Nat,
         NEW status \in {"IDLE", "BUSY", "TRX_OFF"}, NEW e \in EventsType,
         NEW running \in BOOLEAN, NEW absorbed \in BOOLEAN,
         Reports(status, e, running, absorbed),
         absorbed => running,
         status = "IDLE" => ~absorbed,
         ~running => /\ ~ccaRequestRunning
                     /\ StepCount(e) = StepCount(event),
         running =>
           AccessCount = StepCount(e) + IF absorbed THEN 2 ELSE 1
  PROVE  EventsOK' /\ AccessAgrees'
<1>1. PICK f \in EventsType :
        /\ Csma!PlmeCcaConfirm(status, f, running)
        /\ StepCount(f) = StepCount(e)
  <2>1. Csma!CancelEvent(e, "endCca") \in EventsType
    BY CancelTypes
  <2>2. StepCount(Csma!CancelEvent(e, "endCca")) = StepCount(e)
    BY DEF Csma!CancelEvent, StepCount, EventsType, Csma!Kinds
  <2>3. QED
    BY <2>1, <2>2 DEF Reports
<1>2. EventsOK'
  BY <1>1, ConfirmCounts
<1>3. StepCount(e) \in Nat
  BY StepCountType
<1>4. CASE ~running
  <2>1. event' = f /\ ~ccaRequestRunning' /\ access' = access
    <3>1. Answer(status, running) = "none"
      BY <1>4 DEF Answer
    <3>2. UNCHANGED mac
      BY <1>4, <3>1 DEF Reports
    <3>3. QED
      BY <1>1, <1>4, <3>2, ConfirmCounts DEF mac
  <2>2. AccessCount = StepCount(e)
    BY <1>3, <1>4 DEF AccessCount, StepCount
  <2>3. AccessCount' = StepCount(e)
    <3>1. AccessCount' = StepCount(event') + 0
      BY <2>1 DEF AccessCount, StepCount
    <3>2. QED
      BY <1>1, <1>3, <2>1, <3>1
  <2>4. QED
    BY <1>2, <2>1, <2>2, <2>3 DEF AccessAgrees
<1>5. CASE running
  <2>1. AccessCount' = IF Answer(status, running) = "none"
                         THEN StepCount(e) + 1 ELSE StepCount(e)
    <3>1. ~ccaRequestRunning'
          /\ StepCount(event') = IF Answer(status, running) = "none"
                                   THEN StepCount(f) + 1 ELSE StepCount(f)
      BY <1>1, <1>5, ConfirmCounts
    <3>2. AccessCount' = StepCount(event') + 0
      BY <3>1 DEF AccessCount, StepCount
    <3>3. QED
      BY <1>1, <1>3, <3>1, <3>2
  <2>2. access = StepCount(e) + IF absorbed THEN 2 ELSE 1
    BY <1>5 DEF AccessAgrees
  <2>3. CASE Answer(status, running) = "CHANNEL_IDLE"
    <3>1. Mac!ChannelIdle /\ ~absorbed
      BY <2>3 DEF Reports, Answer
    <3>2. QED
      BY <1>2, <1>3, <2>1, <2>2, <2>3, <3>1 DEF Mac!ChannelIdle, AccessAgrees
  <2>4. CASE Answer(status, running) = "CHANNEL_ACCESS_FAILURE"
    <3>1. access - access' = (IF absorbed THEN 2 ELSE 1) /\ access' \in Int
      BY <2>4 DEF Reports, Mac!ChannelAccessFailure
    <3>2. QED
      BY <1>2, <1>3, <2>1, <2>2, <2>4, <3>1 DEF AccessAgrees
  <2>5. CASE Answer(status, running) = "none"
    <3>1. IF absorbed THEN Mac!AccessAbsorbed ELSE UNCHANGED mac
      BY <2>5 DEF Reports
    <3>2. QED
      BY <1>2, <1>3, <2>1, <2>2, <2>5, <3>1
      DEF Mac!AccessAbsorbed, mac, AccessAgrees
  <2>6. QED
    BY <2>3, <2>4, <2>5 DEF Answer
<1>6. QED
  BY <1>4, <1>5

LEMMA AccessStep ==
  ASSUME EventsOK, AccessAgrees, access \in Nat, [Next]_vars
  PROVE  EventsOK' /\ AccessAgrees'
<1>0. StepCount(event) \in Nat
  BY StepCountType DEF EventsOK
<1>1. ASSUME UNCHANGED <<access, event, ccaRequestRunning>>
      PROVE  EventsOK' /\ AccessAgrees'
  BY <1>1 DEF EventsOK, AccessAgrees, AccessCount
<1>2. ASSUME \/ UNCHANGED csma /\ access' = access
             \/ Csma!Start /\ access' = access + 1
      PROVE  EventsOK' /\ AccessAgrees'
  <2>1. CASE UNCHANGED csma /\ access' = access
    BY <1>1, <2>1 DEF csma
  <2>2. CASE Csma!Start /\ access' = access + 1
    <3>1. event' = Csma!Schedule(event, "randomBackoff")
          /\ UNCHANGED ccaRequestRunning
      BY <2>2 DEF Csma!Start
    <3>2. /\ event' \in EventsType
          /\ StepCount(event') = StepCount(event) + 1
          /\ event'["endCca"] = event["endCca"]
      BY <3>1, ScheduleCounts DEF EventsOK, Csma!Kinds
    <3>3. AccessCount' = AccessCount + 1
      BY <1>0, <3>1, <3>2 DEF AccessCount, StepCount
    <3>4. QED
      BY <2>2, <3>1, <3>2, <3>3 DEF EventsOK, AccessAgrees
  <2>3. QED
    BY <1>2, <2>1, <2>2
<1>3. ASSUME \/ UNCHANGED csma \/ Csma!AbortCca \/ Csma!Cancel,
             access' = AccessCount'
      PROVE  EventsOK' /\ AccessAgrees'
  <2>1. CASE UNCHANGED csma
    BY <1>3, <2>1 DEF csma, EventsOK, AccessAgrees
  <2>2. CASE Csma!AbortCca
    <3>1. EventsOK'
      BY <2>2, CancelTypes, ConfirmCounts DEF Csma!AbortCca, EventsOK
    <3>2. QED
      BY <1>3, <3>1 DEF AccessAgrees
  <2>3. CASE Csma!Cancel
    <3>1. \A k \in Csma!Kinds : Csma!Cancelled(event[k]) \in EventIdType
      BY EventIdCounts DEF EventsOK, EventsType
    <3>2. EventsOK'
      BY <2>3, <3>1 DEF Csma!Cancel, EventsOK, EventsType
    <3>3. QED
      BY <1>3, <3>2 DEF AccessAgrees
  <2>4. QED
    BY <1>3, <2>1, <2>2, <2>3
<1>4. CASE Alone(Mac!SetIdle) \/ Alone(Mac!SetAckPending) \/ EndTx
           \/ Alone(Mac!ReceiveAck) \/ Alone(Mac!ReceiveOtherAck)
  BY <1>2, <1>4
  DEF Alone, EndTx, Mac!SetIdle, Mac!SetAckPending, Mac!EndTx, Mac!ReceiveAck,
      Mac!ReceiveOtherAck, Mac!csmaCa
<1>5. CASE Starting(Mac!SetCsma) \/ TrxConfirm \/ AckWaitTimeout \/ StartFires
  <2>1. access' = access \/ access' = access + 1
    BY <1>5
    DEF Starting, TrxConfirm, AckWaitTimeout, StartFires, Mac!SetCsma,
        Mac!TrxConfirm, Mac!AckWaitTimeout, Mac!StartFires, Mac!GoCsma
  <2>2. IF access' > access THEN Csma!Start ELSE UNCHANGED csma
    BY <1>5 DEF Starting, TrxConfirm, AckWaitTimeout, StartFires
  <2>3. QED
    BY <1>2, <2>1, <2>2
<1>6. CASE TurningAround(Mac!SendAck) \/ TurningAround(Mac!TransmitBeacon)
           \/ TurningAround(Mac!DirectTransmission)
  BY <1>3, <1>6 DEF TurningAround
<1>7. CASE Interrupting(Mac!ReceiveAckReqFrame)
           \/ Interrupting(Mac!OverhearGtsRequest)
  BY <1>3, <1>7 DEF Interrupting
<1>8. CASE Slotting(Mac!ReceiveBeacon) \/ Slotting(Mac!SendOneBeacon)
  BY <1>1, <1>8
  DEF Slotting, Mac!ReceiveBeacon, Mac!SendOneBeacon, Csma!SetSlottedCsmaCa,
      Csma!algorithm, csma
<1>9. ASSUME NEW f \in Frames,
             Alone(\/ Mac!MlmeAssociate(f) \/ Mac!McpsDataRequestQueued(f)
                   \/ Mac!McpsDataRequest(f) \/ Mac!MlmeGtsRequest(f))
      PROVE  EventsOK' /\ AccessAgrees'
  BY <1>2, <1>9
  DEF Alone, Mac!MlmeAssociate, Mac!McpsDataRequestQueued, Mac!Enqueue,
      Mac!McpsDataRequest, Mac!MlmeGtsRequest, Mac!csmaCa
<1>10. ASSUME NEW v \in BOOLEAN, Alone(Mac!SetRxOnWhenIdle(v))
       PROVE  EventsOK' /\ AccessAgrees'
  BY <1>2, <1>10 DEF Alone, Mac!SetRxOnWhenIdle, Mac!csmaCa
<1>11. CASE Backoff \/ CanProceed
  <2>0. PICK k \in StepKinds, l \in StepKinds :
          \E e \in Csma!Fire(k) : event' = Csma!Schedule(e, l)
    BY <1>11
    DEF Backoff, CanProceed, Silent, Csma!RandomBackoffDelay, Csma!CanProceed,
        StepKinds, Csma!Kinds
  <2>1. PICK e \in Csma!Fire(k) : event' = Csma!Schedule(e, l)
    BY <2>0
  <2>2. UNCHANGED <<access, ccaRequestRunning>>
    BY <1>11
    DEF Backoff, CanProceed, Silent, Csma!RandomBackoffDelay, Csma!CanProceed,
        mac
  <2>3. /\ e \in EventsType
        /\ StepCount(e) = StepCount(event) - 1
        /\ e["endCca"] = event["endCca"]
    BY FireCounts DEF StepKinds
  <2>4. /\ event' \in EventsType
        /\ StepCount(event') = StepCount(e) + 1
        /\ event'["endCca"] = e["endCca"]
    BY <2>1, <2>3, ScheduleCounts DEF StepKinds
  <2>5. StepCount(event') = StepCount(event)
    BY <1>0, <2>3, <2>4
  <2>6. QED
    BY <2>2, <2>3, <2>4, <2>5
    DEF EventsOK, AccessAgrees, AccessCount, StepCount
<1>12. CASE RequestCCA
  <2>1. PICK e \in Csma!Fire("requestCca") :
          event' = Csma!Schedule(e, "endCca") /\ ccaRequestRunning' = TRUE
    BY <1>12 DEF RequestCCA, Csma!RequestCCA
  <2>2. e \in EventsType /\ StepCount(e) = StepCount(event) - 1
    BY FireCounts DEF Csma!Kinds
  <2>3. /\ event' \in EventsType
        /\ StepCount(event') = StepCount(e)
        /\ Live(event'["endCca"])
    BY <2>1, <2>2, ScheduleCounts DEF Csma!Kinds
  <2>4. AccessCount' = StepCount(event)
    <3>1. AccessCount' = StepCount(event') + 1
      BY <2>1, <2>3 DEF AccessCount, StepCount
    <3>2. QED
      BY <1>0, <2>2, <2>3, <3>1
  <2>5. AccessCount = StepCount(event) + IF CcaRuns THEN 1 ELSE 0
    BY DEF AccessCount, StepCount, CcaRuns
  <2>6. access' = IF CcaRuns THEN access - 1 ELSE access
    BY <1>12 DEF RequestCCA, Mac!AccessAbsorbed, mac
  <2>7. QED
    BY <1>0, <2>1, <2>3, <2>4, <2>5, <2>6 DEF EventsOK, AccessAgrees
<1>13. CASE RequestCCARefused
  <2>1. PICK e \in Csma!Fire("requestCca"), status \in {"TRX_OFF", "BUSY"} :
          Reports(status, e, TRUE, CcaRuns)
    BY <1>13 DEF RequestCCARefused
  <2>2. e \in EventsType /\ StepCount(e) = StepCount(event) - 1
    BY FireCounts DEF Csma!Kinds
  <2>3. AccessCount = StepCount(event) + IF CcaRuns THEN 1 ELSE 0
    BY DEF AccessCount, StepCount, CcaRuns
  <2>4. CcaRuns \in BOOLEAN
    BY DEF CcaRuns, EventsOK, Live
  <2>5. AccessCount = StepCount(e) + IF CcaRuns THEN 2 ELSE 1
    BY <1>0, <2>2, <2>3
  <2>6. QED
    BY <2>1, <2>2, <2>4, <2>5, ReportAgrees
<1>14. CASE EndCca
  <2>1. PICK e \in Csma!Fire("endCca"), status \in {"IDLE", "BUSY"} :
          Reports(status, e, ccaRequestRunning, FALSE)
    BY <1>14 DEF EndCca
  <2>2. /\ e \in EventsType /\ StepCount(e) = StepCount(event)
        /\ Live(event["endCca"])
    BY FireCounts DEF Csma!Kinds
  <2>3. ccaRequestRunning => AccessCount = StepCount(e) + 1
    BY <2>2 DEF AccessCount, StepCount
  <2>4. ccaRequestRunning \in BOOLEAN
    BY DEF EventsOK
  <2>5. QED
    BY <2>1, <2>2, <2>3, <2>4, ReportAgrees
<1>15. CASE UNCHANGED vars
  BY <1>1, <1>15 DEF vars, mac, csma
<1>16. QED
  BY <1>4, <1>5, <1>6, <1>7, <1>8, <1>9, <1>10, <1>11, <1>12, <1>13, <1>14,
     <1>15
  DEF Next, SetMacStateEvent, ClearChannelAssessment, Reception, Request

LEMMA AccessInit ==
  ASSUME Init
  PROVE  EventsOK /\ AccessAgrees
<1>1. /\ access = 0 /\ ccaRequestRunning = FALSE
      /\ event = [k \in Csma!Kinds |-> Csma!NoEvent]
  BY DEF Init, Mac!Init, Csma!InitWith
<1>2. Csma!NoEvent \in EventIdType /\ EventCount(Csma!NoEvent) = 0
  BY DEF Csma!NoEvent, EventIdType, EventCount
<1>3. EventsOK
  BY <1>1, <1>2 DEF EventsOK, EventsType
<1>4. /\ event["randomBackoff"] = Csma!NoEvent
      /\ event["canProceed"] = Csma!NoEvent
      /\ event["requestCca"] = Csma!NoEvent
  BY <1>1 DEF Csma!Kinds
<1>5. QED
  BY <1>1, <1>2, <1>3, <1>4 DEF AccessAgrees, AccessCount

(* The MAC and the CSMA/CA agree on how many accesses are to be answered,  *)
(* whatever operations bypass the queue, and whatever Start forgets,       *)
(* Cancel leaves running, a turnaround aborts and one access absorbs of    *)
(* another.                                                                *)
THEOREM AccessAgreesAlways == Spec => []AccessAgrees
<1>1. Init => EventsOK /\ AccessAgrees
  BY AccessInit
<1>2. MacP!TypeOK /\ EventsOK /\ AccessAgrees /\ [Next]_vars
        => EventsOK' /\ AccessAgrees'
  BY AccessStep DEF MacP!TypeOK
<1>3. QED
  BY <1>1, <1>2, MacTypeAlways, PTL DEF Spec
-----------------------------------------------------------------------------
(* Until Cancel meets a running CCA, no step of the CSMA/CA is forgotten,  *)
(* and the confirm of a CCA that the PHY runs counts.  Without this the    *)
(* steps that are counted need not be the steps that are scheduled.        *)
NoOrphans(e) == \A k \in Csma!Kinds : e[k].orphans = 0

Tracked ==
  /\ NoOrphans(event)
  /\ event["endCca"].held => ccaRequestRunning

Expected == IF macState = "CSMA" /\ trxRequest # "RX_ON" THEN 1 ELSE 0

NothingScheduled(e) == NoOrphans(e) /\ \A k \in Csma!Kinds : ~e[k].held

LEMMA OneScheduled ==
  ASSUME EventsOK, Tracked, AccessCount = Expected
  PROVE  /\ \A k \in Csma!Kinds : event[k].held => Expected = 1
         /\ \A k, l \in Csma!Kinds : event[k].held /\ event[l].held => k = l
<1>1. \A k \in Csma!Kinds : event[k] \in EventIdType
  BY DEF EventsOK, EventsType
<1>2. \A k \in Csma!Kinds :
        EventCount(event[k]) = IF event[k].held THEN 1 ELSE 0
  BY <1>1 DEF Tracked, NoOrphans, EventCount, EventIdType
<1>3. Live(event["endCca"]) <=> event["endCca"].held
  BY DEF Live, Tracked, NoOrphans, Csma!Kinds
<1>4. AccessCount = (IF event["randomBackoff"].held THEN 1 ELSE 0)
                      + (IF event["canProceed"].held THEN 1 ELSE 0)
                      + (IF event["requestCca"].held THEN 1 ELSE 0)
                      + (IF event["endCca"].held THEN 1 ELSE 0)
  BY <1>2, <1>3 DEF AccessCount, Tracked, Csma!Kinds
<1>5. Expected \in {0, 1}
  BY DEF Expected
<1>6. QED
  BY <1>4, <1>5 DEF Csma!Kinds

LEMMA NothingAfterFiring ==
  ASSUME EventsOK, Tracked, AccessCount = Expected,
         NEW k \in Csma!Kinds, NEW e \in Csma!Fire(k)
  PROVE  event[k].held /\ NothingScheduled(e) /\ e \in EventsType
<1>1. PICK left \in Csma!AfterFiring(event[k]) : e = [event EXCEPT ![k] = left]
  BY DEF Csma!Fire
<1>2. event[k].held /\ left = Csma!Cancelled(event[k])
  BY DEF Csma!AfterFiring, Tracked, NoOrphans
<1>3. event[k] \in EventIdType
  BY DEF EventsOK, EventsType
<1>4. left.orphans = 0 /\ ~left.held
  BY <1>2, <1>3 DEF Csma!Cancelled, Tracked, NoOrphans, EventIdType
<1>5. \A l \in Csma!Kinds : e[l] = IF l = k THEN left ELSE event[l]
  BY <1>1 DEF EventsOK, EventsType
<1>6. \A l \in Csma!Kinds : event[l].held => l = k
  BY <1>2, OneScheduled
<1>7. e \in EventsType
  BY FireCounts
<1>8. QED
  BY <1>2, <1>4, <1>5, <1>6, <1>7 DEF NothingScheduled, Tracked, NoOrphans

LEMMA NothingAfterCancel ==
  ASSUME NEW e \in EventsType, NothingScheduled(e)
  PROVE  NothingScheduled(Csma!CancelEvent(e, "endCca"))
<1>1. e["endCca"] \in EventIdType
  BY DEF EventsType, Csma!Kinds
<1>2. /\ ~Csma!Cancelled(e["endCca"]).held
      /\ Csma!Cancelled(e["endCca"]).orphans = e["endCca"].orphans
  BY <1>1 DEF Csma!Cancelled, EventIdType
<1>3. QED
  BY <1>2
  DEF Csma!CancelEvent, EventsType, NothingScheduled, NoOrphans, Csma!Kinds

LEMMA ScheduleTracked ==
  ASSUME NEW e \in EventsType, NothingScheduled(e), NEW k \in Csma!Kinds
  PROVE  /\ NoOrphans(Csma!Schedule(e, k))
         /\ Csma!Schedule(e, k)["endCca"].held => k = "endCca"
<1>1. Csma!Scheduled(e[k]).orphans = 0
  BY DEF NothingScheduled, NoOrphans, Csma!Scheduled
<1>2. \A l \in Csma!Kinds :
        Csma!Schedule(e, k)[l] = IF l = k THEN Csma!Scheduled(e[k]) ELSE e[l]
  BY DEF Csma!Schedule, EventsType
<1>3. QED
  BY <1>1, <1>2 DEF NothingScheduled, NoOrphans, Csma!Kinds

(* After a confirm that counts, one step is scheduled or none.             *)
LEMMA ConfirmTracked ==
  ASSUME EventsOK, NEW status, NEW e \in EventsType, NothingScheduled(e),
         Csma!PlmeCcaConfirm(status, e, TRUE)
  PROVE  Tracked'
<1>1. event' = e \/ \E k \in StepKinds : event' = Csma!Schedule(e, k)
  BY DEF Csma!PlmeCcaConfirm, Csma!ConfirmIdle, Csma!ConfirmNotIdle,
         Csma!Report, Csma!Continue, StepKinds, Csma!Kinds
<1>2. NoOrphans(event') /\ ~event'["endCca"].held
  <2>1. CASE event' = e
    BY <2>1 DEF NothingScheduled, Csma!Kinds
  <2>2. CASE \E k \in StepKinds : event' = Csma!Schedule(e, k)
    BY <2>2, ScheduleTracked DEF StepKinds
  <2>3. QED
    BY <1>1, <2>1, <2>2
<1>3. QED
  BY <1>2 DEF Tracked, NoOrphans

LEMMA OneAccessStep ==
  ASSUME ClientOps = {}, MacP!TypeOK, MacP!MacInv, EventsOK, AccessAgrees,
         Tracked, access = Expected, ~revived, [Next]_vars, ~revived'
  PROVE  Tracked' /\ access' = Expected'
<1>0. /\ MacP!WhenIdle /\ MacP!WhenCsma /\ MacP!WhenAckPending
      /\ MacP!WhenSending /\ gtsFrame = NoPacket /\ starts = 0
  BY DEF MacP!MacInv, MacP!QueueOnly
<1>1. /\ macState \in {"IDLE", "CSMA", "ACK_PENDING", "SENDING"}
      /\ access \in {0, 1} /\ AccessCount = Expected
      /\ macState # "CSMA" => access = 0
  BY DEF MacP!TypeOK, MacP!MacStates, Expected, AccessAgrees
<1>2. \A k \in Csma!Kinds : event[k].held => access = 1
  BY <1>1, OneScheduled
<1>3. ASSUME UNCHANGED <<event, ccaRequestRunning>>
      PROVE  Tracked'
  BY <1>3 DEF Tracked, NoOrphans
<1>4. ASSUME access = 0, access' \in {0, 1},
             IF access' > access THEN Csma!Start ELSE UNCHANGED csma
      PROVE  Tracked'
  <2>1. CASE UNCHANGED csma
    BY <1>3, <2>1 DEF csma
  <2>2. CASE Csma!Start
    <3>1. NothingScheduled(event) /\ event \in EventsType
      BY <1>2, <1>4 DEF NothingScheduled, Tracked, EventsOK
    <3>2. event' = Csma!Schedule(event, "randomBackoff")
      BY <2>2 DEF Csma!Start
    <3>3. NoOrphans(event') /\ ~event'["endCca"].held
      BY <3>1, <3>2, ScheduleTracked DEF Csma!Kinds
    <3>4. QED
      BY <3>3 DEF Tracked, NoOrphans
  <2>3. QED
    BY <1>4, <2>1, <2>2
<1>5. CASE Alone(Mac!SetIdle) \/ Alone(Mac!SetAckPending) \/ EndTx
           \/ Alone(Mac!ReceiveAck) \/ Alone(Mac!ReceiveOtherAck)
  <2>1. Tracked'
    BY <1>3, <1>5 DEF Alone, EndTx, csma
  <2>2. macState # "CSMA" /\ macState' # "CSMA" /\ access' = access
    BY <1>0, <1>5
    DEF Alone, EndTx, Mac!SetIdle, Mac!GoIdle, Mac!SetAckPending, Mac!EndTx,
        Mac!ReceiveAck, Mac!ReceiveOtherAck, Mac!csmaCa, MacP!WhenCsma
  <2>3. QED
    BY <1>1, <2>1, <2>2 DEF Expected
<1>6. CASE Starting(Mac!SetCsma) \/ AckWaitTimeout
  <2>1. macState # "CSMA"
    BY <1>0, <1>6
    DEF Starting, AckWaitTimeout, Mac!SetCsma, Mac!AckWaitTimeout,
        MacP!WhenCsma
  <2>2. \/ Mac!GoCsma
        \/ macState' = "IDLE" /\ access' = access
    BY <1>6
    DEF Starting, AckWaitTimeout, Mac!SetCsma, Mac!AckWaitTimeout, Mac!GoIdle
  <2>3. access' = Expected'
    BY <1>1, <2>1, <2>2
    DEF Mac!GoCsma, Mac!Trx!Granted, Mac!Trx!PutOff, Expected
  <2>4. Tracked'
    BY <1>1, <1>4, <1>6, <2>1, <2>3 DEF Starting, AckWaitTimeout, Expected
  <2>5. QED
    BY <2>3, <2>4
<1>7. CASE TrxConfirm
  <2>1. /\ Mac!TrxConfirm
        /\ IF access' > access THEN Csma!Start ELSE UNCHANGED csma
    BY <1>7 DEF TrxConfirm, Starting
  <2>2. access = 0
    <3>1. CASE macState = "CSMA"
      BY <1>0, <2>1, <3>1 DEF Mac!TrxConfirm, MacP!WhenCsma, Expected
    <3>2. QED
      BY <1>1, <3>1
  <2>3. access' = Expected'
    BY <2>1, <2>2 DEF Mac!TrxConfirm, Expected
  <2>4. QED
    BY <1>4, <2>1, <2>2, <2>3 DEF Expected
<1>8. CASE StartFires \/ TurningAround(Mac!DirectTransmission)
           \/ TurningAround(Mac!TransmitBeacon)
           \/ Interrupting(Mac!OverhearGtsRequest)
           \/ Slotting(Mac!ReceiveBeacon) \/ Slotting(Mac!SendOneBeacon)
  BY <1>0, <1>1, <1>8
  DEF StartFires, Starting, TurningAround, Interrupting, Slotting,
      Mac!StartFires, Mac!DirectTransmission, Mac!TransmitBeacon,
      Mac!OverhearGtsRequest, Mac!ReceiveBeacon, Mac!SendOneBeacon,
      MacP!WhenIdle, MacP!WhenCsma, MacP!WhenAckPending, MacP!WhenSending
<1>9. CASE TurningAround(Mac!SendAck)
  <2>1. Mac!SendAck /\ access = 0
    BY <1>1, <1>9 DEF TurningAround, Mac!SendAck
  <2>2. ~IsRunning(event["endCca"])
    BY <1>2, <2>1 DEF IsRunning, Csma!Kinds
  <2>3. UNCHANGED csma
    BY <1>9, <2>2 DEF TurningAround
  <2>4. access' = 0 /\ macState' # "CSMA"
    BY <2>1 DEF Mac!SendAck, Mac!CcaAborted, Mac!GoSending
  <2>5. QED
    BY <1>3, <2>3, <2>4 DEF csma, Expected
<1>10. CASE Interrupting(Mac!ReceiveAckReqFrame)
  <2>1. macState' = "IDLE" /\ access' = AccessCount'
    BY <1>10 DEF Interrupting, Mac!ReceiveAckReqFrame
  <2>2. CASE macState = "CSMA"
    <3>1. Csma!Cancel /\ ~Live(event["endCca"])
      BY <1>10, <2>2 DEF Interrupting
    <3>2. \A k \in Csma!Kinds :
            event'[k] = IF k = "endCca" THEN event[k]
                                        ELSE Csma!Cancelled(event[k])
      BY <3>1 DEF Csma!Cancel
    <3>3. \A k \in Csma!Kinds : event[k] \in EventIdType
      BY DEF EventsOK, EventsType
    <3>4. \A k \in Csma!Kinds : event'[k].orphans = 0 /\ ~event'[k].held
      BY <3>1, <3>2, <3>3
      DEF Live, Csma!Cancelled, EventIdType, Tracked, NoOrphans
    <3>5. Tracked'
      BY <3>4 DEF Tracked, NoOrphans, Csma!Kinds
    <3>6. AccessCount' = 0
      BY <3>4 DEF AccessCount, EventCount, Live, Csma!Kinds
    <3>7. QED
      BY <2>1, <3>5, <3>6 DEF Expected
  <2>3. CASE macState # "CSMA"
    <3>1. UNCHANGED csma
      BY <1>10, <2>3 DEF Interrupting
    <3>2. AccessCount' = AccessCount
      BY <3>1 DEF csma, AccessCount
    <3>3. QED
      BY <1>1, <1>3, <2>1, <2>3, <3>1, <3>2 DEF csma, Expected
  <2>4. QED
    BY <2>2, <2>3
<1>11. ASSUME NEW f \in Frames,
              Alone(\/ Mac!MlmeAssociate(f) \/ Mac!McpsDataRequestQueued(f)
                    \/ Mac!McpsDataRequest(f) \/ Mac!MlmeGtsRequest(f))
       PROVE  Tracked' /\ access' = Expected'
  BY <1>3, <1>11
  DEF Alone, Mac!MlmeAssociate, Mac!McpsDataRequestQueued, Mac!Enqueue,
      Mac!McpsDataRequest, Mac!MlmeGtsRequest, Mac!csmaCa,
      Mac!radio, csma, Expected
<1>12. ASSUME NEW v \in BOOLEAN, Alone(Mac!SetRxOnWhenIdle(v))
       PROVE  Tracked' /\ access' = Expected'
  BY <1>3, <1>12
  DEF Alone, Mac!SetRxOnWhenIdle, Mac!csmaCa, Mac!radio, csma, Expected
<1>13. CASE Backoff \/ CanProceed
  <2>1. PICK k \in StepKinds, l \in StepKinds :
          \E e \in Csma!Fire(k) : event' = Csma!Schedule(e, l)
    BY <1>13
    DEF Backoff, CanProceed, Silent, Csma!RandomBackoffDelay, Csma!CanProceed,
        StepKinds, Csma!Kinds
  <2>2. PICK e \in Csma!Fire(k) : event' = Csma!Schedule(e, l)
    BY <2>1
  <2>3. e \in EventsType /\ NothingScheduled(e)
    BY <1>1, NothingAfterFiring DEF StepKinds
  <2>4. NoOrphans(event') /\ ~event'["endCca"].held
    BY <2>2, <2>3, ScheduleTracked DEF StepKinds
  <2>5. UNCHANGED mac
    BY <1>13 DEF Backoff, CanProceed, Silent
  <2>6. QED
    BY <2>4, <2>5 DEF Tracked, NoOrphans, mac, Expected
<1>14. CASE RequestCCA
  <2>1. PICK e \in Csma!Fire("requestCca") :
          event' = Csma!Schedule(e, "endCca") /\ ccaRequestRunning' = TRUE
    BY <1>14 DEF RequestCCA, Csma!RequestCCA
  <2>2. e \in EventsType /\ NothingScheduled(e) /\ event["requestCca"].held
    BY <1>1, NothingAfterFiring DEF Csma!Kinds
  <2>3. NoOrphans(event')
    BY <2>1, <2>2, ScheduleTracked DEF Csma!Kinds
  <2>4. UNCHANGED mac
    <3>1. ~event["endCca"].held
      BY <1>1, <2>2, OneScheduled DEF Csma!Kinds
    <3>2. ~CcaRuns
      BY <3>1 DEF CcaRuns, Live, Tracked, NoOrphans, Csma!Kinds
    <3>3. QED
      BY <1>14, <3>2 DEF RequestCCA
  <2>5. QED
    BY <2>1, <2>3, <2>4 DEF Tracked, NoOrphans, mac, Expected
<1>15. CASE RequestCCARefused
  <2>1. PICK e \in Csma!Fire("requestCca") : TRUE
    BY <1>15 DEF RequestCCARefused
  <2>2. event["requestCca"].held
    BY <1>1, NothingAfterFiring DEF Csma!Kinds
  <2>3. macState = "CSMA" /\ trxRequest # "RX_ON"
    BY <1>2, <2>2 DEF Csma!Kinds, Expected
  <2>4. QED
    BY <1>0, <1>15, <2>3 DEF RequestCCARefused, MacP!WhenCsma
<1>16. CASE EndCca
  <2>1. PICK e \in Csma!Fire("endCca"), status \in {"IDLE", "BUSY"} :
          Reports(status, e, ccaRequestRunning, FALSE)
    BY <1>16 DEF EndCca
  <2>2. e \in EventsType /\ NothingScheduled(e) /\ event["endCca"].held
    BY <1>1, NothingAfterFiring DEF Csma!Kinds
  <2>3. ccaRequestRunning = TRUE /\ access = 1 /\ macState = "CSMA"
    BY <1>1, <1>2, <2>2 DEF Tracked, EventsOK, Csma!Kinds
  <2>4. Tracked'
    <3>1. PICK f \in EventsType :
            NothingScheduled(f) /\ Csma!PlmeCcaConfirm(status, f, TRUE)
      BY <2>1, <2>2, <2>3, CancelTypes, NothingAfterCancel DEF Reports
    <3>2. QED
      BY <3>1, ConfirmTracked
  <2>5. access' = Expected'
    <3>1. CASE UNCHANGED mac
      BY <3>1 DEF mac, Expected
    <3>2. CASE Mac!ChannelIdle
      BY <2>3, <3>2 DEF Mac!ChannelIdle, Mac!GoSending, Expected
    <3>3. CASE Mac!ChannelAccessFailure
      BY <2>3, <3>3 DEF Mac!ChannelAccessFailure, Expected
    <3>4. QED
      BY <2>1, <3>1, <3>2, <3>3 DEF Reports
  <2>6. QED
    BY <2>4, <2>5
<1>17. CASE UNCHANGED vars
  BY <1>3, <1>17 DEF vars, mac, csma, Expected
<1>18. QED
  BY <1>5, <1>6, <1>7, <1>8, <1>9, <1>10, <1>11, <1>12, <1>13, <1>14, <1>15,
     <1>16, <1>17
  DEF Next, SetMacStateEvent, ClearChannelAssessment, Reception, Request

LEMMA RevivedForEver ==
  ASSUME revived \in BOOLEAN, [Next]_vars
  PROVE  revived' \in BOOLEAN /\ (revived => revived')
<1>1. \/ UNCHANGED revived
      \/ revived' = (revived \/ Live(event["endCca"]))
  BY DEF Next, SetMacStateEvent, TrxConfirm, EndTx, AckWaitTimeout, StartFires,
         Backoff, CanProceed, ClearChannelAssessment, RequestCCA,
         RequestCCARefused, EndCca, Reception, Request, Alone, Starting,
         TurningAround, Interrupting, Slotting, Silent, Reports, vars
<1>2. QED
  BY <1>1

ChainInv ==
  /\ revived \in BOOLEAN
  /\ ~revived => Tracked /\ access = Expected

LEMMA ChainInit ==
  ASSUME Init
  PROVE  ChainInv
<1>1. /\ access = 0 /\ macState = "IDLE" /\ revived = FALSE
      /\ event = [k \in Csma!Kinds |-> Csma!NoEvent]
  BY DEF Init, Mac!Init, Csma!InitWith
<1>2. \A k \in Csma!Kinds : event[k].orphans = 0 /\ ~event[k].held
  BY <1>1 DEF Csma!NoEvent
<1>3. QED
  BY <1>1, <1>2 DEF ChainInv, Tracked, NoOrphans, Expected, Csma!Kinds

LEMMA ChainStep ==
  ASSUME ClientOps = {}, MacP!TypeOK, MacP!MacInv, EventsOK, AccessAgrees,
         ChainInv, [Next]_vars
  PROVE  ChainInv'
<1>1. revived' \in BOOLEAN /\ (~revived' => ~revived)
  BY RevivedForEver DEF ChainInv
<1>2. ASSUME ~revived'
      PROVE  Tracked' /\ access' = Expected'
  BY <1>1, <1>2, OneAccessStep DEF ChainInv
<1>3. QED
  BY <1>1, <1>2 DEF ChainInv

(* A MAC whose requests go through CheckQueue has one access at a time,    *)
(* while it is in MAC_CSMA and the receiver is on, and none otherwise,     *)
(* unless it cancelled an access whose CCA was running.                    *)
THEOREM OneAccessAlways ==
  ASSUME ClientOps = {}
  PROVE  Spec => []OneAccess
<1>1. Init => ChainInv
  BY ChainInit
<1>2. MacP!TypeOK /\ MacP!MacInv /\ EventsOK /\ AccessAgrees /\ ChainInv
        /\ [Next]_vars
        => ChainInv'
  BY ChainStep
<1>3. AccessAgrees /\ ChainInv => OneAccess
  BY DEF AccessAgrees, ChainInv, Expected, OneAccess
<1>4. Init => EventsOK /\ AccessAgrees
  BY AccessInit
<1>5. MacP!TypeOK /\ EventsOK /\ AccessAgrees /\ [Next]_vars
        => EventsOK' /\ AccessAgrees'
  BY AccessStep DEF MacP!TypeOK
<1>6. QED
  BY <1>1, <1>2, <1>3, <1>4, <1>5, MacTypeAlways, MacInvAlways, PTL DEF Spec
-----------------------------------------------------------------------------
(* The CSMA/CA of a client that keeps to one access at a time and never    *)
(* cancels one whose CCA is running.                                       *)
Disciplined == INSTANCE LrWpanCsmaCa WITH
  macMaxBE <- 3, MinBESettings <- {}, MaxBESettings <- {},
  BackoffSettings <- {}, ClientOps <- {}

LEMMA SameCsmaSteps ==
  /\ Csma!SetSlottedCsmaCa => Disciplined!Next
  /\ Csma!RandomBackoffDelay => Disciplined!Next
  /\ Csma!CanProceed => Disciplined!Next
  /\ Csma!RequestCCA => Disciplined!Next
  /\ Csma!Start /\ ~pending => Disciplined!Next
  /\ Csma!Cancel /\ ~Live(event["endCca"]) => Disciplined!Next
<1>1. Csma!SetSlottedCsmaCa => Disciplined!SetSlottedCsmaCa
  BY DEF Csma!SetSlottedCsmaCa, Csma!algorithm, Csma!client, Csma!history,
         Disciplined!SetSlottedCsmaCa, Disciplined!algorithm,
         Disciplined!client, Disciplined!history
<1>2. Csma!RandomBackoffDelay => Disciplined!RandomBackoffDelay
  BY DEF Csma!RandomBackoffDelay, Csma!Fire, Csma!AfterFiring, Csma!Cancelled,
         Csma!Schedule, Csma!Scheduled, Csma!settings, Csma!client,
         Csma!history, Disciplined!RandomBackoffDelay, Disciplined!Fire,
         Disciplined!AfterFiring, Disciplined!Cancelled, Disciplined!Schedule,
         Disciplined!Scheduled, Disciplined!settings, Disciplined!client,
         Disciplined!history
<1>3. Csma!CanProceed => Disciplined!CanProceed
  BY DEF Csma!CanProceed, Csma!Fire, Csma!AfterFiring, Csma!Cancelled,
         Csma!Schedule, Csma!Scheduled, Csma!settings, Csma!client,
         Csma!history, Disciplined!CanProceed, Disciplined!Fire,
         Disciplined!AfterFiring, Disciplined!Cancelled, Disciplined!Schedule,
         Disciplined!Scheduled, Disciplined!settings, Disciplined!client,
         Disciplined!history
<1>4. Csma!RequestCCA => Disciplined!RequestCCA
  BY DEF Csma!RequestCCA, Csma!Fire, Csma!AfterFiring, Csma!Cancelled,
         Csma!Schedule, Csma!Scheduled, Csma!settings, Csma!client,
         Csma!history, Disciplined!RequestCCA, Disciplined!Fire,
         Disciplined!AfterFiring, Disciplined!Cancelled, Disciplined!Schedule,
         Disciplined!Scheduled, Disciplined!settings, Disciplined!client,
         Disciplined!history
<1>5. Csma!Start /\ ~pending => Disciplined!Start
  BY DEF Csma!Start, Csma!Chains, Csma!EventCount, Csma!Schedule,
         Csma!Scheduled, Csma!settings, Disciplined!Start, Disciplined!Chains,
         Disciplined!EventCount, Disciplined!Schedule, Disciplined!Scheduled,
         Disciplined!settings
<1>6. Csma!Cancel /\ ~Live(event["endCca"]) => Disciplined!Cancel
  BY DEF Csma!Cancel, Csma!Kinds, Csma!Cancelled, Csma!settings, Csma!history,
         Live, Disciplined!Cancel, Disciplined!Kinds, Disciplined!Cancelled,
         Disciplined!Live, Disciplined!settings, Disciplined!history
<1>7. QED
  BY <1>1, <1>2, <1>3, <1>4, <1>5, <1>6 DEF Disciplined!Next

LEMMA SameConfirm ==
  ASSUME NEW status \in {"IDLE", "BUSY"}, NEW e \in Csma!Fire("endCca"),
         Csma!PlmeCcaConfirm(status, e, ccaRequestRunning)
  PROVE  Disciplined!Next
<1>1. e \in Disciplined!Fire("endCca")
  BY DEF Csma!Fire, Csma!AfterFiring, Csma!Cancelled, Disciplined!Fire,
         Disciplined!AfterFiring, Disciplined!Cancelled
<1>2. Disciplined!PlmeCcaConfirm(status, e, ccaRequestRunning)
  BY DEF Csma!PlmeCcaConfirm, Csma!ConfirmIdle, Csma!ConfirmNotIdle,
         Csma!Report, Csma!Continue, Csma!Grants, Csma!GivesUp, Csma!Schedule,
         Csma!Scheduled, Csma!Smaller, Csma!client, Csma!settings,
         Disciplined!PlmeCcaConfirm, Disciplined!ConfirmIdle,
         Disciplined!ConfirmNotIdle, Disciplined!Report, Disciplined!Continue,
         Disciplined!Grants, Disciplined!GivesUp, Disciplined!Schedule,
         Disciplined!Scheduled, Disciplined!Smaller, Disciplined!client,
         Disciplined!settings
<1>3. Disciplined!EndCca
  BY <1>1, <1>2 DEF Disciplined!EndCca
<1>4. QED
  BY <1>3 DEF Disciplined!Next

(* The MAC waits for a verdict exactly while it has an access.             *)
Waiting == pending \in BOOLEAN /\ (pending <=> access = 1)

LEMMA DisciplineStep ==
  ASSUME ClientOps = {}, MacP!TypeOK, MacP!MacInv, EventsOK, AccessAgrees,
         Tracked, access = Expected, Waiting, ~revived, [Next]_vars, ~revived'
  PROVE  Waiting' /\ (Disciplined!Next \/ UNCHANGED csma)
<1>0. /\ MacP!WhenIdle /\ MacP!WhenCsma /\ MacP!WhenAckPending
      /\ MacP!WhenSending /\ gtsFrame = NoPacket /\ starts = 0
  BY DEF MacP!MacInv, MacP!QueueOnly
<1>1. /\ macState \in {"IDLE", "CSMA", "ACK_PENDING", "SENDING"}
      /\ access \in {0, 1} /\ AccessCount = Expected
      /\ macState # "CSMA" => access = 0
  BY DEF MacP!TypeOK, MacP!MacStates, Expected, AccessAgrees
<1>2. access' \in {0, 1} /\ access' = Expected'
  BY OneAccessStep DEF Expected
<1>3. ASSUME UNCHANGED csma, access' = access
      PROVE  Waiting' /\ (Disciplined!Next \/ UNCHANGED csma)
  BY <1>3 DEF csma, Waiting
<1>4. ASSUME IF access' > access THEN Csma!Start ELSE UNCHANGED csma,
             access' = access \/ access' = access + 1
      PROVE  Waiting' /\ (Disciplined!Next \/ UNCHANGED csma)
  <2>1. CASE access' = access
    BY <1>1, <1>3, <1>4, <2>1
  <2>2. CASE access' = access + 1
    <3>1. Csma!Start /\ ~pending /\ access' = 1
      BY <1>1, <1>2, <1>4, <2>2 DEF Waiting
    <3>2. QED
      BY <3>1, SameCsmaSteps DEF Csma!Start, Waiting
  <2>3. QED
    BY <1>4, <2>1, <2>2
<1>5. CASE Alone(Mac!SetIdle) \/ Alone(Mac!SetAckPending) \/ EndTx
           \/ Alone(Mac!ReceiveAck) \/ Alone(Mac!ReceiveOtherAck)
  BY <1>3, <1>5
  DEF Alone, EndTx, Mac!SetIdle, Mac!SetAckPending, Mac!EndTx, Mac!ReceiveAck,
      Mac!ReceiveOtherAck, Mac!csmaCa
<1>6. CASE Starting(Mac!SetCsma) \/ TrxConfirm \/ AckWaitTimeout \/ StartFires
  <2>1. access' = access \/ access' = access + 1
    BY <1>6
    DEF Starting, TrxConfirm, AckWaitTimeout, StartFires, Mac!SetCsma,
        Mac!TrxConfirm, Mac!AckWaitTimeout, Mac!StartFires, Mac!GoCsma
  <2>2. IF access' > access THEN Csma!Start ELSE UNCHANGED csma
    BY <1>6 DEF Starting, TrxConfirm, AckWaitTimeout, StartFires
  <2>3. QED
    BY <1>4, <2>1, <2>2
<1>7. CASE TurningAround(Mac!DirectTransmission)
           \/ TurningAround(Mac!TransmitBeacon)
           \/ Interrupting(Mac!OverhearGtsRequest)
           \/ Slotting(Mac!ReceiveBeacon) \/ Slotting(Mac!SendOneBeacon)
  BY <1>0, <1>1, <1>7
  DEF TurningAround, Interrupting, Slotting, Mac!DirectTransmission,
      Mac!TransmitBeacon, Mac!OverhearGtsRequest, Mac!ReceiveBeacon,
      Mac!SendOneBeacon, MacP!WhenIdle, MacP!WhenCsma, MacP!WhenAckPending,
      MacP!WhenSending
<1>8. CASE TurningAround(Mac!SendAck)
  <2>1. Mac!SendAck /\ access = 0
    BY <1>1, <1>8 DEF TurningAround, Mac!SendAck
  <2>2. ~IsRunning(event["endCca"])
    BY <1>1, <2>1, OneScheduled DEF IsRunning, Csma!Kinds
  <2>3. UNCHANGED csma /\ access' = 0
    BY <1>8, <2>1, <2>2 DEF TurningAround, Mac!SendAck, Mac!CcaAborted
  <2>4. QED
    BY <1>3, <2>1, <2>3
<1>9. CASE Interrupting(Mac!ReceiveAckReqFrame)
  <2>1. access' = 0
    BY <1>2, <1>9 DEF Interrupting, Mac!ReceiveAckReqFrame, Expected
  <2>2. CASE macState = "CSMA"
    <3>1. Csma!Cancel /\ ~Live(event["endCca"])
      BY <1>9, <2>2 DEF Interrupting
    <3>2. pending' = FALSE /\ access' # 1
      BY <2>1, <3>1 DEF Csma!Cancel
    <3>3. Waiting'
      BY <3>2 DEF Waiting
    <3>4. QED
      BY <3>1, <3>3, SameCsmaSteps
  <2>3. CASE macState # "CSMA"
    BY <1>1, <1>3, <1>9, <2>1, <2>3 DEF Interrupting
  <2>4. QED
    BY <2>2, <2>3
<1>10. ASSUME NEW f \in Frames,
              Alone(\/ Mac!MlmeAssociate(f) \/ Mac!McpsDataRequestQueued(f)
                    \/ Mac!McpsDataRequest(f) \/ Mac!MlmeGtsRequest(f))
       PROVE  Waiting' /\ (Disciplined!Next \/ UNCHANGED csma)
  BY <1>3, <1>10
  DEF Alone, Mac!MlmeAssociate, Mac!McpsDataRequestQueued, Mac!Enqueue,
      Mac!McpsDataRequest, Mac!MlmeGtsRequest, Mac!csmaCa
<1>11. ASSUME NEW v \in BOOLEAN, Alone(Mac!SetRxOnWhenIdle(v))
       PROVE  Waiting' /\ (Disciplined!Next \/ UNCHANGED csma)
  BY <1>3, <1>11 DEF Alone, Mac!SetRxOnWhenIdle, Mac!csmaCa
<1>12. CASE Backoff \/ CanProceed
  <2>1. UNCHANGED <<pending, access>>
    BY <1>12
    DEF Backoff, CanProceed, Silent, Csma!RandomBackoffDelay, Csma!CanProceed,
        Csma!client, mac
  <2>2. QED
    BY <1>12, <2>1, SameCsmaSteps DEF Backoff, CanProceed, Silent, Waiting
<1>13. CASE RequestCCA
  <2>1. Csma!RequestCCA
    BY <1>13 DEF RequestCCA
  <2>2. UNCHANGED <<pending, access>>
    <3>1. PICK e \in Csma!Fire("requestCca") : TRUE
      BY <2>1 DEF Csma!RequestCCA
    <3>2. event["requestCca"].held
      BY <1>1, NothingAfterFiring DEF Csma!Kinds
    <3>3. ~event["endCca"].held
      BY <1>1, <3>2, OneScheduled DEF Csma!Kinds
    <3>4. ~CcaRuns
      BY <3>3 DEF CcaRuns, Live, Tracked, NoOrphans, Csma!Kinds
    <3>5. QED
      BY <1>13, <3>4 DEF RequestCCA, Csma!RequestCCA, Csma!client, mac
  <2>3. QED
    BY <2>1, <2>2, SameCsmaSteps DEF Waiting
<1>14. CASE RequestCCARefused
  <2>1. PICK e \in Csma!Fire("requestCca") : TRUE
    BY <1>14 DEF RequestCCARefused
  <2>2. event["requestCca"].held
    BY <1>1, NothingAfterFiring DEF Csma!Kinds
  <2>3. macState = "CSMA" /\ trxRequest # "RX_ON"
    BY <1>1, <2>2, OneScheduled DEF Csma!Kinds, Expected
  <2>4. QED
    BY <1>0, <1>14, <2>3 DEF RequestCCARefused, MacP!WhenCsma
<1>15. CASE EndCca
  <2>1. PICK e \in Csma!Fire("endCca"), status \in {"IDLE", "BUSY"} :
          Reports(status, e, ccaRequestRunning, FALSE)
    BY <1>15 DEF EndCca
  <2>2. e \in EventsType /\ NothingScheduled(e) /\ event["endCca"].held
    BY <1>1, NothingAfterFiring DEF Csma!Kinds
  <2>3. ccaRequestRunning = TRUE /\ access = 1 /\ macState = "CSMA"
    BY <1>1, <2>2, OneScheduled DEF Tracked, EventsOK, Csma!Kinds, Expected
  <2>4. Csma!CancelEvent(e, "endCca") = e
    <3>1. e["endCca"] \in EventIdType /\ ~e["endCca"].held
      BY <2>2 DEF EventsType, NothingScheduled, Csma!Kinds
    <3>2. Csma!Cancelled(e["endCca"]) = e["endCca"]
      BY <3>1 DEF Csma!Cancelled, EventIdType
    <3>3. QED
      BY <2>2, <3>2 DEF Csma!CancelEvent, EventsType
  <2>5. Csma!PlmeCcaConfirm(status, e, ccaRequestRunning)
    BY <2>1, <2>4 DEF Reports
  <2>6. Disciplined!Next
    BY <2>5, SameConfirm
  <2>7. CASE Answer(status, ccaRequestRunning) = "none"
    <3>1. UNCHANGED mac
      BY <2>1, <2>7 DEF Reports
    <3>2. UNCHANGED pending
      BY <2>3, <2>5, <2>7
      DEF Answer, Csma!PlmeCcaConfirm, Csma!ConfirmIdle, Csma!ConfirmNotIdle,
          Csma!Grants, Csma!GivesUp, Csma!Continue, Csma!client
    <3>3. QED
      BY <2>6, <3>1, <3>2 DEF mac, Waiting
  <2>8. CASE Answer(status, ccaRequestRunning) # "none"
    <3>1. macState' # "CSMA"
      BY <2>1, <2>3, <2>8
      DEF Reports, Answer, Mac!ChannelIdle, Mac!ChannelAccessFailure,
          Mac!GoSending
    <3>2. pending' = FALSE
      BY <2>3, <2>5, <2>8
      DEF Answer, Csma!PlmeCcaConfirm, Csma!ConfirmIdle, Csma!ConfirmNotIdle,
          Csma!Grants, Csma!GivesUp, Csma!Report
    <3>3. access' # 1
      BY <1>2, <3>1 DEF Expected
    <3>4. Waiting'
      BY <3>2, <3>3 DEF Waiting
    <3>5. QED
      BY <2>6, <3>4
  <2>9. QED
    BY <2>7, <2>8
<1>16. CASE UNCHANGED vars
  BY <1>3, <1>16 DEF vars, mac
<1>17. QED
  BY <1>5, <1>6, <1>7, <1>8, <1>9, <1>10, <1>11, <1>12, <1>13, <1>14, <1>15,
     <1>16
  DEF Next, SetMacStateEvent, ClearChannelAssessment, Reception, Request

(* The MAC keeps to the discipline that LrWpanCsmaCa_proofs assumes of a   *)
(* client: until it cancels an access whose CCA is running, every step it  *)
(* takes with the CSMA/CA is one of LrWpanCsmaCa without its optional      *)
(* operations.  In particular it starts no access while another waits for  *)
(* a verdict.                                                              *)
THEOREM DisciplineKept ==
  ASSUME ClientOps = {}
  PROVE  Spec => [][ ~revived' => Disciplined!Next \/ UNCHANGED csma ]_vars
<1> DEFINE Inv ==
      /\ MacP!TypeOK /\ MacP!MacInv /\ EventsOK /\ AccessAgrees /\ ChainInv
      /\ ~revived => Waiting
<1>1. Init => Inv
  <2> SUFFICES ASSUME Init PROVE Inv
    OBVIOUS
  <2>1. MacP!TypeOK /\ EventsOK /\ AccessAgrees /\ ChainInv
    BY MacTypeInit, AccessInit, ChainInit
  <2>2. MacP!MacInv
    BY MacInvInit
  <2>3. pending = FALSE /\ access # 1
    BY DEF Init, Mac!Init, Csma!InitWith
  <2>4. Waiting
    BY <2>3 DEF Waiting
  <2>5. QED
    BY <2>1, <2>2, <2>4
<1>2. ASSUME Inv, [Next]_vars
      PROVE  Inv' /\ (~revived' => Disciplined!Next \/ UNCHANGED csma)
  <2>1. /\ MacP!TypeOK' /\ MacP!MacInv' /\ EventsOK' /\ AccessAgrees'
        /\ ChainInv'
    BY <1>2, MacTypeStep, MacInvStep, AccessStep, ChainStep DEF MacP!TypeOK
  <2>2. ASSUME ~revived'
        PROVE  Waiting' /\ (Disciplined!Next \/ UNCHANGED csma)
    BY <1>2, <2>2, RevivedForEver, DisciplineStep DEF ChainInv
  <2>3. QED
    BY <2>1, <2>2
<1>3. Inv /\ [Next]_vars
        => Inv' /\ [~revived' => Disciplined!Next \/ UNCHANGED csma]_vars
  BY <1>2
<1> HIDE DEF Inv
<1>4. QED
  BY <1>1, <1>3, PTL DEF Spec
=============================================================================
