-------------------------- MODULE LrWpanPhy_proofs --------------------------
(***************************************************************************)
(* Proofs about LrWpanPhy for every set of signals and every bound.        *)
(***************************************************************************)
EXTENDS LrWpanPhy, TLAPS

LEMMA EventIdTypes ==
  ASSUME NEW id \in EventIdType
  PROVE  /\ Scheduled(id) \in EventIdType
         /\ Cancelled(id) \in EventIdType
         /\ \A left \in AfterFiring(id) : left \in EventIdType
<1>1. Scheduled(id) \in EventIdType
  BY DEF EventIdType, Scheduled
<1>2. Cancelled(id) \in EventIdType
  BY DEF EventIdType, Cancelled
<1>3. ASSUME id.orphans > 0
      PROVE  [id EXCEPT !.orphans = id.orphans - 1] \in EventIdType
  BY <1>3 DEF EventIdType
<1>4. QED
  BY <1>1, <1>2, <1>3 DEF AfterFiring

(* The switch of the transceiver keeps its type, whatever is requested.    *)
LEMMA SwitchType ==
  ASSUME TypeOK, NEW state \in States,
         \/ SwitchNow(state)
         \/ state \in Pending /\ SwitchLater(state)
         \/ state \in Pending /\ SwitchAfterTurnaround(state)
  PROVE  /\ trxState' \in States /\ trxStatePending' \in Pending
         /\ setTRXState' \in BOOLEAN
         /\ requested' \in {"none", "RX_ON", "TX_ON", "TRX_OFF"}
  BY DEF TypeOK, SwitchNow, SwitchLater, SwitchAfterTurnaround, States, Pending

(* The module is type correct, whatever the client requests.               *)
THEOREM TypeCorrect == Spec => []TypeOK
<1> USE PhyAssumption
<1>1. Init => TypeOK
  <2>1. NoEvent \in EventIdType
    BY DEF NoEvent, EventIdType
  <2> SUFFICES ASSUME Init PROVE TypeOK
    OBVIOUS
  <2>2. /\ pdDataRequest \in EventIdType /\ ccaRequest \in EventIdType
        /\ edRequest \in EventIdType
    BY <2>1 DEF Init
  <2>3. /\ setTRXState \in BOOLEAN /\ rxCorrupt \in BOOLEAN
        /\ txAborted \in BOOLEAN /\ ccaPeak \in BOOLEAN /\ txDoomed \in BOOLEAN
    BY DEF Init
  <2>4. /\ trxState \in States /\ trxStatePending \in Pending
        /\ requested \in {"none", "RX_ON", "TX_ON", "TRX_OFF"}
        /\ dataConfirm \in States \union {"none", "SUCCESS", "UNSPECIFIED"}
        /\ ccaConfirm \in {"none", "IDLE", "BUSY", "TRX_OFF"}
    BY DEF Init, States, Pending
  <2>5. /\ onAir \subseteq Signals /\ ccaMode \in 1 .. 3
        /\ currentRx \in Signals \union {NoSignal}
        /\ indicated \in Signals \union {NoSignal}
    BY DEF Init
  <2>6. QED
    BY <2>2, <2>3, <2>4, <2>5 DEF TypeOK
<1>2. TypeOK /\ [Next]_vars => TypeOK'
  <2> SUFFICES ASSUME TypeOK, [Next]_vars PROVE TypeOK'
    OBVIOUS
  <2> USE DEF switch, rx, tx, cca, txHist
  <2>1. CASE PdDataRequest
    <3>1. pdDataRequest' \in EventIdType
      BY <2>1, EventIdTypes DEF PdDataRequest, TypeOK
    <3>2. QED
      BY <2>1, <3>1 DEF PdDataRequest, TypeOK, States
  <2>2. CASE PdDataRequestRefused
    BY <2>2 DEF PdDataRequestRefused, TypeOK, States
  <2>3. CASE PlmeCcaRequest
    <3>1. ccaRequest' \in EventIdType
      BY <2>3, EventIdTypes DEF PlmeCcaRequest, TypeOK
    <3>2. QED
      BY <2>3, <3>1 DEF PlmeCcaRequest, TypeOK
  <2>4. CASE PlmeCcaRequestRefused
    BY <2>4 DEF PlmeCcaRequestRefused, TypeOK
  <2>5. CASE PlmeEdRequest
    <3>1. edRequest' \in EventIdType
      BY <2>5, EventIdTypes DEF PlmeEdRequest, TypeOK
    <3>2. QED
      BY <2>5, <3>1 DEF PlmeEdRequest, TypeOK
  <2>6. CASE RequestRxOn
    <3>1. /\ trxState' \in States /\ trxStatePending' \in Pending
          /\ setTRXState' \in BOOLEAN
          /\ requested' \in {"none", "RX_ON", "TX_ON", "TRX_OFF"}
      BY <2>6, SwitchType DEF RequestRxOn, States, Pending
    <3>2. QED
      BY <2>6, <3>1 DEF RequestRxOn, TypeOK
  <2>7. CASE RequestTrxOff
    <3>1. /\ trxState' \in States /\ trxStatePending' \in Pending
          /\ setTRXState' \in BOOLEAN
          /\ requested' \in {"none", "RX_ON", "TX_ON", "TRX_OFF"}
      BY <2>7, SwitchType DEF RequestTrxOff, States, Pending
    <3>2. edRequest' \in EventIdType
      BY <2>7, EventIdTypes DEF RequestTrxOff, TypeOK
    <3>3. QED
      BY <2>7, <3>1, <3>2 DEF RequestTrxOff, TypeOK
  <2>8. CASE RequestTxOnFromRx
    <3>1. /\ trxState' \in States /\ trxStatePending' \in Pending
          /\ setTRXState' \in BOOLEAN
          /\ requested' \in {"none", "RX_ON", "TX_ON", "TRX_OFF"}
      BY <2>8, SwitchType DEF RequestTxOnFromRx, States, Pending
    <3>2. edRequest' \in EventIdType /\ ccaRequest' \in EventIdType
      BY <2>8, EventIdTypes DEF RequestTxOnFromRx, TypeOK
    <3>3. ccaConfirm' \in {"none", "IDLE", "BUSY", "TRX_OFF"}
      BY <2>8 DEF RequestTxOnFromRx, TypeOK
    <3>4. rxCorrupt' \in BOOLEAN
      BY <2>8 DEF RequestTxOnFromRx, TypeOK
    <3>5. QED
      BY <2>8, <3>1, <3>2, <3>3, <3>4 DEF RequestTxOnFromRx, TypeOK
  <2>9. CASE RequestTxOn
    <3>1. /\ trxState' \in States /\ trxStatePending' \in Pending
          /\ setTRXState' \in BOOLEAN
          /\ requested' \in {"none", "RX_ON", "TX_ON", "TRX_OFF"}
      BY <2>9, SwitchType DEF RequestTxOn, States, Pending
    <3>2. edRequest' \in EventIdType
      BY <2>9, EventIdTypes DEF RequestTxOn, TypeOK
    <3>3. QED
      BY <2>9, <3>1, <3>2 DEF RequestTxOn, TypeOK
  <2>10. CASE RequestForceTrxOff
    <3>1. rxCorrupt' \in BOOLEAN /\ txAborted' \in BOOLEAN
      BY <2>10 DEF RequestForceTrxOff, TypeOK
    <3>2. /\ trxState' \in States /\ trxStatePending' \in Pending
          /\ setTRXState' \in BOOLEAN
          /\ requested' \in {"none", "RX_ON", "TX_ON", "TRX_OFF"}
      BY <2>10, SwitchType DEF RequestForceTrxOff, States, Pending
    <3>3. QED
      BY <2>10, <3>1, <3>2 DEF RequestForceTrxOff, TypeOK
  <2>11. CASE SetCurrentChannel
    <3>1. rxCorrupt' \in BOOLEAN /\ txDoomed' \in BOOLEAN
      BY <2>11 DEF SetCurrentChannel, TypeOK
    <3>2. /\ trxState' \in States /\ trxStatePending' \in Pending
          /\ setTRXState' \in BOOLEAN
          /\ requested' \in {"none", "RX_ON", "TX_ON", "TRX_OFF"}
      BY <2>11, SwitchType DEF SetCurrentChannel, States, Pending
    <3>3. QED
      BY <2>11, <3>1, <3>2 DEF SetCurrentChannel, TypeOK
  <2>12. ASSUME NEW mode \in 1 .. 3, SetCCAMode(mode)
         PROVE  TypeOK'
    BY <2>12 DEF SetCCAMode, TypeOK
  <2>13. ASSUME NEW s \in Signals, StartRx(s) \/ StartRxForeign(s)
         PROVE  TypeOK'
    <3>1. trxState' \in States /\ currentRx' \in Signals \union {NoSignal}
      BY <2>13 DEF StartRx, StartRxForeign, TypeOK, States
    <3>2. rxCorrupt' \in BOOLEAN
      BY <2>13 DEF StartRx, StartRxForeign, CheckInterference, TypeOK
    <3>3. ccaPeak' \in BOOLEAN /\ onAir' \subseteq Signals
      BY <2>13 DEF StartRx, StartRxForeign, HearSignal, StrongOnAir, TypeOK
    <3>4. QED
      BY <2>13, <3>1, <3>2, <3>3
      DEF StartRx, StartRxForeign, HearSignal, TypeOK
  <2>14. ASSUME NEW s \in Signals, EndRxOther(s)
         PROVE  TypeOK'
    BY <2>14 DEF EndRxOther, TypeOK
  <2>15. ASSUME NEW s \in Signals, EndRxCurrent(s)
         PROVE  TypeOK'
    <3>1. trxState' \in States /\ trxStatePending' \in Pending
          /\ requested' \in {"none", "RX_ON", "TX_ON", "TRX_OFF"}
      BY <2>15 DEF EndRxCurrent, TypeOK, States, Pending
    <3>2. indicated' \in Signals \union {NoSignal} /\ onAir' \subseteq Signals
      BY <2>15 DEF EndRxCurrent, TypeOK
    <3>3. QED
      BY <2>15, <3>1, <3>2 DEF EndRxCurrent, TypeOK
  <2>16. CASE EndTx
    <3>1. trxState' \in States /\ trxStatePending' \in Pending
          /\ requested' \in {"none", "RX_ON", "TX_ON", "TRX_OFF"}
      BY <2>16 DEF EndTx, TypeOK, States, Pending
    <3>2. pdDataRequest' \in EventIdType
      BY <2>16, EventIdTypes DEF EndTx, TypeOK
    <3>3. dataConfirm' \in States \union {"none", "SUCCESS", "UNSPECIFIED"}
      BY <2>16 DEF EndTx, States
    <3>4. QED
      BY <2>16, <3>1, <3>2, <3>3 DEF EndTx, TypeOK
  <2>17. CASE EndCca
    <3>1. ccaRequest' \in EventIdType
      BY <2>17, EventIdTypes DEF EndCca, TypeOK
    <3>2. ccaPeak' \in BOOLEAN
      BY <2>17 DEF EndCca, StrongOnAir, TypeOK
    <3>3. ccaConfirm' \in {"none", "IDLE", "BUSY", "TRX_OFF"}
      BY <2>17 DEF EndCca, SensedChannelState
    <3>4. QED
      BY <2>17, <3>1, <3>2, <3>3 DEF EndCca, TypeOK
  <2>18. CASE EndEd
    <3>1. edRequest' \in EventIdType
      BY <2>18, EventIdTypes DEF EndEd, TypeOK
    <3>2. QED
      BY <2>18, <3>1 DEF EndEd, TypeOK
  <2>19. CASE EndSetTRXState
    <3>1. /\ trxState' \in States /\ trxStatePending' \in Pending
          /\ setTRXState' \in BOOLEAN
          /\ requested' \in {"none", "RX_ON", "TX_ON", "TRX_OFF"}
      BY <2>19, SwitchType DEF EndSetTRXState, States, Pending
    <3>2. QED
      BY <2>19, <3>1 DEF EndSetTRXState, TypeOK
  <2>20. CASE UNCHANGED vars
    BY <2>20 DEF vars, TypeOK
  <2>21. QED
    BY <2>1, <2>2, <2>3, <2>4, <2>5, <2>6, <2>7, <2>8, <2>9, <2>10, <2>11,
       <2>12, <2>13, <2>14, <2>15, <2>16, <2>17, <2>18, <2>19, <2>20
    DEF Next, ClientRequest, SimulatorEvent
<1>3. QED
  BY <1>1, <1>2, PTL DEF Spec
-----------------------------------------------------------------------------
(* A frame that is not yet destroyed has the receiver, and no turnaround   *)
(* that could take it away is running.                                     *)
FrameInv ==
  currentRx # NoSignal /\ ~rxCorrupt => trxState = "BUSY_RX" /\ ~setTRXState

(* No frame is passed up that the receiver did not hear to its end,        *)
(* whatever the client requests meanwhile, forced or out of turn.          *)
THEOREM IndicatedOnlyIfReceivedAlways == Spec => IndicatedOnlyIfReceived
<1> USE PhyAssumption
<1>1. Init => FrameInv
  BY DEF Init, FrameInv
<1>2. TypeOK /\ FrameInv /\ [Next]_vars => FrameInv'
  <2> SUFFICES ASSUME TypeOK, FrameInv, [Next]_vars,
                      currentRx' # NoSignal, ~rxCorrupt'
               PROVE  trxState' = "BUSY_RX" /\ ~setTRXState'
    BY DEF FrameInv
  <2> USE DEF switch, rx, tx, cca, txHist, FrameInv
  <2>1. CASE \/ PdDataRequestRefused \/ PlmeCcaRequest \/ PlmeCcaRequestRefused
             \/ PlmeEdRequest \/ EndCca \/ EndEd
             \/ \E mode \in 1 .. 3 : SetCCAMode(mode)
             \/ \E s \in Signals : EndRxOther(s)
    BY <2>1 DEF PdDataRequestRefused, PlmeCcaRequest, PlmeCcaRequestRefused,
                PlmeEdRequest, EndCca, EndEd, SetCCAMode, EndRxOther
  <2>2. CASE PdDataRequest
    BY <2>2 DEF PdDataRequest
  <2>3. CASE RequestRxOn
    BY <2>3 DEF RequestRxOn, SwitchNow, SwitchLater, SwitchAfterTurnaround
  <2>4. CASE RequestTrxOff
    BY <2>4 DEF RequestTrxOff, SwitchNow, SwitchLater
  <2>5. CASE RequestTxOnFromRx
    BY <2>5 DEF RequestTxOnFromRx
  <2>6. CASE RequestTxOn
    BY <2>6 DEF RequestTxOn, SwitchNow
  <2>7. CASE RequestForceTrxOff \/ SetCurrentChannel
    BY <2>7 DEF RequestForceTrxOff, SetCurrentChannel
  <2>8. ASSUME NEW s \in Signals, StartRx(s) \/ StartRxForeign(s)
        PROVE  trxState' = "BUSY_RX" /\ ~setTRXState'
    <3>1. setTRXState' = setTRXState
      BY <2>8 DEF StartRx, StartRxForeign, HearSignal
    <3>2. CASE currentRx' = currentRx /\ trxState' = trxState
      <4>1. CheckInterference \/ UNCHANGED rxCorrupt
        BY <2>8, <3>2 DEF StartRx, StartRxForeign
      <4>2. rxCorrupt' = rxCorrupt \/ rxCorrupt' = TRUE
        BY <4>1 DEF CheckInterference
      <4>3. ~rxCorrupt
        BY <4>2
      <4>4. QED
        BY <3>1, <3>2, <4>3
    <3>3. CASE ~setTRXState /\ trxState' = "BUSY_RX"
      BY <3>1, <3>3
    <3>4. QED
      BY <2>8, <3>2, <3>3 DEF StartRx, StartRxForeign
  <2>9. ASSUME NEW s \in Signals, EndRxCurrent(s)
        PROVE  FALSE
    BY <2>9 DEF EndRxCurrent
  <2>10. CASE EndTx
    BY <2>10 DEF EndTx
  <2>11. CASE EndSetTRXState
    BY <2>11 DEF EndSetTRXState
  <2>12. CASE UNCHANGED vars
    BY <2>12 DEF vars
  <2>13. QED
    BY <2>1, <2>2, <2>3, <2>4, <2>5, <2>6, <2>7, <2>8, <2>9, <2>10, <2>11,
       <2>12
    DEF Next, ClientRequest, SimulatorEvent
<1>3. TypeOK /\ FrameInv /\ [Next]_vars =>
        [indicated' # NoSignal /\ indicated' # indicated
           => trxState = "BUSY_RX" /\ currentRx = indicated' /\ ~rxCorrupt]_vars
  <2> SUFFICES ASSUME TypeOK, FrameInv, Next,
                      indicated' # NoSignal, indicated' # indicated
               PROVE  trxState = "BUSY_RX" /\ currentRx = indicated' /\ ~rxCorrupt
    OBVIOUS
  <2>1. PICK s \in Signals : EndRxCurrent(s)
    BY DEF Next, ClientRequest, SimulatorEvent, PdDataRequest,
           PdDataRequestRefused, PlmeCcaRequest, PlmeCcaRequestRefused,
           PlmeEdRequest, RequestRxOn, RequestTrxOff, RequestTxOnFromRx,
           RequestTxOn, RequestForceTrxOff, SetCurrentChannel, SetCCAMode,
           StartRx, StartRxForeign, HearSignal, EndRxOther, EndTx, EndCca,
           EndEd, EndSetTRXState
  <2>2. currentRx = s /\ s # NoSignal /\ indicated' = s /\ ~rxCorrupt
    BY <2>1 DEF EndRxCurrent
  <2>3. QED
    BY <2>2 DEF FrameInv
<1>4. QED
  BY <1>1, <1>2, <1>3, TypeCorrect, PTL DEF Spec, IndicatedOnlyIfReceived
-----------------------------------------------------------------------------
(* A client that neither overrides the transceiver nor requests TX_ON      *)
(* while a frame is received; it may overlap requests and switch off       *)
(* under a CCA.                                                            *)
Respectful ==
  ClientOps \intersect {"txOnInRx", "forceOff", "setChannel"} = {}

(* Every busy state has one cause, and every pending state, too.           *)
OneEndTx == pdDataRequest = [held |-> trxState = "BUSY_TX", orphans |-> 0]

NotAborted == trxState = "BUSY_TX" => ~txAborted

BusyRx ==
  /\ trxState = "BUSY_RX" <=> currentRx # NoSignal
  /\ currentRx # NoSignal => currentRx \in onAir

Turnaround ==
  setTRXState => /\ trxState \in {"RX_ON", "TX_ON", "TRX_OFF"}
                 /\ trxStatePending \in {"RX_ON", "TX_ON"}

PendingCaused ==
  /\ trxStatePending # "IDLE" => setTRXState \/ PhyIsBusy
  /\ requested = IF trxStatePending = "IDLE" THEN "none" ELSE trxStatePending

SwitchInv ==
  OneEndTx /\ NotAborted /\ BusyRx /\ Turnaround /\ PendingCaused

(* The steps of a respectful client, and of the simulator, that do not     *)
(* concern the switch of the transceiver.                                  *)
Aside ==
  \/ PdDataRequestRefused \/ PlmeCcaRequest \/ PlmeCcaRequestRefused
  \/ PlmeEdRequest \/ EndCca \/ EndEd
  \/ \E mode \in 1 .. 3 : SetCCAMode(mode)
  \/ UNCHANGED vars

LEMMA AsideStep ==
  ASSUME Aside
  PROVE  UNCHANGED <<switch, rx, tx, requested>>
  BY DEF Aside, PdDataRequestRefused, PlmeCcaRequest, PlmeCcaRequestRefused,
         PlmeEdRequest, EndCca, EndEd, SetCCAMode, switch, rx, tx, cca, txHist,
         vars

LEMMA RespectfulSteps ==
  ASSUME Respectful, [Next]_vars
  PROVE  \/ Aside
         \/ PdDataRequest \/ EndTx
         \/ RequestRxOn \/ RequestTrxOff \/ RequestTxOnFromRx \/ RequestTxOn
         \/ EndSetTRXState
         \/ \E s \in Signals :
              StartRx(s) \/ StartRxForeign(s) \/ EndRxOther(s) \/ EndRxCurrent(s)
<1>1. ~RequestForceTrxOff /\ ~SetCurrentChannel
  BY DEF Respectful, RequestForceTrxOff, SetCurrentChannel
<1>2. QED
  BY <1>1 DEF Next, ClientRequest, SimulatorEvent, Aside

(* While a frame is sent there is one EndTx, and its firing leaves none.   *)
LEMMA EndTxFires ==
  ASSUME OneEndTx, NEW left \in AfterFiring(pdDataRequest)
  PROVE  trxState = "BUSY_TX" /\ left = [held |-> FALSE, orphans |-> 0]
<1>1. pdDataRequest.held = (trxState = "BUSY_TX") /\ pdDataRequest.orphans = 0
  BY DEF OneEndTx
<1>2. pdDataRequest.held /\ left = [pdDataRequest EXCEPT !.held = FALSE]
  BY <1>1 DEF AfterFiring, Cancelled
<1>3. left = [held |-> FALSE, orphans |-> 0]
  BY <1>2 DEF OneEndTx
<1>4. QED
  BY <1>1, <1>2, <1>3

LEMMA OneEndTxIsHeld ==
  ASSUME OneEndTx, Live(pdDataRequest) PROVE trxState = "BUSY_TX"
<1>1. pdDataRequest.held = (trxState = "BUSY_TX") /\ pdDataRequest.orphans = 0
  BY DEF OneEndTx
<1>2. pdDataRequest.held
  BY <1>1 DEF Live
<1>3. QED
  BY <1>1, <1>2

LEMMA SwitchInvStep ==
  ASSUME Respectful, TypeOK, SwitchInv, [Next]_vars
  PROVE  SwitchInv'
<1> USE PhyAssumption
<1> USE DEF switch, rx, tx
<1>1. CASE Aside
  <2>1. UNCHANGED <<switch, rx, tx, requested>>
    BY <1>1, AsideStep
  <2>2. QED
    BY <2>1 DEF SwitchInv, OneEndTx, NotAborted, BusyRx, Turnaround,
                PendingCaused, PhyIsBusy
<1>2. CASE PdDataRequest
  <2>1. /\ trxState = "TX_ON" /\ ~setTRXState /\ trxState' = "BUSY_TX"
        /\ pdDataRequest' = Scheduled(pdDataRequest) /\ ~txAborted'
        /\ UNCHANGED <<trxStatePending, setTRXState, rx, requested>>
    BY <1>2 DEF PdDataRequest
  <2>2. OneEndTx'
    BY <2>1 DEF SwitchInv, OneEndTx, Scheduled
  <2>3. NotAborted' /\ BusyRx' /\ Turnaround' /\ PendingCaused'
    BY <2>1 DEF SwitchInv, NotAborted, BusyRx, Turnaround, PendingCaused,
                PhyIsBusy
  <2>4. QED
    BY <2>2, <2>3 DEF SwitchInv
<1>3. CASE EndTx
  <2>1. /\ trxState = "BUSY_TX"
        /\ pdDataRequest' = [held |-> FALSE, orphans |-> 0]
    BY <1>3, EndTxFires DEF EndTx, SwitchInv
  <2>2. ~setTRXState
    BY <2>1 DEF SwitchInv, Turnaround
  <2>3. trxState' \in {"RX_ON", "TX_ON", "TRX_OFF"} /\ ~setTRXState'
        /\ trxStatePending' = "IDLE" /\ requested' = "none"
    BY <1>3, <2>1, <2>2 DEF EndTx, TypeOK, Pending, SwitchInv, PendingCaused
  <2>4. UNCHANGED rx /\ currentRx = NoSignal
    BY <1>3, <2>1 DEF EndTx, SwitchInv, BusyRx
  <2>5. OneEndTx'
    BY <2>1, <2>3 DEF OneEndTx
  <2>6. NotAborted' /\ BusyRx' /\ Turnaround' /\ PendingCaused'
    BY <2>3, <2>4 DEF NotAborted, BusyRx, Turnaround, PendingCaused
  <2>7. QED
    BY <2>5, <2>6 DEF SwitchInv
<1>4. CASE RequestRxOn
  <2>1. UNCHANGED <<rx, tx>>
    BY <1>4 DEF RequestRxOn
  <2>2. trxState' = trxState
    BY <1>4 DEF RequestRxOn, SwitchNow, SwitchLater, SwitchAfterTurnaround
  <2>3. OneEndTx' /\ NotAborted' /\ BusyRx'
    BY <2>1, <2>2 DEF SwitchInv, OneEndTx, NotAborted, BusyRx
  <2>4. Turnaround' /\ PendingCaused'
    BY <1>4 DEF RequestRxOn, SwitchNow, SwitchLater, SwitchAfterTurnaround,
                Turnaround, PendingCaused, PhyIsBusy
  <2>5. QED
    BY <2>3, <2>4 DEF SwitchInv
<1>5. CASE RequestTrxOff
  <2>1. UNCHANGED <<rx, tx>>
    BY <1>5 DEF RequestTrxOff
  <2>2. \/ trxState' = trxState
        \/ trxState \in {"RX_ON", "TX_ON"} /\ trxState' = "TRX_OFF"
    BY <1>5 DEF RequestTrxOff, SwitchNow, SwitchLater
  <2>3. OneEndTx' /\ NotAborted' /\ BusyRx'
    BY <2>1, <2>2 DEF SwitchInv, OneEndTx, NotAborted, BusyRx
  <2>4. Turnaround' /\ PendingCaused'
    BY <1>5 DEF RequestTrxOff, SwitchNow, SwitchLater, Turnaround,
                PendingCaused, PhyIsBusy
  <2>5. QED
    BY <2>3, <2>4 DEF SwitchInv
<1>6. CASE RequestTxOnFromRx
  <2>1. trxState = "RX_ON"
    BY <1>6 DEF RequestTxOnFromRx, Respectful
  <2>2. /\ trxState' = trxState /\ UNCHANGED <<onAir, currentRx, tx>>
        /\ setTRXState' = TRUE /\ trxStatePending' = "TX_ON"
        /\ requested' = "TX_ON"
    BY <1>6 DEF RequestTxOnFromRx, SwitchAfterTurnaround
  <2>3. OneEndTx' /\ NotAborted' /\ BusyRx'
    BY <2>2 DEF SwitchInv, OneEndTx, NotAborted, BusyRx
  <2>4. Turnaround' /\ PendingCaused'
    BY <2>1, <2>2 DEF Turnaround, PendingCaused
  <2>5. QED
    BY <2>3, <2>4 DEF SwitchInv
<1>7. CASE RequestTxOn
  <2>1. UNCHANGED <<rx, tx>>
    BY <1>7 DEF RequestTxOn
  <2>2. \/ trxState' = trxState
        \/ trxState = "TRX_OFF" /\ trxState' = "TX_ON"
    BY <1>7 DEF RequestTxOn, SwitchNow
  <2>3. OneEndTx' /\ NotAborted' /\ BusyRx'
    BY <2>1, <2>2 DEF SwitchInv, OneEndTx, NotAborted, BusyRx
  <2>4. Turnaround' /\ PendingCaused'
    BY <1>7 DEF RequestTxOn, SwitchNow, Turnaround, PendingCaused
  <2>5. QED
    BY <2>3, <2>4 DEF SwitchInv
<1>8. CASE EndSetTRXState
  <2>1. /\ setTRXState /\ trxState' = trxStatePending
        /\ trxStatePending \in {"RX_ON", "TX_ON"}
        /\ ~setTRXState' /\ trxStatePending' = "IDLE" /\ requested' = "none"
        /\ UNCHANGED <<rx, tx>>
    BY <1>8 DEF EndSetTRXState, SwitchNow
  <2>2. trxState \in {"RX_ON", "TX_ON", "TRX_OFF"}
    BY <2>1 DEF SwitchInv, Turnaround
  <2>3. OneEndTx' /\ NotAborted' /\ BusyRx'
    BY <2>1, <2>2 DEF SwitchInv, OneEndTx, NotAborted, BusyRx
  <2>4. Turnaround' /\ PendingCaused'
    BY <2>1 DEF Turnaround, PendingCaused
  <2>5. QED
    BY <2>3, <2>4 DEF SwitchInv
<1>9. ASSUME NEW s \in Signals, StartRx(s) \/ StartRxForeign(s)
      PROVE  SwitchInv'
  <2>1. /\ onAir' = onAir \union {s}
        /\ UNCHANGED <<trxStatePending, setTRXState, tx, requested>>
    BY <1>9 DEF StartRx, StartRxForeign, HearSignal
  <2>2. \/ UNCHANGED <<trxState, currentRx>>
        \/ /\ trxState = "RX_ON" /\ ~setTRXState
           /\ trxState' = "BUSY_RX" /\ currentRx' = s
    BY <1>9 DEF StartRx, StartRxForeign
  <2>3. s # NoSignal
    OBVIOUS
  <2>4. OneEndTx' /\ NotAborted'
    BY <2>1, <2>2 DEF SwitchInv, OneEndTx, NotAborted
  <2>5. BusyRx'
    BY <2>1, <2>2, <2>3 DEF SwitchInv, BusyRx
  <2>6. Turnaround' /\ PendingCaused'
    BY <2>1, <2>2 DEF SwitchInv, Turnaround, PendingCaused, PhyIsBusy
  <2>7. QED
    BY <2>4, <2>5, <2>6 DEF SwitchInv
<1>10. ASSUME NEW s \in Signals, EndRxOther(s)
       PROVE  SwitchInv'
  <2>1. /\ onAir' = onAir \ {s} /\ s # currentRx
        /\ UNCHANGED <<switch, currentRx, tx, requested>>
    BY <1>10 DEF EndRxOther
  <2>2. BusyRx'
    BY <2>1 DEF SwitchInv, BusyRx
  <2>3. OneEndTx' /\ NotAborted' /\ Turnaround' /\ PendingCaused'
    BY <2>1 DEF SwitchInv, OneEndTx, NotAborted, Turnaround, PendingCaused,
                PhyIsBusy
  <2>4. QED
    BY <2>2, <2>3 DEF SwitchInv
<1>11. ASSUME NEW s \in Signals, EndRxCurrent(s)
       PROVE  SwitchInv'
  <2>1. trxState = "BUSY_RX" /\ ~setTRXState
    BY <1>11 DEF EndRxCurrent, SwitchInv, BusyRx, Turnaround
  <2>2. /\ trxState' \in {"RX_ON", "TX_ON", "TRX_OFF"} /\ ~setTRXState'
        /\ trxStatePending' = "IDLE" /\ requested' = "none"
    BY <1>11, <2>1
    DEF EndRxCurrent, TypeOK, Pending, SwitchInv, PendingCaused
  <2>3. currentRx' = NoSignal /\ UNCHANGED tx
    BY <1>11 DEF EndRxCurrent
  <2>4. OneEndTx' /\ NotAborted'
    BY <2>1, <2>2, <2>3 DEF SwitchInv, OneEndTx, NotAborted
  <2>5. BusyRx' /\ Turnaround' /\ PendingCaused'
    BY <2>2, <2>3 DEF BusyRx, Turnaround, PendingCaused
  <2>6. QED
    BY <2>4, <2>5 DEF SwitchInv
<1>12. QED
  BY <1>1, <1>2, <1>3, <1>4, <1>5, <1>6, <1>7, <1>8, <1>9, <1>10, <1>11,
     RespectfulSteps

LEMMA SwitchInvAlways == ASSUME Respectful PROVE Spec => []SwitchInv
<1>1. Init => SwitchInv
  <2> SUFFICES ASSUME Init PROVE SwitchInv
    OBVIOUS
  <2>1. OneEndTx
    BY DEF Init, OneEndTx, NoEvent
  <2>2. NotAborted /\ BusyRx /\ Turnaround /\ PendingCaused
    BY DEF Init, NotAborted, BusyRx, Turnaround, PendingCaused
  <2>3. QED
    BY <2>1, <2>2 DEF SwitchInv
<1>2. TypeOK /\ SwitchInv /\ [Next]_vars => SwitchInv'
  BY SwitchInvStep
<1>3. QED
  BY <1>1, <1>2, TypeCorrect, PTL DEF Spec

(* From PdDataRequest to EndTx nothing a respectful client requests, and   *)
(* no other event, takes the transmitter from a frame.                     *)
THEOREM TransmitterHeldAlways ==
  ASSUME Respectful PROVE Spec => []TransmitterHeld
<1>1. SwitchInv => TransmitterHeld
  BY OneEndTxIsHeld DEF SwitchInv, TransmitterHeld
<1>2. QED
  BY <1>1, SwitchInvAlways, PTL

(* A busy receiver has a frame whose EndRx is scheduled.                   *)
THEOREM BusyRxHasFrameAlways ==
  ASSUME Respectful PROVE Spec => []BusyRxHasFrame
<1>1. SwitchInv => BusyRxHasFrame
  BY DEF SwitchInv, BusyRx, BusyRxHasFrame
<1>2. QED
  BY <1>1, SwitchInvAlways, PTL

(* A state change that was put off waits for an event that is scheduled.   *)
THEOREM PendingHasCauseAlways ==
  ASSUME Respectful PROVE Spec => []PendingHasCause
<1>1. SwitchInv => PendingHasCause
  <2> SUFFICES ASSUME SwitchInv PROVE PendingHasCause
    OBVIOUS
  <2>1. trxState = "BUSY_TX" => Live(pdDataRequest)
    BY DEF SwitchInv, OneEndTx, Live
  <2>2. trxState = "BUSY_RX" => currentRx \in onAir
    BY DEF SwitchInv, BusyRx
  <2>3. QED
    BY <2>1, <2>2
    DEF SwitchInv, Turnaround, PendingCaused, PhyIsBusy, PendingHasCause
<1>2. QED
  BY <1>1, SwitchInvAlways, PTL
-----------------------------------------------------------------------------
(* To a respectful client the transceiver implements the abstract one:     *)
(* LrWpanMac, which is built on that, may rely on it.                      *)
THEOREM TransceiverImplemented ==
  ASSUME Respectful PROVE Spec => TransceiverSpec
<1> USE DEF Transceiver!Granted, Transceiver!PutOff, Transceiver!Confirm,
            Transceiver!Transmit, Transceiver!EndTx, Transceiver!Requests,
            Transceiver!vars
<1> DEFINE state == IF trxState = "BUSY_RX" THEN "RX_ON" ELSE trxState
<1>1. Init => Transceiver!Init
  BY DEF Init, Transceiver!Init
<1>2. TypeOK /\ SwitchInv /\ [Next]_vars
        => [Transceiver!Next]_(Transceiver!vars)
  <2> SUFFICES ASSUME TypeOK, SwitchInv, [Next]_vars
               PROVE  \/ \E r \in Transceiver!Requests :
                           Transceiver!Granted(r) \/ Transceiver!PutOff(r)
                      \/ Transceiver!Confirm \/ Transceiver!Transmit
                      \/ Transceiver!EndTx
                      \/ UNCHANGED <<state, requested>>
    BY DEF Transceiver!Next
  <2> USE DEF switch, rx, tx
  <2>1. CASE Aside
    <3>1. UNCHANGED <<trxState, requested>>
      BY <2>1, AsideStep
    <3>2. QED
      BY <3>1
  <2>2. CASE PdDataRequest
    BY <2>2 DEF PdDataRequest
  <2>3. CASE EndTx
    <3>1. trxState = "BUSY_TX" /\ ~setTRXState
      BY <2>3, EndTxFires DEF EndTx, SwitchInv, Turnaround
    <3>2. Transceiver!EndTx
      BY <2>3, <3>1 DEF EndTx, SwitchInv, PendingCaused, TypeOK, Pending
    <3>3. QED
      BY <3>2
  <2>4. CASE RequestRxOn
    BY <2>4 DEF RequestRxOn, SwitchNow, SwitchLater, SwitchAfterTurnaround
  <2>5. CASE RequestTrxOff
    BY <2>5 DEF RequestTrxOff, SwitchNow, SwitchLater
  <2>6. CASE RequestTxOnFromRx
    BY <2>6 DEF RequestTxOnFromRx, SwitchAfterTurnaround
  <2>7. CASE RequestTxOn
    BY <2>7 DEF RequestTxOn, SwitchNow
  <2>8. CASE EndSetTRXState
    <3>1. /\ setTRXState /\ trxState' = trxStatePending
          /\ trxStatePending \in {"RX_ON", "TX_ON"} /\ requested' = "none"
      BY <2>8 DEF EndSetTRXState, SwitchNow
    <3>2. trxState # "BUSY_TX" /\ requested = trxStatePending
      BY <3>1 DEF SwitchInv, Turnaround, PendingCaused
    <3>3. Transceiver!Confirm
      BY <3>1, <3>2
    <3>4. QED
      BY <3>3
  <2>9. ASSUME NEW s \in Signals,
               StartRx(s) \/ StartRxForeign(s) \/ EndRxOther(s)
        PROVE  UNCHANGED <<state, requested>>
    BY <2>9 DEF StartRx, StartRxForeign, HearSignal, EndRxOther
  <2>10. ASSUME NEW s \in Signals, EndRxCurrent(s)
         PROVE  Transceiver!Confirm \/ UNCHANGED <<state, requested>>
    <3>1. trxState = "BUSY_RX" /\ ~setTRXState
      BY <2>10, PhyAssumption DEF EndRxCurrent, SwitchInv, BusyRx, Turnaround
    <3>2. CASE trxStatePending = "IDLE"
      BY <2>10, <3>1, <3>2 DEF EndRxCurrent
    <3>3. CASE trxStatePending # "IDLE"
      BY <2>10, <3>1, <3>3
      DEF EndRxCurrent, SwitchInv, PendingCaused, TypeOK, Pending
    <3>4. QED
      BY <3>2, <3>3
  <2>11. QED
    BY <2>1, <2>2, <2>3, <2>4, <2>5, <2>6, <2>7, <2>8, <2>9, <2>10,
       RespectfulSteps
<1>3. QED
  BY <1>1, <1>2, TypeCorrect, SwitchInvAlways, PTL
  DEF Spec, TransceiverSpec, Transceiver!Spec
-----------------------------------------------------------------------------
(* While a CCA runs the receiver is on, and will stay on.                  *)
CcaInv ==
  /\ ccaRequest.orphans = 0
  /\ ccaRequest.held => /\ trxState \in {"RX_ON", "BUSY_RX"}
                        /\ trxStatePending = "IDLE"

LEMMA CcaInvStep ==
  ASSUME ClientOps = {}, TypeOK, SwitchInv, CcaInv, [Next]_vars
  PROVE  CcaInv'
<1> USE PhyAssumption
<1> USE DEF switch, rx, tx, cca, CcaInv
<1>0. Respectful
  BY DEF Respectful
<1>1. CASE PlmeCcaRequest
  <2>1. /\ trxState \in {"RX_ON", "BUSY_RX"} /\ trxStatePending = "IDLE"
        /\ ~ccaRequest.held /\ ccaRequest' = Scheduled(ccaRequest)
        /\ UNCHANGED switch
    BY <1>1 DEF PlmeCcaRequest, Live
  <2>2. QED
    BY <2>1 DEF Scheduled
<1>2. CASE EndCca
  <2>1. ccaRequest.held /\ ccaRequest' = Cancelled(ccaRequest)
    BY <1>2 DEF EndCca, AfterFiring
  <2>2. ccaRequest'.held = FALSE /\ ccaRequest'.orphans = 0
    BY <2>1 DEF Cancelled, TypeOK, EventIdType
  <2>3. QED
    BY <2>2
<1>3. CASE RequestTxOnFromRx
  <2>1. ccaRequest' = Cancelled(ccaRequest)
    BY <1>3 DEF RequestTxOnFromRx
  <2>2. ccaRequest'.held = FALSE /\ ccaRequest'.orphans = 0
    BY <2>1 DEF Cancelled, TypeOK, EventIdType
  <2>3. QED
    BY <2>2
<1>4. CASE PdDataRequest
  BY <1>4 DEF PdDataRequest
<1>5. CASE EndTx
  BY <1>5, EndTxFires DEF EndTx, SwitchInv
<1>6. CASE RequestRxOn
  BY <1>6 DEF RequestRxOn, SwitchNow, SwitchLater, SwitchAfterTurnaround
<1>7. CASE RequestTrxOff
  BY <1>7 DEF RequestTrxOff, Live
<1>8. CASE RequestTxOn
  BY <1>8 DEF RequestTxOn
<1>9. CASE EndSetTRXState
  BY <1>9 DEF EndSetTRXState
<1>10. ASSUME NEW s \in Signals, StartRx(s) \/ StartRxForeign(s)
       PROVE  CcaInv'
  BY <1>10 DEF StartRx, StartRxForeign, HearSignal
<1>11. ASSUME NEW s \in Signals, EndRxOther(s)
       PROVE  CcaInv'
  BY <1>11 DEF EndRxOther
<1>12. ASSUME NEW s \in Signals, EndRxCurrent(s)
       PROVE  CcaInv'
  BY <1>12 DEF EndRxCurrent
<1>13. CASE \/ PdDataRequestRefused \/ PlmeCcaRequestRefused \/ PlmeEdRequest
            \/ EndEd \/ (\E mode \in 1 .. 3 : SetCCAMode(mode))
            \/ UNCHANGED vars
  BY <1>13 DEF PdDataRequestRefused, PlmeCcaRequestRefused, PlmeEdRequest,
               EndEd, SetCCAMode, vars
<1>14. QED
  BY <1>0, <1>1, <1>2, <1>3, <1>4, <1>5, <1>6, <1>7, <1>8, <1>9, <1>10,
     <1>11, <1>12, <1>13, RespectfulSteps DEF Aside

(* A CCA of a client that overlaps nothing and does not switch off under   *)
(* it never finds the channel idle because the receiver was not listening. *)
THEOREM IdleOnlyIfReceivingAlways ==
  ASSUME ClientOps = {} PROVE Spec => IdleOnlyIfReceiving
<1>0. Respectful
  BY DEF Respectful
<1>1. Init => CcaInv
  BY DEF Init, CcaInv, NoEvent
<1>2. TypeOK /\ SwitchInv /\ CcaInv /\ [Next]_vars => CcaInv'
  BY CcaInvStep
<1>3. TypeOK /\ SwitchInv /\ CcaInv /\ [Next]_vars =>
        [ccaConfirm' = "IDLE" /\ ccaConfirm # "IDLE"
           => trxState = "RX_ON"]_vars
  <2> SUFFICES ASSUME TypeOK, CcaInv, Next,
                      ccaConfirm' = "IDLE", ccaConfirm # "IDLE"
               PROVE  trxState = "RX_ON"
    OBVIOUS
  <2>1. EndCca
    BY DEF Next, ClientRequest, SimulatorEvent, PdDataRequest,
           PdDataRequestRefused, PlmeCcaRequest, PlmeCcaRequestRefused,
           PlmeEdRequest, RequestRxOn, RequestTrxOff, RequestTxOnFromRx,
           RequestTxOn, RequestForceTrxOff, SetCurrentChannel, SetCCAMode,
           StartRx, StartRxForeign, HearSignal, EndRxOther, EndRxCurrent,
           EndTx, EndEd, EndSetTRXState, cca
  <2>2. ccaRequest.held
    BY <2>1 DEF EndCca, AfterFiring, CcaInv
  <2>3. ~PhyIsBusy
    BY <2>1 DEF EndCca, SensedChannelState
  <2>4. QED
    BY <2>2, <2>3 DEF CcaInv, PhyIsBusy
<1>4. QED
  BY <1>0, <1>1, <1>2, <1>3, TypeCorrect, SwitchInvAlways, PTL
  DEF Spec, IdleOnlyIfReceiving
=============================================================================
