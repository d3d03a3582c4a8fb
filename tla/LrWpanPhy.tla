------------------------------ MODULE LrWpanPhy ------------------------------
(***************************************************************************)
(* The transceiver of model/lr-wpan-phy.cc: the state machine that         *)
(* receives signals, transmits frames, assesses the channel (CCA),         *)
(* measures energy (ED) and switches its state for a client (the MAC).     *)
(*                                                                         *)
(* Signals arrive from the channel at any time and overlap freely; each    *)
(* has an EndRx event of its own.  Power levels, error rates and           *)
(* durations are abstracted: whether a signal can be decoded, and whether  *)
(* interference destroys a frame, is a choice of the environment; whether  *)
(* a signal is above the CCA threshold is a constant of the signal.        *)
(***************************************************************************)
EXTENDS EventIds

CONSTANTS
  Signals,     \* the signals that may be on the air
  Foreign,     \* those that are not LrWpan signals: pure interference
  Strong,      \* those above the CCA threshold
  NoSignal,    \* m_currentRxPacket.first = 0
  ClientOps,   \* the operations below that the client uses
  MaxEvents    \* bound: CCA and ED requests, and transmissions, at a time

(***************************************************************************)
(* The requests of a client that does not respect the state of the         *)
(* transceiver, or that overrides it:                                      *)
(*   txOnInRx      TX_ON while a frame is being received (SendOneBeacon);  *)
(*   offInCca      TRX_OFF while a CCA runs;                               *)
(*   forceOff      FORCE_TRX_OFF;                                          *)
(*   setChannel    a change of phyCurrentChannel;                          *)
(*   ccaInSwitch   PlmeCcaRequest while a state change is pending;         *)
(*   overlap       PlmeCcaRequest or PlmeEdRequest while one runs.         *)
(***************************************************************************)
UndisciplinedOps ==
  {"txOnInRx", "offInCca", "forceOff", "setChannel", "ccaInSwitch", "overlap"}

ASSUME PhyAssumption ==
  /\ Foreign \subseteq Signals
  /\ Strong \subseteq Signals
  /\ NoSignal \notin Signals
  /\ ClientOps \subseteq UndisciplinedOps
  /\ MaxEvents \in Nat \ {0}

VARIABLES
  trxState,          \* m_trxState
  trxStatePending,   \* m_trxStatePending; IDLE when no change is pending
  setTRXState,       \* m_setTRXState: is a turnaround running?
  onAir,             \* the signals whose EndRx is scheduled
  currentRx,         \* m_currentRxPacket.first
  rxCorrupt,         \* m_currentRxPacket.second
  txAborted,         \* m_currentTxPacket.second
  pdDataRequest,     \* m_pdDataRequest: the EndTx events
  ccaRequest,        \* m_ccaRequest: the EndCca events
  ccaPeak,           \* is m_ccaPeakPower above the threshold?
  ccaMode,           \* m_phyPIBAttributes.phyCCAMode
  edRequest,         \* m_edRequest: the EndEd events
  requested,         \* history: the state last requested and not confirmed
  indicated,         \* history: the frame last passed to PdDataIndication
  dataConfirm,       \* history: the last PdDataConfirm
  txDoomed,          \* history: has the channel changed under a transmission?
  ccaConfirm         \* history: the last PlmeCcaConfirm

switch  == <<trxState, trxStatePending, setTRXState>>
rx      == <<onAir, currentRx, rxCorrupt>>
tx      == <<txAborted, pdDataRequest>>
cca     == <<ccaRequest, ccaPeak, ccaConfirm>>
txHist  == <<dataConfirm, txDoomed>>
vars    == <<switch, rx, tx, cca, ccaMode, edRequest, requested, indicated,
             txHist>>

States  == {"TRX_OFF", "RX_ON", "TX_ON", "BUSY_RX", "BUSY_TX"}
Pending == {"IDLE", "RX_ON", "TX_ON", "TRX_OFF"}

Init ==
  /\ trxState = "TRX_OFF"
  /\ trxStatePending = "IDLE"
  /\ setTRXState = FALSE
  /\ onAir = {}
  /\ currentRx = NoSignal
  /\ rxCorrupt = TRUE
  /\ txAborted = TRUE
  /\ pdDataRequest = NoEvent
  /\ ccaRequest = NoEvent
  /\ ccaPeak = FALSE
  /\ ccaMode = 1
  /\ edRequest = NoEvent
  /\ requested = "none"
  /\ indicated = NoSignal
  /\ dataConfirm = "none"
  /\ txDoomed = FALSE
  /\ ccaConfirm = "none"
-----------------------------------------------------------------------------
PhyIsBusy == trxState \in {"BUSY_TX", "BUSY_RX"}

(* CheckInterference: while a frame is being received the error model may  *)
(* destroy it.  It takes for granted that BUSY_RX has a current frame.     *)
ReceivingNothing == trxState = "BUSY_RX" /\ currentRx = NoSignal

CheckInterference ==
  IF trxState = "BUSY_RX" THEN rxCorrupt' \in {rxCorrupt, TRUE}
                          ELSE UNCHANGED rxCorrupt

StrongOnAir(s) == s \intersect Strong # {}
-----------------------------------------------------------------------------
(* Reception.                                                              *)

(* The peak is updated only while the event held by m_ccaRequest runs.     *)
HearSignal(s) ==
  /\ onAir' = onAir \union {s}
  /\ ccaPeak' = (ccaPeak \/ (IsRunning(ccaRequest) /\ StrongOnAir(onAir')))
  /\ UNCHANGED <<trxStatePending, setTRXState, tx, ccaRequest, ccaConfirm,
                 ccaMode, edRequest, requested, indicated, txHist>>

StartRxForeign(s) ==
  /\ s \in Foreign \ onAir
  /\ ~ReceivingNothing
  /\ CheckInterference
  /\ HearSignal(s)
  /\ UNCHANGED <<trxState, currentRx>>

StartRx(s) ==
  /\ s \in Signals \ (Foreign \union onAir)
  /\ HearSignal(s)
  /\ \/ /\ trxState = "RX_ON" /\ ~setTRXState
        /\ trxState' = "BUSY_RX"
        /\ currentRx' = s
        /\ rxCorrupt' = FALSE
     \/ \* not decodable, or no receiver ready for it
        /\ trxState # "BUSY_RX"
        /\ UNCHANGED <<trxState, currentRx, rxCorrupt>>
     \/ /\ trxState = "BUSY_RX" /\ ~ReceivingNothing
        /\ CheckInterference
        /\ UNCHANGED <<trxState, currentRx>>

(* EndRx of a signal other than the current frame.  A foreign signal looks *)
(* like the current frame when there is none: both pointers are null.      *)
EndRxOther(s) ==
  /\ s \in onAir /\ s # currentRx
  /\ s \in Foreign => ~ReceivingNothing
  /\ onAir' = onAir \ {s}
  /\ UNCHANGED <<switch, currentRx, rxCorrupt, tx, cca, ccaMode, edRequest,
                 requested, indicated, txHist>>

(* Mutant of EndRxCurrent, which leaves the receiver busy.                 *)
EndRxCurrentStaysBusy(s) ==
  /\ s \in onAir /\ s = currentRx
  /\ \E destroyed \in BOOLEAN :
       /\ rxCorrupt => destroyed
       /\ indicated' = IF destroyed THEN NoSignal ELSE s
  /\ onAir' = onAir \ {s}
  /\ currentRx' = NoSignal
  /\ rxCorrupt' = TRUE
  /\ UNCHANGED <<switch, tx, cca, ccaMode, edRequest, requested, txHist>>

(* EndRx of the current frame: it is indicated if it survived, then a      *)
(* pending state change is applied; without one the state becomes RX_ON,   *)
(* whatever it was.                                                        *)
EndRxCurrent(s) ==
  /\ s \in onAir /\ s = currentRx
  /\ \E destroyed \in BOOLEAN :
       /\ rxCorrupt => destroyed
       /\ trxState # "BUSY_RX" => destroyed = rxCorrupt
       /\ indicated' = IF destroyed THEN NoSignal ELSE s
  /\ onAir' = onAir \ {s}
  /\ currentRx' = NoSignal
  /\ rxCorrupt' = TRUE
  /\ \/ /\ trxStatePending # "IDLE" /\ ~setTRXState
        /\ trxState' = trxStatePending
        /\ trxStatePending' = "IDLE"
        /\ requested' = "none"
     \/ /\ trxStatePending # "IDLE" /\ setTRXState
        /\ UNCHANGED <<trxState, trxStatePending, requested>>
     \/ /\ trxStatePending = "IDLE"
        /\ trxState' = "RX_ON"
        /\ UNCHANGED <<trxStatePending, requested>>
  /\ UNCHANGED <<setTRXState, tx, cca, ccaMode, edRequest, txHist>>
-----------------------------------------------------------------------------
(* Transmission.                                                           *)

(* A frame longer than aMaxPhyPacketSize, or a request during a            *)
(* turnaround, is refused with UNSPECIFIED; one in another state with that *)
(* state; neither changes the state of the transceiver.  One while a frame *)
(* is received is a fatal error, and no action.                            *)
PdDataRequestRefused ==
  /\ \/ dataConfirm' = "UNSPECIFIED"
     \/ /\ ~setTRXState
        /\ trxState \in {"RX_ON", "TRX_OFF", "BUSY_TX"}
        /\ dataConfirm' = trxState
  /\ UNCHANGED <<switch, rx, tx, cca, ccaMode, edRequest, requested,
                 indicated, txDoomed>>

PdDataRequest ==
  /\ ~setTRXState /\ trxState = "TX_ON"
  /\ EventCount(pdDataRequest) < MaxEvents
  /\ trxState' = "BUSY_TX"
  /\ pdDataRequest' = Scheduled(pdDataRequest)
  /\ txAborted' = FALSE
  /\ dataConfirm' = "none"
  /\ txDoomed' = FALSE
  /\ UNCHANGED <<trxStatePending, setTRXState, rx, cca, ccaMode, edRequest,
                 requested, indicated>>

(* Mutant of EndTx, which forgets a pending state change.                  *)
EndTxForgetsPending ==
  /\ trxState \in {"BUSY_TX", "TRX_OFF"}
  /\ txAborted => trxState = "TRX_OFF"
  /\ pdDataRequest' \in AfterFiring(pdDataRequest)
  /\ dataConfirm' = IF txAborted THEN trxState ELSE "SUCCESS"
  /\ txAborted' = FALSE
  /\ trxState' = IF trxState = "TRX_OFF" THEN trxState ELSE "TX_ON"
  /\ UNCHANGED <<trxStatePending, setTRXState, rx, cca, ccaMode, edRequest,
                 requested, indicated, txDoomed>>

EndTx ==
  /\ trxState \in {"BUSY_TX", "TRX_OFF"}
  /\ txAborted => trxState = "TRX_OFF"
  /\ pdDataRequest' \in AfterFiring(pdDataRequest)
  /\ dataConfirm' = IF txAborted THEN trxState ELSE "SUCCESS"
  /\ txAborted' = FALSE
  /\ \/ /\ trxStatePending # "IDLE" /\ ~setTRXState
        /\ trxState' = trxStatePending
        /\ trxStatePending' = "IDLE"
        /\ requested' = "none"
     \/ /\ trxStatePending # "IDLE" /\ setTRXState
        /\ UNCHANGED <<trxState, trxStatePending, requested>>
     \/ /\ trxStatePending = "IDLE"
        /\ trxState' = IF trxState = "TRX_OFF" THEN trxState ELSE "TX_ON"
        /\ UNCHANGED <<trxStatePending, requested>>
  /\ UNCHANGED <<setTRXState, rx, cca, ccaMode, edRequest, indicated,
                 txDoomed>>
-----------------------------------------------------------------------------
(* Channel assessment and energy detection.                                *)

PlmeCcaRequest ==
  /\ trxState \in {"RX_ON", "BUSY_RX"}
  /\ trxStatePending # "IDLE" => "ccaInSwitch" \in ClientOps
  /\ Live(ccaRequest) => "overlap" \in ClientOps
  /\ EventCount(ccaRequest) < MaxEvents
  /\ ccaPeak' = FALSE
  /\ ccaRequest' = Scheduled(ccaRequest)
  /\ ccaConfirm' = "none"
  /\ UNCHANGED <<switch, rx, tx, ccaMode, edRequest, requested, indicated,
                 txHist>>

(* Mutant of PlmeCcaRequestRefused, which confirms with the state.         *)
PlmeCcaRequestRefusedWithState ==
  /\ trxState \notin {"RX_ON", "BUSY_RX"}
  /\ ccaConfirm' = trxState
  /\ UNCHANGED <<switch, rx, tx, ccaRequest, ccaPeak, ccaMode, edRequest,
                 requested, indicated, txHist>>

PlmeCcaRequestRefused ==
  /\ trxState \notin {"RX_ON", "BUSY_RX"}
  /\ ccaConfirm' = IF trxState = "TRX_OFF" THEN "TRX_OFF" ELSE "BUSY"
  /\ UNCHANGED <<switch, rx, tx, ccaRequest, ccaPeak, ccaMode, edRequest,
                 requested, indicated, txHist>>

(* Modes 2 and 3 look for a frame being received: those are busy already.  *)
SensedChannelState ==
  IF PhyIsBusy \/ (ccaMode = 1 /\ (ccaPeak \/ StrongOnAir(onAir)))
    THEN "BUSY"
    ELSE "IDLE"

EndCca ==
  /\ ccaRequest' \in AfterFiring(ccaRequest)
  /\ ccaPeak' = (ccaPeak \/ StrongOnAir(onAir))
  /\ ccaConfirm' = SensedChannelState
  /\ UNCHANGED <<switch, rx, tx, ccaMode, edRequest, requested, indicated,
                 txHist>>

(* In another state the request is confirmed at once and changes nothing.  *)
PlmeEdRequest ==
  /\ trxState \in {"RX_ON", "BUSY_RX"}
  /\ Live(edRequest) => "overlap" \in ClientOps
  /\ EventCount(edRequest) < MaxEvents
  /\ edRequest' = Scheduled(edRequest)
  /\ UNCHANGED <<switch, rx, tx, cca, ccaMode, requested, indicated,
                 txHist>>

EndEd ==
  /\ edRequest' \in AfterFiring(edRequest)
  /\ UNCHANGED <<switch, rx, tx, cca, ccaMode, requested, indicated,
                 txHist>>
-----------------------------------------------------------------------------
(* PlmeSetTRXStateRequest.  A request overrides the previous one: the      *)
(* turnaround it started is cancelled and its pending state forgotten.     *)

(* The request repeats the one the turnaround is for.                      *)
AlreadySwitching(state) == setTRXState /\ trxStatePending = state

SwitchNow(state) ==
  /\ trxState' = state
  /\ trxStatePending' = "IDLE"
  /\ setTRXState' = FALSE
  /\ requested' = "none"

SwitchLater(state) ==
  /\ trxStatePending' = state
  /\ setTRXState' = FALSE
  /\ requested' = state
  /\ UNCHANGED trxState

SwitchAfterTurnaround(state) ==
  /\ trxStatePending' = state
  /\ setTRXState' = TRUE
  /\ requested' = state
  /\ UNCHANGED trxState

(* Mutant of RequestRxOn, which does not wait for the end of a frame sent. *)
RequestRxOnUnderTx ==
  /\ ~AlreadySwitching("RX_ON")
  /\ \/ trxState \in {"RX_ON", "BUSY_RX"} /\ SwitchNow(trxState)
     \/ trxState \in {"TX_ON", "TRX_OFF", "BUSY_TX"}
          /\ SwitchAfterTurnaround("RX_ON")
  /\ UNCHANGED <<rx, tx, cca, ccaMode, edRequest, indicated, txHist>>

RequestRxOn ==
  /\ ~AlreadySwitching("RX_ON")
  /\ \/ trxState \in {"RX_ON", "BUSY_RX"} /\ SwitchNow(trxState)
     \/ trxState = "BUSY_TX" /\ SwitchLater("RX_ON")
     \/ trxState \in {"TX_ON", "TRX_OFF"} /\ SwitchAfterTurnaround("RX_ON")
  /\ UNCHANGED <<rx, tx, cca, ccaMode, edRequest, indicated, txHist>>

(* Mutant of RequestTrxOff, which does not wait for the end of a frame     *)
(* received.                                                               *)
RequestTrxOffUnderRx ==
  /\ Live(ccaRequest) => "offInCca" \in ClientOps
  /\ \/ /\ trxState = "TRX_OFF"
        /\ SwitchNow("TRX_OFF")
        /\ UNCHANGED edRequest
     \/ /\ trxState = "BUSY_TX"
        /\ SwitchLater("TRX_OFF")
        /\ UNCHANGED edRequest
     \/ /\ trxState \in {"RX_ON", "TX_ON", "BUSY_RX"}
        /\ SwitchNow("TRX_OFF")
        /\ edRequest' = Cancelled(edRequest)
  /\ UNCHANGED <<rx, tx, cca, ccaMode, indicated, txHist>>

(* There is no branch for TRX_OFF while a frame already destroyed is       *)
(* received: it is a fatal error, and no action.                           *)
RequestTrxOff ==
  /\ Live(ccaRequest) => "offInCca" \in ClientOps
  /\ \/ /\ trxState = "TRX_OFF"
        /\ SwitchNow("TRX_OFF")
        /\ UNCHANGED edRequest
     \/ /\ trxState = "BUSY_TX"
        /\ SwitchLater("TRX_OFF")
        /\ UNCHANGED edRequest
     \/ /\ trxState = "BUSY_RX" /\ currentRx # NoSignal /\ ~rxCorrupt
        /\ SwitchLater("TRX_OFF")
        /\ edRequest' = Cancelled(edRequest)
     \/ /\ trxState \in {"RX_ON", "TX_ON"}
        /\ SwitchNow("TRX_OFF")
        /\ edRequest' = Cancelled(edRequest)
  /\ UNCHANGED <<rx, tx, cca, ccaMode, indicated, txHist>>

(* Mutant of RequestTxOnFromRx, which leaves a CCA running.                *)
RequestTxOnUnderCca ==
  /\ ~AlreadySwitching("TX_ON")
  /\ trxState \in {"RX_ON", "BUSY_RX"}
  /\ trxState = "BUSY_RX" => "txOnInRx" \in ClientOps
  /\ SwitchAfterTurnaround("TX_ON")
  /\ rxCorrupt' = (rxCorrupt \/ currentRx # NoSignal)
  /\ edRequest' = Cancelled(edRequest)
  /\ UNCHANGED <<onAir, currentRx, tx, cca, ccaMode, indicated, txHist>>

(* A receiver must turn around: the frame it receives is destroyed, and a  *)
(* running CCA confirms BUSY.                                              *)
RequestTxOnFromRx ==
  /\ ~AlreadySwitching("TX_ON")
  /\ trxState \in {"RX_ON", "BUSY_RX"}
  /\ trxState = "BUSY_RX" => "txOnInRx" \in ClientOps
  /\ SwitchAfterTurnaround("TX_ON")
  /\ rxCorrupt' = (rxCorrupt \/ currentRx # NoSignal)
  /\ ccaRequest' = Cancelled(ccaRequest)
  /\ ccaConfirm' = IF IsRunning(ccaRequest) THEN "BUSY" ELSE ccaConfirm
  /\ edRequest' = Cancelled(edRequest)
  /\ UNCHANGED <<onAir, currentRx, tx, ccaPeak, ccaMode, indicated, txHist>>

RequestTxOn ==
  /\ ~AlreadySwitching("TX_ON")
  /\ \/ trxState = "TX_ON" /\ SwitchNow("TX_ON") /\ UNCHANGED edRequest
     \/ /\ trxState = "TRX_OFF"
        /\ SwitchNow("TX_ON")
        /\ edRequest' = Cancelled(edRequest)
     \/ /\ trxState = "BUSY_TX"
        /\ SwitchNow("BUSY_TX")
        /\ edRequest' = Cancelled(edRequest)
  /\ UNCHANGED <<rx, tx, cca, ccaMode, indicated, txHist>>

(* Mutants of RequestForceTrxOff, which leave a pending state change, or   *)
(* the frame that is being received, as they were.                         *)
RequestForceTrxOffKeepsPending ==
  /\ "forceOff" \in ClientOps
  /\ trxState' = "TRX_OFF"
  /\ rxCorrupt' = (rxCorrupt \/ (trxState # "TRX_OFF" /\ currentRx # NoSignal))
  /\ txAborted' = (txAborted \/ trxState = "BUSY_TX")
  /\ UNCHANGED <<trxStatePending, setTRXState, requested, onAir, currentRx,
                 pdDataRequest, cca, ccaMode, edRequest, indicated, txHist>>

RequestForceTrxOffKeepsFrame ==
  /\ "forceOff" \in ClientOps
  /\ SwitchNow("TRX_OFF")
  /\ txAborted' = (txAborted \/ trxState = "BUSY_TX")
  /\ UNCHANGED <<rx, pdDataRequest, cca, ccaMode, edRequest, indicated,
                 txHist>>

(* A frame on the air is aborted, but its EndTx stays scheduled.           *)
RequestForceTrxOff ==
  /\ "forceOff" \in ClientOps
  /\ SwitchNow("TRX_OFF")
  /\ rxCorrupt' = (rxCorrupt \/ (trxState # "TRX_OFF" /\ currentRx # NoSignal))
  /\ txAborted' = (txAborted \/ trxState = "BUSY_TX")
  /\ UNCHANGED <<onAir, currentRx, pdDataRequest, cca, ccaMode, edRequest,
                 indicated, txHist>>

EndSetTRXState ==
  /\ setTRXState
  /\ trxStatePending \in {"RX_ON", "TX_ON"}
  /\ SwitchNow(trxStatePending)
  /\ UNCHANGED <<rx, tx, cca, ccaMode, edRequest, indicated, txHist>>
-----------------------------------------------------------------------------
(* PlmeSetAttributeRequest.  The transceiver is off before PhyIsBusy is    *)
(* asked, so the transmission is never cancelled.                          *)
SetCurrentChannel ==
  /\ "setChannel" \in ClientOps
  /\ SwitchNow("TRX_OFF")
  /\ rxCorrupt' = (rxCorrupt \/ currentRx # NoSignal)
  /\ txDoomed' = (txDoomed \/ Live(pdDataRequest))
  /\ UNCHANGED <<onAir, currentRx, tx, cca, ccaMode, edRequest, indicated,
                 dataConfirm>>

SetCCAMode(mode) ==
  /\ ccaMode' = mode
  /\ UNCHANGED <<switch, rx, tx, cca, edRequest, requested, indicated,
                 txHist>>
-----------------------------------------------------------------------------
ClientRequest ==
  \/ PdDataRequest
  \/ PdDataRequestRefused
  \/ PlmeCcaRequest
  \/ PlmeCcaRequestRefused
  \/ PlmeEdRequest
  \/ RequestRxOn
  \/ RequestTrxOff
  \/ RequestTxOnFromRx
  \/ RequestTxOn
  \/ RequestForceTrxOff
  \/ SetCurrentChannel
  \/ \E mode \in 1 .. 3 : SetCCAMode(mode)

SimulatorEvent ==
  \/ \E s \in Signals : StartRx(s) \/ StartRxForeign(s)
  \/ \E s \in Signals : EndRxOther(s) \/ EndRxCurrent(s)
  \/ EndTx
  \/ EndCca
  \/ EndEd
  \/ EndSetTRXState

Next == ClientRequest \/ SimulatorEvent

(* The simulator runs every scheduled event.                               *)
Fairness ==
  /\ \A s \in Signals :
       WF_vars(EndRxOther(s) \/ EndRxCurrent(s))
  /\ WF_vars(EndTx)
  /\ WF_vars(EndSetTRXState)

Spec == Init /\ [][Next]_vars /\ Fairness
-----------------------------------------------------------------------------
TypeOK ==
  /\ trxState \in States
  /\ trxStatePending \in Pending
  /\ setTRXState \in BOOLEAN
  /\ onAir \subseteq Signals
  /\ currentRx \in Signals \union {NoSignal}
  /\ rxCorrupt \in BOOLEAN
  /\ txAborted \in BOOLEAN
  /\ pdDataRequest \in EventIdType
  /\ ccaRequest \in EventIdType
  /\ ccaPeak \in BOOLEAN
  /\ ccaMode \in 1 .. 3
  /\ edRequest \in EventIdType
  /\ requested \in {"none", "RX_ON", "TX_ON", "TRX_OFF"}
  /\ indicated \in Signals \union {NoSignal}
  /\ dataConfirm \in States \union {"none", "SUCCESS", "UNSPECIFIED"}
  /\ txDoomed \in BOOLEAN
  /\ ccaConfirm \in {"none", "IDLE", "BUSY", "TRX_OFF"}

(* The transmitter stays busy from PdDataRequest to EndTx.  Nothing else   *)
(* holds it there: EndRx of a frame that the transmission overrode, a      *)
(* pending state applied too early, would switch it under the frame.       *)
TransmitterHeld == Live(pdDataRequest) => trxState = "BUSY_TX"

(* A receiver that is busy has a frame whose end will release it.  A       *)
(* BUSY_RX without one would never be left, and CheckInterference would    *)
(* dereference a null frame.                                               *)
BusyRxHasFrame ==
  /\ trxState = "BUSY_RX" => currentRx # NoSignal
  /\ currentRx # NoSignal => currentRx \in onAir

(* A state change that was put off is waiting for something that will      *)
(* happen: a turnaround, the end of a frame sent or of a frame received.   *)
PendingHasCause ==
  /\ trxStatePending # "IDLE" =>
       \/ setTRXState
       \/ trxState = "BUSY_TX" /\ Live(pdDataRequest)
       \/ trxState = "BUSY_RX" /\ currentRx \in onAir
  /\ setTRXState => trxStatePending \in {"RX_ON", "TX_ON"}

(* To a client that respects its state the transceiver looks like the      *)
(* abstract one: whatever is received meanwhile, a request is confirmed in *)
(* its turn, a frame is sent to its end, and no other event of the PHY     *)
(* moves the state under the client.                                       *)
Transceiver == INSTANCE LrWpanTransceiver WITH
  trxState   <- IF trxState = "BUSY_RX" THEN "RX_ON" ELSE trxState,
  trxRequest <- requested

TransceiverSpec == Transceiver!Spec

(* A frame is passed up only if the receiver was on it from its first bit  *)
(* to its last: no turnaround, switch-off or channel change in between.    *)
IndicatedOnlyIfReceived ==
  [][indicated' # NoSignal /\ indicated' # indicated
       => trxState = "BUSY_RX" /\ currentRx = indicated' /\ ~rxCorrupt]_vars

(* The last state requested is confirmed, or overridden by another one.    *)
RequestConfirmed ==
  \A state \in {"RX_ON", "TX_ON", "TRX_OFF"} :
    requested = state ~> requested # state

(* CCA finds the channel idle only with the receiver on.                   *)
IdleOnlyIfReceiving ==
  [][ccaConfirm' = "IDLE" /\ ccaConfirm # "IDLE" => trxState = "RX_ON"]_vars

(* lr-wpan-phy.cc on a channel change: any packet in transmission will be  *)
(* corrupted.                                                              *)
ChannelChangeCorruptsTx == txDoomed => dataConfirm # "SUCCESS"
=============================================================================
