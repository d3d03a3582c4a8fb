----------------------------- MODULE LrWpanDevice -----------------------------
(***************************************************************************)
(* A device as LrWpanNetDevice and the helper wire it: the MAC of          *)
(* LrWpanMac over the real CSMA/CA of LrWpanCsmaCa, both over one          *)
(* transceiver.  They call each other within one simulator event:          *)
(*   - the MAC starts an access when RX_ON is confirmed, and cancels it    *)
(*     when a frame that asks for an ACK interrupts it;                    *)
(*   - the CSMA/CA reports to SetLrWpanMacState from inside a CCA confirm; *)
(*   - a MAC that turns the receiver around makes the PHY confirm the CCA  *)
(*     as BUSY, while the MAC is still inside its request;                 *)
(*   - what a CCA request meets depends on the state the MAC asked for.    *)
(*                                                                         *)
(* LrWpanMac counts the accesses it is still to be answered in a variable, *)
(* access.  Here the accesses are the scheduled steps of the CSMA/CA, and  *)
(* AccessAgrees says that the two are the same.                            *)
(***************************************************************************)
EXTENDS EventIds, Sequences, SequencesExt

CONSTANTS
  Frames, AckFrames, TooLong, Ack, Beacon, NoPacket, macMaxFrameRetries,
  ClientOps, MaxQueue, MaxHeard, MaxAccess,  \* see LrWpanMac
  Backoffs,      \* m_macMaxCSMABackoffs
  MaxChains,     \* bound: see LrWpanCsmaCa
  MaxWindow      \* bound: a larger window, which wrapped, meets a busy CCA

VARIABLES
  macState, setMacState, txQueue, txPkt, retransmission, ackWaitTimeout,
  rxOnWhenIdle, trxState, trxRequest, access, starts, gtsFrame, heard, sent,
  lastStatus, overheard,                                   \* see LrWpanMac
  isSlotted, NB, CW, BE, macMinBE, macMaxCSMABackoffs, ccaRequestRunning,
  event, pending, verdict, idleRun, busyCount, startBE,    \* see LrWpanCsmaCa
  revived        \* history: was an access cancelled while its CCA was running?

(* The settings of the CSMA/CA stay as the device was configured.          *)
Csma == INSTANCE LrWpanCsmaCa WITH
  macMaxBE <- 3, MinBESettings <- {}, MaxBESettings <- {},
  BackoffSettings <- {}, ClientOps <- {"cancelCca", "directStart"}

Mac == INSTANCE LrWpanMac

ASSUME DeviceAssumption ==
  /\ Mac!MacAssumption
  /\ Csma!CsmaAssumption
  /\ Backoffs \in 0 .. 254
  /\ MaxWindow \in Nat

mac  == <<macState, setMacState, txQueue, txPkt, retransmission,
          ackWaitTimeout, rxOnWhenIdle, trxState, trxRequest, access, starts,
          gtsFrame, heard, sent, lastStatus, overheard>>
csma == <<isSlotted, NB, CW, BE, macMinBE, macMaxCSMABackoffs,
          ccaRequestRunning, event, pending, verdict, idleRun, busyCount,
          startBE>>
vars == <<mac, csma, revived>>

Init ==
  /\ Mac!Init
  /\ \E slotted \in BOOLEAN : Csma!InitWith(slotted, Backoffs)
  /\ revived = FALSE
-----------------------------------------------------------------------------
(* The accesses that will be answered: a step scheduled, or a CCA whose    *)
(* confirm will not be ignored.                                            *)
AccessCount ==
  EventCount(event["randomBackoff"]) + EventCount(event["canProceed"])
    + EventCount(event["requestCca"])
    + (IF ccaRequestRunning /\ Live(event["endCca"]) THEN 1 ELSE 0)

(* What PlmeCcaConfirm reports to SetLrWpanMacState, if anything.          *)
Answer(status, running) ==
  CASE running /\ status = "IDLE" /\ Csma!Grants    -> "CHANNEL_IDLE"
    [] running /\ status # "IDLE" /\ Csma!GivesUp   -> "CHANNEL_ACCESS_FAILURE"
    [] OTHER                                        -> "none"

(* Has the MAC asked a receiver for TX_ON in this step?                    *)
TurnsAround ==
  trxState = "RX_ON" /\ trxRequest # "TX_ON" /\ trxRequest' = "TX_ON"
-----------------------------------------------------------------------------
(* A step of the MAC, m, and what it makes the CSMA/CA do before it ends.  *)

Alone(m) == m /\ UNCHANGED <<csma, revived>>

(* PlmeSetTRXStateConfirm, called back at once or later, starts an access. *)
Starting(m) ==
  /\ m
  /\ IF access' > access THEN Csma!Start ELSE UNCHANGED csma
  /\ UNCHANGED revived

(* PlmeSetTRXStateRequest(TX_ON) ends a CCA.                               *)
TurningAround(m) ==
  /\ m
  /\ IF TurnsAround /\ IsRunning(event["endCca"])
       THEN Csma!AbortCca
       ELSE UNCHANGED csma
  /\ access' = AccessCount'
  /\ UNCHANGED revived

(* PdDataIndication cancels the access of a MAC in MAC_CSMA.               *)
Interrupting(m) ==
  /\ m
  /\ IF macState = "CSMA"
       THEN /\ Csma!Cancel
            /\ revived' = (revived \/ Live(event["endCca"]))
       ELSE UNCHANGED <<csma, revived>>
  /\ access' = AccessCount'

(* MlmeStart and the first beacon make the CSMA/CA slotted.                *)
Slotting(m) ==
  /\ m
  /\ IF isSlotted THEN UNCHANGED csma ELSE Csma!SetSlottedCsmaCa
  /\ UNCHANGED revived
-----------------------------------------------------------------------------
(* A step of the CSMA/CA, and what it makes the MAC do.                    *)

Silent(c) == c /\ UNCHANGED <<mac, revived>>

(* SetLrWpanMacState turns the receiver around before PlmeCcaConfirm ends. *)
(* absorbed: does the confirm also take the answer of another access?      *)
Reports(status, e, running, absorbed) ==
  /\ CASE Answer(status, running) = "CHANNEL_IDLE" -> Mac!ChannelIdle
       [] Answer(status, running) = "CHANNEL_ACCESS_FAILURE" ->
            /\ Mac!ChannelAccessFailure
            /\ access - access' = IF absorbed THEN 2 ELSE 1
       [] OTHER -> IF absorbed THEN Mac!AccessAbsorbed ELSE UNCHANGED mac
  /\ Csma!PlmeCcaConfirm(status,
                         IF TurnsAround THEN Csma!CancelEvent(e, "endCca")
                                        ELSE e,
                         running)
  /\ UNCHANGED revived

EndCca ==
  \E e \in Csma!Fire("endCca"), status \in {"IDLE", "BUSY"} :
    /\ status = "IDLE" => CW <= MaxWindow
    /\ Reports(status, e, ccaRequestRunning, FALSE)

(* Two CCAs share the flag that lets the confirm of one of them through.   *)
CcaRuns == ccaRequestRunning /\ Live(event["endCca"])

RequestCCA ==
  /\ trxState = "RX_ON"
  /\ Csma!RequestCCA
  /\ IF CcaRuns THEN Mac!AccessAbsorbed ELSE UNCHANGED mac
  /\ UNCHANGED revived

RequestCCARefused ==
  /\ trxState # "RX_ON"
  /\ \E e \in Csma!Fire("requestCca") :
       Reports(IF trxState = "TRX_OFF" THEN "TRX_OFF" ELSE "BUSY", e, TRUE,
               CcaRuns)
-----------------------------------------------------------------------------
SetMacStateEvent ==
  \/ Alone(Mac!SetIdle)
  \/ Alone(Mac!SetAckPending)
  \/ Starting(Mac!SetCsma)
  \/ TurningAround(Mac!SendAck)
  \/ TurningAround(Mac!TransmitBeacon)

TrxConfirm == Starting(Mac!TrxConfirm)

EndTx == Alone(Mac!EndTx)

AckWaitTimeout == Starting(Mac!AckWaitTimeout)

StartFires == Starting(Mac!StartFires)

Backoff == Silent(Csma!RandomBackoffDelay)

CanProceed == Silent(Csma!CanProceed)

ClearChannelAssessment == RequestCCA \/ RequestCCARefused

Reception ==
  \/ Interrupting(Mac!ReceiveAckReqFrame)
  \/ Interrupting(Mac!OverhearGtsRequest)
  \/ Alone(Mac!ReceiveAck)
  \/ Alone(Mac!ReceiveOtherAck)
  \/ Slotting(Mac!ReceiveBeacon)

Request ==
  \/ \E f \in Frames :
       Alone(\/ Mac!MlmeAssociate(f) \/ Mac!McpsDataRequestQueued(f)
             \/ Mac!McpsDataRequest(f) \/ Mac!MlmeGtsRequest(f))
  \/ Slotting(Mac!SendOneBeacon)
  \/ \E v \in BOOLEAN : Alone(Mac!SetRxOnWhenIdle(v))

Next ==
  \/ SetMacStateEvent
  \/ TurningAround(Mac!DirectTransmission)
  \/ TrxConfirm
  \/ EndTx
  \/ AckWaitTimeout
  \/ StartFires
  \/ Backoff
  \/ CanProceed
  \/ ClearChannelAssessment
  \/ EndCca
  \/ Reception
  \/ Request

(* The simulator runs every scheduled event.  Nothing is assumed of the    *)
(* channel: it may be busy whenever it is assessed.                        *)
Fairness ==
  /\ WF_vars(SetMacStateEvent)
  /\ WF_vars(TrxConfirm)
  /\ WF_vars(EndTx)
  /\ WF_vars(AckWaitTimeout)
  /\ WF_vars(Backoff)
  /\ WF_vars(CanProceed)
  /\ WF_vars(ClearChannelAssessment)
  /\ WF_vars(EndCca)

Spec == Init /\ [][Next]_vars /\ Fairness
-----------------------------------------------------------------------------
(* The MAC and the CSMA/CA agree on how many accesses are to be answered:  *)
(* none is started, cancelled, aborted or absorbed by one of them without  *)
(* the other.                                                              *)
AccessAgrees == access = AccessCount

(* The MAC has one access at a time, while it is in MAC_CSMA and the       *)
(* receiver is on, unless Cancel met a running CCA: then the cancelled     *)
(* access goes on beside the next one.                                     *)
OneAccess ==
  ~revived =>
    AccessCount = IF macState = "CSMA" /\ trxRequest # "RX_ON" THEN 1 ELSE 0

(* Neither layer ends in an assertion of the MAC.                          *)
NoAssertFails == Mac!NoAssertFails

(* A frame the MAC has taken up leaves the queue with a confirm, although  *)
(* the channel may be busy at every CCA, ACKs may be lost and accesses may *)
(* be cancelled and revived.                                               *)
FrontIsServed == Mac!FrontIsServed
=============================================================================
