------------------------------ MODULE LrWpanMac ------------------------------
(***************************************************************************)
(* The data service of model/lr-wpan-mac.cc: the transmit queue, the       *)
(* state machine that takes its front through channel access,              *)
(* transmission and the wait for an ACK, the replies to frames that ask    *)
(* for an ACK, and the operations that bypass the queue.                   *)
(*                                                                         *)
(* The transceiver and the channel access below are what LrWpanPhy and     *)
(* LrWpanCsmaCa show of them: a state request is granted at once or        *)
(* confirmed later, receiving counts as RX_ON, and an access that was      *)
(* started is answered, once, unless another one absorbs it.               *)
(*                                                                         *)
(* Delays are abstracted: any scheduled event may be the next to fire,     *)
(* except where the comments say that one comes first.                     *)
(***************************************************************************)
EXTENDS Naturals, Sequences, SequencesExt

CONSTANTS
  Frames,              \* what the upper layer and the MLME send
  AckFrames,           \* those that ask for an ACK
  TooLong,             \* those the PHY refuses as too long
  Ack, Beacon,         \* the other packets m_txPkt may hold
  NoPacket,            \* m_txPkt = 0
  macMaxFrameRetries,  \* m_macMaxFrameRetries
  ClientOps,           \* the operations below that are used
  MaxQueue,            \* bound: the length of the queue
  MaxHeard,            \* bound: frames received that ask for an ACK
  MaxAccess            \* bound: accesses running when a client starts one

(***************************************************************************)
(* The operations that do not go through CheckQueue:                       *)
(*   dataRequest    McpsDataRequest, which starts the channel access       *)
(*                  itself (unslotted, or slotted once associated);        *)
(*   gtsRequest     MlmeGtsRequest, which does the same;                   *)
(*   sendBeacon     SendOneBeacon of the coordinator;                      *)
(*   receiveBeacon  OneSuperframeProcess of a device;                      *)
(*   gtsFrames      the same, when frames wait for a GTS;                  *)
(*   overhear       a GTS request of another device: it has no destination *)
(*                  address, so that every device of the PAN accepts it.   *)
(***************************************************************************)
BypassingOps ==
  {"dataRequest", "gtsRequest", "sendBeacon", "receiveBeacon", "gtsFrames",
   "overhear"}

ASSUME MacAssumption ==
  /\ AckFrames \subseteq Frames
  /\ TooLong \subseteq Frames
  /\ {Ack, Beacon, NoPacket} \intersect Frames = {}
  /\ Ack # Beacon /\ Ack # NoPacket /\ Beacon # NoPacket
  /\ macMaxFrameRetries \in Nat
  /\ ClientOps \subseteq BypassingOps
  /\ MaxQueue \in Nat /\ MaxHeard \in Nat /\ MaxAccess \in Nat

VARIABLES
  macState,         \* m_lrWpanMacState
  setMacState,      \* what the m_setMacState event will do, or "none"
  txQueue,          \* m_txQueue
  txPkt,            \* m_txPkt
  retransmission,   \* m_retransmission
  ackWaitTimeout,   \* is m_ackWaitTimeout running?
  rxOnWhenIdle,     \* m_macRxOnWhenIdle
  trxState,         \* the state of the PHY; receiving counts as RX_ON
  trxRequest,       \* the state the PHY will confirm, or "none"
  access,           \* channel accesses that are not answered yet
  starts,           \* LrWpanCsmaCa::Start events scheduled by the MAC itself
  gtsFrame,         \* a DirectTransmission scheduled for a GTS, or NoPacket
  heard,            \* history: frames received that ask for an ACK
  sent,             \* history: transmissions of the front of the queue
  lastStatus,       \* history: the status of the last McpsDataConfirm
  overheard         \* history: was a GTS request overheard?

queue   == <<txQueue, txPkt, retransmission, sent, lastStatus>>
radio   == <<trxState, trxRequest>>
csmaCa  == <<access, starts>>
others  == <<rxOnWhenIdle, gtsFrame, overheard>>
vars    == <<macState, setMacState, queue, ackWaitTimeout, radio, csmaCa,
             others, heard>>

MacStates == {"IDLE", "CSMA", "SENDING", "ACK_PENDING"}
Statuses  == {"SUCCESS", "NO_ACK", "CHANNEL_ACCESS_FAILURE", "FRAME_TOO_LONG"}

Init ==
  /\ macState = "IDLE"
  /\ setMacState = "none"
  /\ txQueue = <<>>
  /\ txPkt = NoPacket
  /\ retransmission = 0
  /\ ackWaitTimeout = FALSE
  /\ rxOnWhenIdle = TRUE
  /\ trxState = "TRX_OFF"
  /\ trxRequest = "RX_ON"
  /\ access = 0
  /\ starts = 0
  /\ gtsFrame = NoPacket
  /\ heard = 0
  /\ sent = 0
  /\ lastStatus = "none"
  /\ overheard = FALSE
-----------------------------------------------------------------------------
(* The transceiver, and what a request for it does to a channel access.    *)
Trx == INSTANCE LrWpanTransceiver WITH
  trxState <- trxState, trxRequest <- trxRequest

(* SetLrWpanMacState(MAC_IDLE) and SetRxOnWhenIdle.                        *)
RequestIdleState(on) ==
  LET state == IF on THEN "RX_ON" ELSE "TRX_OFF"
  IN  Trx!Granted(state) \/ Trx!PutOff(state)

(* A receiver that turns around confirms its CCA as BUSY before the call   *)
(* returns.  If that was the last backoff the access ends there, and the   *)
(* MAC, which is in MAC_SENDING, does not heed the failure.                *)
CcaAborted ==
  IF trxState = "RX_ON" /\ trxRequest' = "TX_ON" /\ access > 0
    THEN access' \in {access, access - 1}
    ELSE UNCHANGED access
-----------------------------------------------------------------------------
(* The queue.                                                              *)

(* Mutant of RemoveFirstTxQElement, which confirms with a PHY status.      *)
RemoveFirstWithPhyStatus(status) ==
  /\ txQueue # <<>>
  /\ txQueue' = Tail(txQueue)
  /\ retransmission' = 0
  /\ sent' = 0
  /\ lastStatus' = IF status = "FRAME_TOO_LONG" THEN "UNSPECIFIED" ELSE status

(* RemoveFirstTxQElement, and the confirm that goes with it.               *)
RemoveFirstTxQElement(status) ==
  /\ txQueue # <<>>
  /\ txQueue' = Tail(txQueue)
  /\ retransmission' = 0
  /\ sent' = 0
  /\ lastStatus' = status

(* Mutant of CheckQueue, which takes the other end of the queue.           *)
CheckQueueTakesLast(state, q, p, set) ==
  IF state = "IDLE" /\ q # <<>> /\ p = NoPacket /\ set = "none"
    THEN txPkt' = Last(q) /\ setMacState' = "CSMA"
    ELSE txPkt' = p /\ setMacState' = set

(* CheckQueue, for the values its variables have when it is called.        *)
CheckQueue(state, q, p, set) ==
  IF state = "IDLE" /\ q # <<>> /\ p = NoPacket /\ set = "none"
    THEN txPkt' = Head(q) /\ setMacState' = "CSMA"
    ELSE txPkt' = p /\ setMacState' = set

(* Mutant of PrepareRetransmission, which allows one more.                 *)
PrepareRetransmissionOnceMore ==
  /\ retransmission <= macMaxFrameRetries
  /\ retransmission' = retransmission + 1
  /\ UNCHANGED <<txQueue, sent, lastStatus>>

(* PrepareRetransmission returns true, or gives the front up.              *)
PrepareRetransmission ==
  /\ retransmission < macMaxFrameRetries
  /\ retransmission' = retransmission + 1
  /\ UNCHANGED <<txQueue, sent, lastStatus>>

GiveUp ==
  /\ retransmission >= macMaxFrameRetries
  /\ RemoveFirstTxQElement("NO_ACK")
-----------------------------------------------------------------------------
(* The transitions of SetLrWpanMacState and its callers.                   *)

(* SetLrWpanMacState(MAC_IDLE).                                            *)
GoIdle(q, p, set) ==
  /\ macState' = "IDLE"
  /\ RequestIdleState(rxOnWhenIdle)
  /\ CheckQueue("IDLE", q, p, set)

(* SetLrWpanMacState(MAC_CSMA): the access starts once the PHY receives.   *)
GoCsma ==
  /\ macState \in {"IDLE", "ACK_PENDING"}
  /\ macState' = "CSMA"
  /\ \/ Trx!Granted("RX_ON") /\ access' = access + 1
     \/ Trx!PutOff("RX_ON") /\ UNCHANGED access

(* PdDataRequest, called once TX_ON is confirmed.  A frame that is too     *)
(* long is confirmed, as UNSPECIFIED, before the call returns.             *)
PdDataRequest(p, set) ==
  \/ /\ p \notin TooLong /\ trxState # "BUSY_TX"
     /\ trxState' = "BUSY_TX"
     /\ txPkt' = p
     /\ setMacState' = set
     /\ sent' = IF p \in Frames /\ txQueue # <<>> /\ p = Head(txQueue)
                  THEN sent + 1 ELSE sent
     /\ UNCHANGED <<txQueue, retransmission, lastStatus>>
  \/ /\ p \in TooLong
     /\ trxState' = IF trxState = "BUSY_TX" THEN trxState ELSE "TX_ON"
     /\ txPkt' = NoPacket
     /\ setMacState' = "IDLE"
     /\ RemoveFirstTxQElement("FRAME_TOO_LONG")

(* MAC_SENDING and the request for the transmitter, in SendAck,            *)
(* DirectTransmission and SetLrWpanMacState(CHANNEL_IDLE).                 *)
GoSending(p, set) ==
  /\ macState' = "SENDING"
  /\ \/ /\ Trx!PutOff("TX_ON")
        /\ txPkt' = p
        /\ setMacState' = set
        /\ UNCHANGED <<txQueue, retransmission, sent, lastStatus>>
     \/ /\ trxState # "RX_ON" /\ p # NoPacket
        /\ trxRequest' = "none"
        /\ PdDataRequest(p, set)
-----------------------------------------------------------------------------
(* The m_setMacState event.                                                *)

SetIdle ==
  /\ setMacState = "IDLE"
  /\ GoIdle(txQueue, txPkt, "none")
  /\ UNCHANGED <<txQueue, retransmission, sent, lastStatus, ackWaitTimeout,
                 csmaCa, others, heard>>

SetAckPending ==
  /\ setMacState = "ACK_PENDING"
  /\ setMacState' = "none"
  /\ macState' = "ACK_PENDING"
  /\ Trx!Granted("RX_ON") \/ Trx!PutOff("RX_ON")
  /\ UNCHANGED <<queue, ackWaitTimeout, csmaCa, others, heard>>

SetCsma ==
  /\ setMacState = "CSMA"
  /\ setMacState' = "none"
  /\ GoCsma
  /\ UNCHANGED <<queue, ackWaitTimeout, starts, others, heard>>

SendAck ==
  /\ setMacState = "SendAck"
  /\ macState = "IDLE"
  /\ GoSending(Ack, "none")
  /\ CcaAborted
  /\ UNCHANGED <<ackWaitTimeout, starts, others, heard>>

TransmitBeacon ==
  /\ setMacState = "Direct"
  /\ GoSending(Beacon, "none")
  /\ CcaAborted
  /\ UNCHANGED <<ackWaitTimeout, starts, others, heard>>
-----------------------------------------------------------------------------
(* The other events of the MAC and the calls from the layers below.        *)

(* DirectTransmission of a frame in its GTS, whatever the MAC is doing.    *)
DirectTransmission ==
  /\ gtsFrame # NoPacket
  /\ gtsFrame' = NoPacket
  /\ GoSending(gtsFrame, setMacState)
  /\ CcaAborted
  /\ UNCHANGED <<ackWaitTimeout, starts, rxOnWhenIdle, overheard, heard>>

(* PlmeSetTRXStateConfirm, put off.  While a frame is sent, EndTx comes    *)
(* first.                                                                  *)
TrxConfirm ==
  /\ trxRequest # "none" /\ trxState # "BUSY_TX"
  /\ trxRequest' = "none"
  /\ \/ /\ \/ macState = "IDLE" /\ trxRequest \in {"RX_ON", "TRX_OFF"}
           \/ macState = "ACK_PENDING" /\ trxRequest = "RX_ON"
        /\ trxState' = trxRequest
        /\ UNCHANGED <<setMacState, queue, access>>
     \/ /\ macState = "CSMA" /\ trxRequest = "RX_ON"
        /\ trxState' = "RX_ON"
        /\ access' = access + 1
        /\ UNCHANGED <<setMacState, queue>>
     \/ /\ macState = "SENDING" /\ trxRequest = "TX_ON"
        /\ txPkt # NoPacket
        /\ PdDataRequest(txPkt, setMacState)
        /\ UNCHANGED access
  /\ UNCHANGED <<macState, ackWaitTimeout, starts, others, heard>>

(* EndTx of the PHY and PdDataConfirm(SUCCESS).  Nothing can be pending in *)
(* the PHY: it confirms TX_ON at once to a transmitter.                    *)
EndTx ==
  /\ trxState = "BUSY_TX" /\ trxRequest = "none"
  /\ trxState' = "TX_ON"
  /\ macState = "SENDING"
  /\ \/ /\ txPkt = Ack
        /\ txPkt' = NoPacket
        /\ setMacState' = "IDLE"
        /\ UNCHANGED <<txQueue, retransmission, sent, lastStatus,
                       ackWaitTimeout>>
     \/ /\ txPkt \in AckFrames /\ ~ackWaitTimeout
        /\ ackWaitTimeout' = TRUE
        /\ setMacState' = "ACK_PENDING"
        /\ UNCHANGED queue
     \/ \* m_txPkt keeps the beacon
        /\ txPkt = Beacon
        /\ setMacState' = "IDLE"
        /\ UNCHANGED <<queue, ackWaitTimeout>>
     \/ /\ txPkt \in Frames \ AckFrames
        /\ RemoveFirstTxQElement("SUCCESS")
        /\ txPkt' = NoPacket
        /\ setMacState' = "IDLE"
        /\ UNCHANGED ackWaitTimeout
  /\ UNCHANGED <<macState, trxRequest, csmaCa, others, heard>>

(* Mutants of AckWaitTimeout: one waits on after it prepared to send the   *)
(* frame again, one goes idle with the frame it gave up.                   *)
AckWaitTimeoutWaitsOn ==
  /\ ackWaitTimeout /\ setMacState # "ACK_PENDING"
  /\ ackWaitTimeout' = FALSE
  /\ \/ /\ GiveUp
        /\ GoIdle(txQueue', NoPacket, setMacState)
        /\ UNCHANGED access
     \/ /\ PrepareRetransmission
        /\ UNCHANGED <<macState, radio, access, txPkt, setMacState>>
  /\ UNCHANGED <<starts, others, heard>>

AckWaitTimeoutKeepsPacket ==
  /\ ackWaitTimeout /\ setMacState # "ACK_PENDING"
  /\ ackWaitTimeout' = FALSE
  /\ \/ /\ GiveUp
        /\ GoIdle(txQueue', txPkt, setMacState)
        /\ UNCHANGED access
     \/ /\ PrepareRetransmission
        /\ GoCsma
        /\ UNCHANGED <<txPkt, setMacState>>
  /\ UNCHANGED <<starts, others, heard>>

(* A timer just started does not expire before MAC_ACK_PENDING is set.     *)
AckWaitTimeout ==
  /\ ackWaitTimeout /\ setMacState # "ACK_PENDING"
  /\ ackWaitTimeout' = FALSE
  /\ \/ /\ GiveUp
        /\ GoIdle(txQueue', NoPacket, setMacState)
        /\ UNCHANGED access
     \/ /\ PrepareRetransmission
        /\ GoCsma
        /\ UNCHANGED <<txPkt, setMacState>>
  /\ UNCHANGED <<starts, others, heard>>

(* The channel access reports CHANNEL_IDLE, which only MAC_CSMA heeds.     *)
ChannelIdle ==
  /\ access > 0
  /\ access' = access - 1
  /\ IF macState = "CSMA"
       THEN GoSending(txPkt, setMacState)
       ELSE UNCHANGED <<macState, setMacState, queue, radio>>
  /\ UNCHANGED <<ackWaitTimeout, starts, others, heard>>

(* Mutant of ChannelAccessFailure, which leaves the frame in the queue.    *)
ChannelAccessFailureKeepsFrame ==
  /\ access > 0
  /\ access' = access - 1
  /\ IF macState = "CSMA"
       THEN /\ txPkt' = NoPacket
            /\ macState' = "IDLE"
       ELSE UNCHANGED <<macState, txPkt>>
  /\ UNCHANGED <<txQueue, retransmission, sent, lastStatus, setMacState, radio,
                 ackWaitTimeout, starts, others, heard>>

(* The frame is dropped and the MAC goes idle without CheckQueue.  A CCA   *)
(* refused for one access takes the answer of another that runs.           *)
ChannelAccessFailure ==
  /\ access > 0
  /\ access' \in {access - 1} \union {n \in {access - 2} : access > 1}
  /\ IF macState = "CSMA"
       THEN /\ txPkt # NoPacket
            /\ RemoveFirstTxQElement("CHANNEL_ACCESS_FAILURE")
            /\ txPkt' = NoPacket
            /\ macState' = "IDLE"
       ELSE UNCHANGED <<macState, queue>>
  /\ UNCHANGED <<setMacState, radio, ackWaitTimeout, starts, others, heard>>

(* Of two accesses that run together one may absorb the other.             *)
AccessAbsorbed ==
  /\ access > 1
  /\ access' = access - 1
  /\ UNCHANGED <<macState, setMacState, queue, ackWaitTimeout, radio, starts,
                 others, heard>>

(* A Start that the MAC scheduled itself.                                  *)
StartFires ==
  /\ starts > 0
  /\ starts' = starts - 1
  /\ access' = access + 1
  /\ UNCHANGED <<macState, setMacState, queue, ackWaitTimeout, radio, others,
                 heard>>
-----------------------------------------------------------------------------
(* PdDataIndication, by what was received.  What a reception schedules     *)
(* happens before the next one ends.                                       *)

(* What the MAC gives up for a frame that asks for an ACK: the wait for    *)
(* its own ACK, or the channel access.  A CCA that runs cannot be          *)
(* cancelled: its access may still be answered.                            *)
Interrupted ==
  \/ /\ macState = "IDLE"
     /\ UNCHANGED <<queue, ackWaitTimeout, access>>
  \/ /\ macState = "ACK_PENDING"
     /\ ackWaitTimeout' = FALSE
     /\ \/ GiveUp /\ txPkt' = NoPacket
        \/ PrepareRetransmission /\ UNCHANGED txPkt
     /\ UNCHANGED access
  \/ /\ macState = "CSMA"
     /\ access' \in 0 .. access
     /\ UNCHANGED <<queue, ackWaitTimeout>>

NothingJustReceived ==
  \/ setMacState = "none"
  \/ macState = "IDLE" /\ setMacState \in {"CSMA", "Direct"}

ReceiveAckReqFrame ==
  /\ Trx!Receiving /\ NothingJustReceived
  /\ heard < MaxHeard
  /\ heard' = heard + 1
  /\ Interrupted
  /\ macState' = "IDLE"
  /\ setMacState' = "SendAck"
  /\ Trx!EndReception
  /\ UNCHANGED <<starts, others>>

(* PdDataIndication returns before it sends the ACK: only the coordinator  *)
(* answers a GTS request.                                                  *)
OverhearGtsRequest ==
  /\ "overhear" \in ClientOps
  /\ Trx!Receiving /\ NothingJustReceived
  /\ heard < MaxHeard
  /\ heard' = heard + 1
  /\ Interrupted
  /\ overheard' = TRUE
  /\ Trx!EndReception
  /\ UNCHANGED <<macState, setMacState, starts, rxOnWhenIdle, gtsFrame>>

(* Mutant of ReceiveAck, which leaves the timer running.                   *)
ReceiveAckKeepsTimer ==
  /\ Trx!Receiving /\ NothingJustReceived
  /\ macState = "ACK_PENDING" /\ txPkt # NoPacket
  /\ RemoveFirstTxQElement("SUCCESS")
  /\ txPkt' = NoPacket
  /\ setMacState' = "IDLE"
  /\ Trx!EndReception
  /\ UNCHANGED <<macState, ackWaitTimeout, csmaCa, others, heard>>

(* An ACK, with the sequence number of the frame that waits for it.        *)
ReceiveAck ==
  /\ Trx!Receiving /\ NothingJustReceived
  /\ macState = "ACK_PENDING" /\ txPkt # NoPacket
  /\ ackWaitTimeout' = FALSE
  /\ RemoveFirstTxQElement("SUCCESS")
  /\ txPkt' = NoPacket
  /\ setMacState' = "IDLE"
  /\ Trx!EndReception
  /\ UNCHANGED <<macState, csmaCa, others, heard>>

(* Mutant of ReceiveOtherAck, which stops the timer and nothing more.      *)
ReceiveOtherAckStopsTimer ==
  /\ Trx!Receiving /\ NothingJustReceived
  /\ macState = "ACK_PENDING" /\ txPkt # NoPacket
  /\ ackWaitTimeout' = FALSE
  /\ Trx!EndReception
  /\ UNCHANGED <<macState, setMacState, queue, csmaCa, others, heard>>

(* Any other ACK, such as one meant for another device.                    *)
ReceiveOtherAck ==
  /\ Trx!Receiving /\ NothingJustReceived
  /\ macState = "ACK_PENDING" /\ txPkt # NoPacket
  /\ ackWaitTimeout' = FALSE
  /\ \/ GiveUp /\ txPkt' = NoPacket /\ setMacState' = "IDLE"
     \/ PrepareRetransmission /\ UNCHANGED txPkt /\ setMacState' = "CSMA"
  /\ Trx!EndReception
  /\ UNCHANGED <<macState, csmaCa, others, heard>>

(* OneSuperframeProcess: the front of the queue, if any, is tried again,   *)
(* and a frame of the GTS queue, if any, is scheduled for its slot.        *)
ReceiveBeacon ==
  /\ "receiveBeacon" \in ClientOps
  /\ Trx!Receiving /\ NothingJustReceived
  /\ macState # "SENDING"
  /\ access + starts < MaxAccess
  /\ gtsFrame = NoPacket
  /\ gtsFrame' \in {NoPacket} \union {f \in Frames : "gtsFrames" \in ClientOps}
  /\ IF txQueue = <<>> THEN UNCHANGED <<txPkt, starts>>
                       ELSE txPkt' = Head(txQueue) /\ starts' = starts + 1
  /\ Trx!EndReception
  /\ UNCHANGED <<macState, setMacState, txQueue, retransmission, sent,
                 lastStatus, ackWaitTimeout, access, rxOnWhenIdle, overheard,
                 heard>>
-----------------------------------------------------------------------------
(* Operations of the upper layer and of the timers above it.               *)

(* The end of McpsDataRequest, and of both associate operations.           *)
Enqueue(f) ==
  /\ Len(txQueue) < MaxQueue
  /\ f \notin ToSet(txQueue)
  /\ txQueue' = Append(txQueue, f)
  /\ CheckQueue(macState, txQueue', txPkt, setMacState)
  /\ UNCHANGED <<macState, retransmission, sent, ackWaitTimeout, radio,
                 csmaCa, others, heard>>

(* MlmeAssociateRequest and MlmeAssociateResponse.                         *)
MlmeAssociate(f) == Enqueue(f) /\ UNCHANGED lastStatus

(* McpsDataRequest of a slotted device that is not associated, or for a    *)
(* GTS (after the MlmeGtsRequest that the latter may make first).  Like    *)
(* every branch that accepts a frame it confirms SUCCESS at once.          *)
McpsDataRequestQueued(f) == Enqueue(f) /\ lastStatus' = "SUCCESS"

(* The other branches confirm SUCCESS and queue the frame, and then run    *)
(* into the code that queues it again and calls CheckQueue.  A slotted     *)
(* device starts the access only if it believes to be in the CAP.          *)
McpsDataRequest(f) ==
  /\ "dataRequest" \in ClientOps
  /\ Len(txQueue) + 1 < MaxQueue
  /\ f \notin ToSet(txQueue)
  /\ access + starts < MaxAccess
  /\ txQueue' = txQueue \o <<f, f>>
  /\ \/ /\ txQueue = <<>>
        /\ txPkt' = f
        /\ starts' \in {starts, starts + 1}
        /\ UNCHANGED setMacState
     \/ /\ txQueue # <<>>
        /\ CheckQueue(macState, txQueue', txPkt, setMacState)
        /\ UNCHANGED starts
  /\ lastStatus' = "SUCCESS"
  /\ UNCHANGED <<macState, retransmission, sent, ackWaitTimeout, radio,
                 access, others, heard>>

(* The request of a GTS is queued without CheckQueue.                      *)
MlmeGtsRequest(f) ==
  /\ "gtsRequest" \in ClientOps
  /\ f \in AckFrames
  /\ Len(txQueue) < MaxQueue
  /\ f \notin ToSet(txQueue)
  /\ access + starts < MaxAccess
  /\ txQueue' = Append(txQueue, f)
  /\ \/ txQueue = <<>> /\ txPkt' = f /\ starts' = starts + 1
     \/ UNCHANGED <<txPkt, starts>>
  /\ UNCHANGED <<macState, setMacState, retransmission, sent, lastStatus,
                 ackWaitTimeout, radio, access, others, heard>>

(* The coordinator goes idle whatever it was doing; the timer for an ACK   *)
(* keeps running.                                                          *)
SendOneBeacon ==
  /\ "sendBeacon" \in ClientOps
  /\ access + starts < MaxAccess
  /\ macState' = "IDLE"
  /\ setMacState' = "Direct"
  /\ IF txQueue = <<>> THEN UNCHANGED <<txPkt, starts>>
                       ELSE txPkt' = Head(txQueue) /\ starts' = starts + 1
  /\ UNCHANGED <<txQueue, retransmission, sent, lastStatus, ackWaitTimeout,
                 radio, access, others, heard>>

SetRxOnWhenIdle(v) ==
  /\ rxOnWhenIdle' = v
  /\ IF macState = "IDLE"
       THEN RequestIdleState(v)
       ELSE UNCHANGED radio
  /\ UNCHANGED <<macState, setMacState, queue, ackWaitTimeout, csmaCa,
                 gtsFrame, overheard, heard>>
-----------------------------------------------------------------------------
(* The states in which an event is scheduled whose handler reaches an      *)
(* assertion, a fatal error or the front of an empty queue.  Such an event *)
(* is no action: the program would end there.                              *)

(* PdDataRequest finds the transmitter busy, and confirms that to          *)
(* PdDataConfirm, which takes it for a fatal error; or the frame is too    *)
(* long and not of the queue.                                              *)
SendingFails ==
  \/ trxState = "BUSY_TX" /\ setMacState \in {"SendAck", "Direct"}
  \/ trxState = "BUSY_TX" /\ gtsFrame \in Frames \ TooLong
  \/ trxState = "BUSY_TX" /\ macState = "CSMA" /\ access > 0
  \/ trxState # "RX_ON" /\ gtsFrame \in TooLong /\ txQueue = <<>>

SetMacStateFails ==
  \/ setMacState = "SendAck" /\ macState # "IDLE"
  \/ setMacState = "CSMA" /\ macState \notin {"IDLE", "ACK_PENDING"}

AckWaitTimeoutFails ==
  /\ ackWaitTimeout /\ setMacState # "ACK_PENDING"
  /\ IF retransmission < macMaxFrameRetries
       THEN macState \notin {"IDLE", "ACK_PENDING"}
       ELSE txQueue = <<>>

TrxConfirmFails ==
  /\ trxRequest # "none" /\ trxState # "BUSY_TX"
  /\ \/ macState # "SENDING" /\ trxRequest = "TX_ON"
     \/ macState = "SENDING" /\ trxRequest # "TX_ON"
     \/ macState = "SENDING" /\ txPkt = NoPacket
     \/ macState = "SENDING" /\ txPkt \in TooLong /\ txQueue = <<>>

EndTxFails ==
  /\ trxState = "BUSY_TX"
  /\ \/ macState # "SENDING"
     \/ txPkt = NoPacket
     \/ txPkt \in AckFrames /\ ackWaitTimeout
     \/ txPkt \in Frames \ AckFrames /\ txQueue = <<>>

IndicationFails ==
  /\ Trx!Receiving /\ NothingJustReceived
  /\ \/ macState = "SENDING"
     \/ macState = "ACK_PENDING" /\ txPkt # NoPacket /\ txQueue = <<>>

AccessFails ==
  /\ macState = "CSMA" /\ access > 0
  /\ txPkt = NoPacket \/ txQueue = <<>>
-----------------------------------------------------------------------------
SetMacStateEvent ==
  SetIdle \/ SetAckPending \/ SetCsma \/ SendAck \/ TransmitBeacon

AccessAnswered == ChannelIdle \/ ChannelAccessFailure

Reception ==
  \/ ReceiveAckReqFrame
  \/ OverhearGtsRequest
  \/ ReceiveAck
  \/ ReceiveOtherAck
  \/ ReceiveBeacon

Request ==
  \/ \E f \in Frames : MlmeAssociate(f) \/ McpsDataRequestQueued(f)
                      \/ McpsDataRequest(f) \/ MlmeGtsRequest(f)
  \/ SendOneBeacon
  \/ \E v \in BOOLEAN : SetRxOnWhenIdle(v)

Next ==
  \/ SetMacStateEvent
  \/ DirectTransmission
  \/ TrxConfirm
  \/ EndTx
  \/ AckWaitTimeout
  \/ AccessAnswered
  \/ AccessAbsorbed
  \/ StartFires
  \/ Reception
  \/ Request

(* The simulator runs every scheduled event, and the channel access        *)
(* answers (see ChannelAccess).                                            *)
Fairness ==
  /\ WF_vars(SetMacStateEvent)
  /\ WF_vars(TrxConfirm)
  /\ WF_vars(EndTx)
  /\ WF_vars(AckWaitTimeout)
  /\ WF_vars(AccessAnswered)
  /\ WF_vars(StartFires)
  /\ WF_vars(DirectTransmission)

Spec == Init /\ [][Next]_vars /\ Fairness
-----------------------------------------------------------------------------
TypeOK ==
  /\ macState \in MacStates
  /\ setMacState \in {"none", "IDLE", "CSMA", "ACK_PENDING", "SendAck", "Direct"}
  /\ txQueue \in Seq(Frames)
  /\ txPkt \in Frames \union {Ack, Beacon, NoPacket}
  /\ retransmission \in Nat
  /\ ackWaitTimeout \in BOOLEAN
  /\ rxOnWhenIdle \in BOOLEAN
  /\ trxState \in {"TRX_OFF", "RX_ON", "TX_ON", "BUSY_TX"}
  /\ trxRequest \in {"none", "TRX_OFF", "RX_ON", "TX_ON"}
  /\ access \in Nat
  /\ starts \in Nat
  /\ gtsFrame \in Frames \union {NoPacket}
  /\ heard \in 0 .. MaxHeard
  /\ sent \in Nat
  /\ lastStatus \in Statuses \union {"none"}
  /\ overheard \in BOOLEAN

(* No NS_ASSERT and no NS_FATAL_ERROR of the MAC is reached, and the front *)
(* of the queue is never asked for when the queue is empty.                *)
NoAssertFails ==
  /\ ~SendingFails
  /\ ~SetMacStateFails
  /\ ~AckWaitTimeoutFails
  /\ ~TrxConfirmFails
  /\ ~EndTxFails
  /\ ~IndicationFails
  /\ ~AccessFails

(* What is contending for the channel, or waiting for an ACK, is the front *)
(* of the queue, which is what a confirm is about; what is being sent is   *)
(* that frame or an ACK.                                                   *)
CurrentIsFront ==
  /\ macState \in {"CSMA", "ACK_PENDING"} /\ setMacState # "IDLE"
       => txQueue # <<>> /\ txPkt = Head(txQueue)
  /\ macState = "SENDING" /\ txPkt \in Frames
       => txQueue # <<>> /\ txPkt = Head(txQueue)

(* A MAC that is not idle has an event scheduled, here or below, that will *)
(* take it further: cancelling an access or a timer without going idle     *)
(* would leave it waiting for ever.                                        *)
EveryWaitEnds ==
  /\ macState = "CSMA" => access > 0 \/ trxRequest = "RX_ON"
  /\ macState = "ACK_PENDING" => ackWaitTimeout \/ setMacState # "none"
  /\ macState = "SENDING" =>
       \/ trxRequest = "TX_ON"
       \/ trxState = "BUSY_TX"
       \/ setMacState # "none"

(* The same, whatever the operations used, as long as no GTS request of    *)
(* another device was overheard.                                           *)
WaitEndsUnlessOverheard == ~overheard => EveryWaitEnds

(* An idle MAC with frames queued is about to start on them.  The one      *)
(* exception: after CHANNEL_ACCESS_FAILURE nothing calls CheckQueue.       *)
IdleQueueOnlyAfterFailure ==
  macState = "IDLE" /\ txQueue # <<>> /\ setMacState = "none"
    => lastStatus = "CHANNEL_ACCESS_FAILURE"

(* The confirm with which a frame leaves the queue tells the truth:        *)
(* SUCCESS only for a frame that was sent, NO_ACK only for one that was    *)
(* sent macMaxFrameRetries + 1 times, each of which went unanswered.  No   *)
(* frame is sent more often.  It says nothing of the SUCCESS that          *)
(* McpsDataRequest has confirmed before (see ConfirmedOnceSent).           *)
ConfirmTruthful ==
  [][ /\ sent' <= macMaxFrameRetries + 1
      /\ Len(txQueue') < Len(txQueue) =>
           /\ lastStatus' = "SUCCESS" => sent \in 1 .. macMaxFrameRetries + 1
           /\ lastStatus' = "NO_ACK" => sent = macMaxFrameRetries + 1 ]_vars

(* The frame the MAC has taken up leaves the queue, with a confirm: the    *)
(* retries end, and the ACKs it must send in between do not make it forget *)
(* the frame.                                                              *)
FrontIsServed ==
  \A f \in Frames : (txPkt = f) ~> (f \notin ToSet(txQueue))

(* lr-wpan-mac.h on the status that McpsDataConfirm brings: the status of  *)
(* the last MSDU transmission.                                             *)
ConfirmedOnceSent ==
  [][ lastStatus' = "SUCCESS" /\ lastStatus # "SUCCESS"
        => Len(txQueue') < Len(txQueue) ]_vars

(* The channel is assessed in order to send: a MAC that is told that it is *)
(* idle sends.                                                             *)
GrantIsUsed == [][ ChannelIdle => macState' = "SENDING" ]_vars
=============================================================================
