-------------------------- MODULE LrWpanTransceiver --------------------------
(***************************************************************************)
(* The transceiver of model/lr-wpan-phy.cc as the MAC sees it: a state     *)
(* request is confirmed before it returns, or later, after a turnaround or *)
(* at the end of a frame; the request made last is the only one that is    *)
(* confirmed.  Receiving a frame counts as RX_ON.                          *)
(*                                                                         *)
(* LrWpanMac is built on these operators, and LrWpanPhy implements Spec    *)
(* for a MAC that neither forces the transceiver off nor changes channels. *)
(***************************************************************************)
VARIABLES
  trxState,     \* the state of the transceiver
  trxRequest    \* the state that will be confirmed, or "none"

vars == <<trxState, trxRequest>>

States   == {"TRX_OFF", "RX_ON", "TX_ON", "BUSY_TX"}
Requests == {"TRX_OFF", "RX_ON", "TX_ON"}

Init ==
  /\ trxState = "TRX_OFF"
  /\ trxRequest = "none"

(* PlmeSetTRXStateRequest confirms before it returns.                      *)
Granted(state) ==
  /\ \/ state = "RX_ON" /\ trxState = "RX_ON"
     \/ state = "TX_ON" /\ trxState # "RX_ON"
     \/ state = "TRX_OFF" /\ trxState # "BUSY_TX"
  /\ trxState' = IF trxState = "BUSY_TX" THEN trxState ELSE state
  /\ trxRequest' = "none"

(* It confirms after a turnaround, or once a frame is sent or received.    *)
PutOff(state) ==
  /\ \/ state = "RX_ON" /\ trxState # "RX_ON"
     \/ state = "TX_ON" /\ trxState = "RX_ON"
     \/ state = "TRX_OFF" /\ trxState \in {"BUSY_TX", "RX_ON"}
  /\ trxRequest' = state
  /\ UNCHANGED trxState

(* The confirm that was put off.  While a frame is sent, EndTx comes first.*)
Confirm ==
  /\ trxRequest # "none" /\ trxState # "BUSY_TX"
  /\ trxState' = trxRequest
  /\ trxRequest' = "none"

(* PdDataRequest of a MAC whose request for the transmitter was confirmed. *)
Transmit ==
  /\ trxState = "TX_ON"
  /\ trxState' = "BUSY_TX"
  /\ UNCHANGED trxRequest

EndTx ==
  /\ trxState = "BUSY_TX"
  /\ trxState' = IF trxRequest = "none" THEN "TX_ON" ELSE trxRequest
  /\ trxRequest' = "none"

Next ==
  \/ \E state \in Requests : Granted(state) \/ PutOff(state)
  \/ Confirm
  \/ Transmit
  \/ EndTx

Spec == Init /\ [][Next]_vars
-----------------------------------------------------------------------------
(* Can a frame reach PdDataIndication?  A request for TX_ON destroys it.   *)
Receiving == trxState = "RX_ON" /\ trxRequest # "TX_ON"

(* The end of a reception applies the TRX_OFF that was waiting for it.     *)
EndReception ==
  /\ trxState' = IF trxRequest = "none" THEN trxState ELSE trxRequest
  /\ trxRequest' = "none"
=============================================================================
