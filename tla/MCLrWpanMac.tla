---------------------------- MODULE MCLrWpanMac ----------------------------
(***************************************************************************)
(* Instances of LrWpanMac for TLC: a frame that asks for an ACK, one that  *)
(* does not, and one that is too long to be sent.                          *)
(***************************************************************************)
EXTENDS LrWpanMac

CONSTANTS acked, plain, long

MCFrames == {acked, plain, long}
MCAckFrames == {acked}
MCTooLong == {long}

TwoFrames == {acked, plain}
NoFrame == {}

ThroughQueue == {}
DataRequest == {"dataRequest"}
Overhear == {"overhear"}
ReceiveBeacons == {"receiveBeacon"}
Bypassing == BypassingOps
=============================================================================
