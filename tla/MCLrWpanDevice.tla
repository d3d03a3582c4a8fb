---------------------------- MODULE MCLrWpanDevice ----------------------------
(***************************************************************************)
(* Instances of LrWpanDevice for TLC: a frame that asks for an ACK and one *)
(* that does not.                                                          *)
(***************************************************************************)
EXTENDS LrWpanDevice

CONSTANTS acked, plain

MCFrames == {acked, plain}
MCAckFrames == {acked}
MCTooLong == {}

ThroughQueue == {}
(* All of BypassingOps.                                                    *)
Bypassing ==
  {"dataRequest", "gtsRequest", "sendBeacon", "receiveBeacon", "gtsFrames",
   "overhear"}
=============================================================================
