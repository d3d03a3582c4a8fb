---------------------------- MODULE MCLrWpanPhy ----------------------------
(***************************************************************************)
(* Instances of LrWpanPhy for TLC: two frames and one foreign signal, so   *)
(* that a frame may be overlapped by another and by interference.          *)
(***************************************************************************)
EXTENDS LrWpanPhy

CONSTANTS frame1, frame2, jammer

MCSignals == {frame1, frame2, jammer}
MCForeign == {jammer}
MCStrong == {frame1, jammer}

Disciplined == {}
Undisciplined == UndisciplinedOps
NoStrong == {}
SetChannel == {"setChannel"}
TxOnInRx == {"txOnInRx"}
=============================================================================
