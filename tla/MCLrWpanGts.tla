---------------------------- MODULE MCLrWpanGts ----------------------------
(***************************************************************************)
(* Instances of LrWpanGts for TLC.  The lengths are chosen so that several *)
(* requests fit, and so that the largest one is larger than a CAP that     *)
(* others have shortened to the minimum.                                   *)
(***************************************************************************)
EXTENDS LrWpanGts, TLC

CONSTANTS d1, d2, d3

MCDevices == {d1, d2, d3}
MCLengths == {1, 7, 9}

DeviceSymmetry == Permutations(MCDevices)
=============================================================================
