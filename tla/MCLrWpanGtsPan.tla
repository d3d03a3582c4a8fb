---------------------------- MODULE MCLrWpanGtsPan ----------------------------
(***************************************************************************)
(* Instances of LrWpanGtsPan for TLC: both devices fit at once whichever   *)
(* lengths they ask for, and a scheduled deallocation may free more or     *)
(* fewer slots than the descriptor it removes has.                         *)
(***************************************************************************)
EXTENDS LrWpanGtsPan, TLC

CONSTANTS d1, d2

MCDevices == {d1, d2}
MCLengths == {2, 5}

DeviceSymmetry == Permutations(MCDevices)
=============================================================================
