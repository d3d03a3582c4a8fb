--------------------------- MODULE MCLrWpanCsmaCa ---------------------------
(***************************************************************************)
(* Instances of LrWpanCsmaCa for TLC.  The limits keep their default       *)
(* values (macMaxBE 5, up to 4 backoffs); the settings offer a smaller and *)
(* a larger value of each, so that a setting may change under an access.   *)
(***************************************************************************)
EXTENDS LrWpanCsmaCa

MCMinBESettings == {0, 3}
MCMaxBESettings == {8}
MCBackoffSettings == {0, 4}
NoSettings == {}

Disciplined == {}
Undisciplined == UndisciplinedOps
OneMinBE == {3}
OneBackoff == {1}
CancelDuringCca == {"cancelCca"}
=============================================================================
