------------------------- MODULE MCLrWpanAssociation -------------------------
(***************************************************************************)
(* Instances of LrWpanAssociation for TLC: two devices in the PAN; or one, *)
(* and as many devices that count as beacons may be lost.                  *)
(***************************************************************************)
EXTENDS LrWpanAssociation

CONSTANTS d1, d2, d3, d4, a1, a2

TwoDevices == {d1, d2}
FourDevices == {d1, d2, d3, d4}
OneInPan == {d1}
MCAddresses == {a1, a2}
=============================================================================
