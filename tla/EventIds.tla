------------------------------ MODULE EventIds ------------------------------
(***************************************************************************)
(* The part of the ns-3 simulator the module uses: an EventId member that  *)
(* a component assigns from Simulator::Schedule.                           *)
(*                                                                         *)
(* An EventId holds the event assigned last.  Scheduling again through the *)
(* same member does not cancel the event it held: that event becomes an    *)
(* orphan, which no Cancel reaches and which still fires.                  *)
(***************************************************************************)
EXTENDS Naturals

EventIdType == [held : BOOLEAN, orphans : Nat]

NoEvent == [held |-> FALSE, orphans |-> 0]

Scheduled(id) ==
  [held    |-> TRUE,
   orphans |-> IF id.held THEN id.orphans + 1 ELSE id.orphans]

Cancelled(id) == [id EXCEPT !.held = FALSE]

(* IsRunning, and the negation of IsExpired, of the event held.            *)
IsRunning(id) == id.held

(* What is left once one of the scheduled events has fired.                *)
AfterFiring(id) ==
  {left \in {Cancelled(id)} : id.held}
    \union
  {left \in {[id EXCEPT !.orphans = id.orphans - 1]} : id.orphans > 0}

EventCount(id) == id.orphans + (IF id.held THEN 1 ELSE 0)

Live(id) == id.held \/ id.orphans > 0
=============================================================================
