---------------------------- MODULE ChannelAccess ----------------------------
(***************************************************************************)
(* What the MAC expects of a channel access algorithm, whatever that       *)
(* algorithm does inside: a requested access is answered at most once,     *)
(* with CHANNEL_IDLE or CHANNEL_ACCESS_FAILURE, an access that was         *)
(* withdrawn is not answered at all, and an access that is left alone is   *)
(* eventually answered.                                                    *)
(*                                                                         *)
(* LrWpanCsmaCa is shown to implement this for a MAC that does not         *)
(* withdraw an access during a clear channel assessment.                   *)
(***************************************************************************)
VARIABLES
  pending,   \* has the MAC requested an access that is not answered yet?
  verdict    \* the answer to the last access, or "none"

vars == <<pending, verdict>>

Verdicts == {"CHANNEL_IDLE", "CHANNEL_ACCESS_FAILURE"}

TypeOK ==
  /\ pending \in BOOLEAN
  /\ verdict \in Verdicts \union {"none"}

Init ==
  /\ pending = FALSE
  /\ verdict = "none"

Request ==
  /\ ~pending
  /\ pending' = TRUE
  /\ verdict' = "none"

Withdraw ==
  /\ pending
  /\ pending' = FALSE
  /\ verdict' = "none"

Answer ==
  /\ pending
  /\ pending' = FALSE
  /\ verdict' \in Verdicts

Next == Request \/ Withdraw \/ Answer

(* An access nobody withdraws is answered. *)
Spec == Init /\ [][Next]_vars /\ WF_vars(Answer)
=============================================================================
