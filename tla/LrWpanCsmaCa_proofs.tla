------------------------ MODULE LrWpanCsmaCa_proofs ------------------------
(***************************************************************************)
(* Proofs about LrWpanCsmaCa for every value of its constants.             *)
(***************************************************************************)
EXTENDS LrWpanCsmaCa, TLAPS

(* A scheduled, a cancelled and a fired EventId is an EventId.             *)
LEMMA EventIdTypes ==
  ASSUME NEW id \in EventIdType
  PROVE  /\ Scheduled(id) \in EventIdType
         /\ Cancelled(id) \in EventIdType
         /\ AfterFiring(id) \subseteq EventIdType
<1>1. Scheduled(id) \in EventIdType
  BY DEF EventIdType, Scheduled
<1>2. Cancelled(id) \in EventIdType
  BY DEF EventIdType, Cancelled
<1>3. ASSUME id.orphans > 0
      PROVE  [id EXCEPT !.orphans = id.orphans - 1] \in EventIdType
  BY <1>3 DEF EventIdType
<1>4. QED
  BY <1>1, <1>2, <1>3 DEF AfterFiring

(* The operators on the function of scheduled events keep its type.        *)
LEMMA EventFunctionTypes ==
  ASSUME NEW e \in [Kinds -> EventIdType], NEW k \in Kinds
  PROVE  /\ Schedule(e, k) \in [Kinds -> EventIdType]
         /\ CancelEvent(e, k) \in [Kinds -> EventIdType]
  BY EventIdTypes DEF Schedule, CancelEvent

LEMMA FireType ==
  ASSUME event \in [Kinds -> EventIdType], NEW k \in Kinds, NEW e \in Fire(k)
  PROVE  e \in [Kinds -> EventIdType]
<1>1. AfterFiring(event[k]) \subseteq EventIdType
  BY EventIdTypes
<1>2. PICK left \in AfterFiring(event[k]) : e = [event EXCEPT ![k] = left]
  BY DEF Fire
<1>3. QED
  BY <1>1, <1>2

(* What PlmeCcaConfirm does to the types, whoever calls it.                *)
LEMMA ConfirmType ==
  ASSUME TypeOK,
         NEW status, NEW e \in [Kinds -> EventIdType], NEW running \in BOOLEAN,
         PlmeCcaConfirm(status, e, running)
  PROVE  TypeOK'
<1> USE CsmaAssumption DEF TypeOK, settings
<1>1. CASE ~running
  BY <1>1 DEF PlmeCcaConfirm, client
<1>2. CASE running /\ status = "IDLE"
  <2>1. ConfirmIdle(e) /\ ccaRequestRunning' = FALSE
        /\ UNCHANGED <<settings, startBE>>
    BY <1>2 DEF PlmeCcaConfirm
  <2>2. CW' \in 0 .. 255 /\ idleRun' \in 0 .. 2
    BY <2>1 DEF ConfirmIdle, Smaller
  <2>3. event' \in [Kinds -> EventIdType]
    BY <2>1, EventFunctionTypes DEF ConfirmIdle, Report, Continue, Kinds
  <2>4. pending' \in BOOLEAN /\ verdict' \in Verdicts \union {"none"}
    BY <2>1 DEF ConfirmIdle, Report, Continue, client, Verdicts
  <2>5. QED
    BY <2>1, <2>2, <2>3, <2>4 DEF ConfirmIdle
<1>3. CASE running /\ status # "IDLE"
  <2>1. ConfirmNotIdle(e) /\ ccaRequestRunning' = FALSE
        /\ UNCHANGED <<settings, startBE>>
    BY <1>3 DEF PlmeCcaConfirm
  <2>2. /\ CW' \in 0 .. 255 /\ idleRun' \in 0 .. 2 /\ BE' \in Nat
        /\ NB' \in Nat /\ busyCount' \in Nat
    BY <2>1 DEF ConfirmNotIdle, Smaller
  <2>3. event' \in [Kinds -> EventIdType]
    BY <2>1, EventFunctionTypes DEF ConfirmNotIdle, Report, Continue, Kinds
  <2>4. pending' \in BOOLEAN /\ verdict' \in Verdicts \union {"none"}
    BY <2>1 DEF ConfirmNotIdle, Report, Continue, client, Verdicts
  <2>5. QED
    BY <2>1, <2>2, <2>3, <2>4 DEF ConfirmNotIdle
<1>4. QED
  BY <1>1, <1>2, <1>3

(* The module is type correct: in particular m_CW stays a uint8_t and      *)
(* every EventId counts its events, whatever the client does.              *)
THEOREM TypeCorrect == Spec => []TypeOK
<1>1. Init => TypeOK
  <2>1. NoEvent \in EventIdType
    BY DEF NoEvent, EventIdType
  <2> SUFFICES ASSUME Init PROVE TypeOK
    OBVIOUS
  <2>2. event \in [Kinds -> EventIdType]
    BY <2>1 DEF Init, InitWith
  <2>3. /\ CW \in 0 .. 255 /\ macMaxCSMABackoffs \in 0 .. 254
        /\ idleRun \in 0 .. 2 /\ NB \in Nat /\ BE \in Nat
        /\ macMinBE \in Nat /\ busyCount \in Nat /\ startBE \in Nat
    BY DEF Init, InitWith
  <2>4. isSlotted \in BOOLEAN /\ ccaRequestRunning \in BOOLEAN
        /\ pending \in BOOLEAN /\ verdict \in Verdicts \union {"none"}
    BY DEF Init, InitWith
  <2>5. QED
    BY <2>2, <2>3, <2>4 DEF TypeOK
<1>2. TypeOK /\ [Next]_vars => TypeOK'
  <2> SUFFICES ASSUME TypeOK, [Next]_vars PROVE TypeOK'
    OBVIOUS
  <2>0. event \in [Kinds -> EventIdType] /\ ccaRequestRunning \in BOOLEAN
    BY DEF TypeOK
  <2>1. CASE Start
    BY <2>0, <2>1, EventFunctionTypes DEF Start, TypeOK, settings, Kinds
  <2>2. CASE Cancel
    <3>1. event' \in [Kinds -> EventIdType]
      BY <2>0, <2>2, EventIdTypes DEF Cancel
    <3>2. QED
      BY <2>2, <3>1 DEF Cancel, TypeOK, settings, history
  <2>3. CASE SetSlottedCsmaCa \/ SetUnSlottedCsmaCa
    <3>1. /\ isSlotted' \in BOOLEAN
          /\ UNCHANGED <<algorithm, macMinBE, macMaxCSMABackoffs, client,
                         history>>
      BY <2>3 DEF SetSlottedCsmaCa, SetUnSlottedCsmaCa
    <3>2. QED
      BY <3>1 DEF TypeOK, algorithm, client, history
  <2>4. CASE \E v \in MinBESettings : SetMacMinBE(v)
    BY <2>4, CsmaAssumption DEF SetMacMinBE, TypeOK, algorithm, client, history
  <2>5. CASE \E v \in MaxBESettings : SetMacMaxBE(v)
    BY <2>5, CsmaAssumption DEF SetMacMaxBE, TypeOK, algorithm, client, history
  <2>6. CASE \E v \in BackoffSettings : SetMacMaxCSMABackoffs(v)
    BY <2>6, CsmaAssumption
    DEF SetMacMaxCSMABackoffs, TypeOK, algorithm, client, history
  <2>7. CASE RandomBackoffDelay
    <3>1. event' \in [Kinds -> EventIdType]
      BY <2>0, <2>7, FireType, EventFunctionTypes
      DEF RandomBackoffDelay, Kinds
    <3>2. QED
      BY <2>7, <3>1 DEF RandomBackoffDelay, TypeOK, settings, client, history
  <2>8. CASE CanProceed
    <3>1. event' \in [Kinds -> EventIdType]
      BY <2>0, <2>8, FireType, EventFunctionTypes DEF CanProceed, Kinds
    <3>2. QED
      BY <2>8, <3>1 DEF CanProceed, TypeOK, settings, client, history
  <2>9. CASE RequestCCA
    <3>1. event' \in [Kinds -> EventIdType]
      BY <2>0, <2>9, FireType, EventFunctionTypes DEF RequestCCA, Kinds
    <3>2. QED
      BY <2>9, <3>1 DEF RequestCCA, TypeOK, settings, client, history
  <2>10. CASE RequestCCARefused
    BY <2>0, <2>10, FireType, ConfirmType DEF RequestCCARefused, Kinds
  <2>11. CASE EndCca
    BY <2>0, <2>11, FireType, ConfirmType DEF EndCca, Kinds
  <2>12. CASE AbortCca
    BY <2>0, <2>12, EventFunctionTypes, ConfirmType DEF AbortCca, Kinds
  <2>13. CASE UNCHANGED vars
    BY <2>13 DEF TypeOK, vars, algorithm, settings, client, history
  <2>14. QED
    BY <2>1, <2>2, <2>3, <2>4, <2>5, <2>6, <2>7, <2>8, <2>9, <2>10, <2>11,
       <2>12, <2>13 DEF Next
<1>3. QED
  BY <1>1, <1>2, PTL DEF Spec
-----------------------------------------------------------------------------
(* However the client misuses the algorithm, an access that waits for a    *)
(* verdict still has a step whose outcome counts: overlapping Starts and   *)
(* a Cancel in the middle of a CCA can drop a CCA result, never the last   *)
(* one (PlmeCcaConfirm and the m_ccaRequestRunning it tests).  The         *)
(* invariant is inductive once the types are known.                        *)
LEMMA ScheduledIsLive ==
  ASSUME NEW e \in [Kinds -> EventIdType], NEW k \in Kinds
  PROVE  Live(Schedule(e, k)[k])
  BY EventIdTypes DEF Schedule, Scheduled, Live

LEMMA ConfirmNeverForgets ==
  ASSUME NEW status, NEW e \in [Kinds -> EventIdType],
         PlmeCcaConfirm(status, e, TRUE)
  PROVE  AccessNeverForgotten'
<1>1. CASE Report("CHANNEL_IDLE", e) \/ Report("CHANNEL_ACCESS_FAILURE", e)
  BY <1>1 DEF Report, AccessNeverForgotten
<1>2. CASE Continue("requestCca", e) \/ Continue("randomBackoff", e)
  BY <1>2, ScheduledIsLive DEF Continue, AccessNeverForgotten, Kinds
<1>3. QED
  BY <1>1, <1>2 DEF PlmeCcaConfirm, ConfirmIdle, ConfirmNotIdle

THEOREM NeverForgotten == Spec => []AccessNeverForgotten
<1>1. Init => AccessNeverForgotten
  BY DEF Init, InitWith, AccessNeverForgotten
<1>2. TypeOK /\ AccessNeverForgotten /\ [Next]_vars => AccessNeverForgotten'
  <2> SUFFICES ASSUME TypeOK, AccessNeverForgotten, [Next]_vars
               PROVE  AccessNeverForgotten'
    OBVIOUS
  <2>0. event \in [Kinds -> EventIdType] /\ ccaRequestRunning \in BOOLEAN
    BY DEF TypeOK
  <2>1. CASE Start
    BY <2>0, <2>1, ScheduledIsLive DEF Start, AccessNeverForgotten, Kinds
  <2>2. CASE Cancel
    BY <2>2 DEF Cancel, AccessNeverForgotten
  <2>3. CASE \/ SetSlottedCsmaCa \/ SetUnSlottedCsmaCa
             \/ \E v \in MinBESettings : SetMacMinBE(v)
             \/ \E v \in MaxBESettings : SetMacMaxBE(v)
             \/ \E v \in BackoffSettings : SetMacMaxCSMABackoffs(v)
             \/ UNCHANGED vars
    <3>1. UNCHANGED <<algorithm, client>>
      BY <2>3 DEF SetSlottedCsmaCa, SetUnSlottedCsmaCa, SetMacMinBE,
                  SetMacMaxBE, SetMacMaxCSMABackoffs, vars
    <3>2. QED
      BY <3>1 DEF algorithm, client, AccessNeverForgotten
  <2>4. CASE RandomBackoffDelay \/ CanProceed
    <3>1. PICK k \in Kinds \ {"endCca"}, e \in [Kinds -> EventIdType] :
            event' = Schedule(e, k)
      BY <2>0, <2>4, FireType DEF RandomBackoffDelay, CanProceed, Kinds
    <3>2. Live(event'[k])
      BY <3>1, ScheduledIsLive
    <3>3. QED
      BY <3>2 DEF AccessNeverForgotten
  <2>5. CASE RequestCCA
    BY <2>0, <2>5, FireType, ScheduledIsLive
    DEF RequestCCA, AccessNeverForgotten, Kinds
  <2>6. CASE RequestCCARefused
    BY <2>0, <2>6, FireType, ConfirmNeverForgets DEF RequestCCARefused, Kinds
  <2>7. ASSUME NEW status, NEW e \in [Kinds -> EventIdType],
               \A k \in Kinds \ {"endCca"} : e[k] = event[k],
               PlmeCcaConfirm(status, e, ccaRequestRunning)
        PROVE  AccessNeverForgotten'
    <3>1. CASE ccaRequestRunning
      BY <2>0, <2>7, <3>1, ConfirmNeverForgets
    <3>2. CASE ~ccaRequestRunning
      BY <2>7, <3>2 DEF PlmeCcaConfirm, AccessNeverForgotten, client
    <3>3. QED
      BY <3>1, <3>2, <2>0
  <2>8. CASE EndCca
    <3>1. PICK e \in Fire("endCca"), status \in {"IDLE", "BUSY", "TRX_OFF"} :
            PlmeCcaConfirm(status, e, ccaRequestRunning)
      BY <2>8 DEF EndCca
    <3>2. e \in [Kinds -> EventIdType]
      BY <2>0, <3>1, FireType DEF Kinds
    <3>3. \A k \in Kinds \ {"endCca"} : e[k] = event[k]
      BY <2>0, <3>1 DEF Fire
    <3>4. QED
      BY <2>7, <3>1, <3>2, <3>3
  <2>9. CASE AbortCca
    <3> DEFINE e == CancelEvent(event, "endCca")
    <3>1. e \in [Kinds -> EventIdType]
      BY <2>0, EventFunctionTypes DEF Kinds
    <3>2. \A k \in Kinds \ {"endCca"} : e[k] = event[k]
      BY <2>0 DEF CancelEvent
    <3>3. QED
      BY <2>7, <2>9, <3>1, <3>2 DEF AbortCca
  <2>10. QED
    BY <2>1, <2>2, <2>3, <2>4, <2>5, <2>6, <2>8, <2>9 DEF Next
<1>3. QED
  BY <1>1, <1>2, TypeCorrect, PTL DEF Spec
-----------------------------------------------------------------------------
(* A client that keeps to one access at a time.                            *)
Disciplined == ClientOps = {}

(* OneChain is inductive; what the counters are worth while an access is   *)
(* pending is proved with it, because only a lone chain keeps them apart   *)
(* from those of another access.  In slotted mode the window left and the  *)
(* idle CCAs seen make at least two; without slots the window is never     *)
(* touched, so that it is whole when SetSlottedCsmaCa arrives in the       *)
(* middle of an access.                                                    *)
AccessCounts ==
  /\ pending => NB = busyCount
  /\ ~isSlotted => CW = 2
  /\ isSlotted /\ pending => CW \in 1 .. 2 /\ idleRun + CW >= 2

OneAccess == TypeOK /\ OneChain /\ AccessCounts /\ ExponentialBackoff

(* Nothing is scheduled in e.                                              *)
AllIdle(e) == \A k \in Kinds : ~e[k].held /\ e[k].orphans = 0

(* Exactly one event is scheduled in e, of kind k.                         *)
Alone(e, k) ==
  /\ \A l \in Kinds : e[l].orphans = 0
  /\ \A l \in Kinds : e[l].held <=> l = k

LEMMA ScheduleAlone ==
  ASSUME NEW e \in [Kinds -> EventIdType], NEW k \in Kinds, AllIdle(e)
  PROVE  Alone(Schedule(e, k), k)
  BY DEF AllIdle, Alone, Schedule, Scheduled, EventIdType

(* While there is one chain, an event that fires leaves nothing scheduled, *)
(* and it belongs to an access that is pending.                            *)
LEMMA FireAlone ==
  ASSUME TypeOK, OneChain, NEW k \in Kinds, NEW e \in Fire(k)
  PROVE  /\ e \in [Kinds -> EventIdType]
         /\ AllIdle(e)
         /\ event[k].held
         /\ pending
<1>1. event \in [Kinds -> EventIdType]
  BY DEF TypeOK
<1>2. event[k].orphans = 0 /\ event[k] \in EventIdType
  BY <1>1 DEF OneChain
<1>3. PICK left \in AfterFiring(event[k]) : e = [event EXCEPT ![k] = left]
  BY DEF Fire
<1>4. event[k].held /\ left = Cancelled(event[k])
  BY <1>2, <1>3 DEF AfterFiring
<1>5. ~left.held /\ left.orphans = 0
  BY <1>2, <1>4 DEF Cancelled, EventIdType
<1>6. \A l \in Kinds \ {k} : ~event[l].held
  BY <1>4 DEF OneChain
<1>7. AllIdle(e)
  BY <1>1, <1>3, <1>5, <1>6 DEF AllIdle, OneChain
<1>8. QED
  BY <1>1, <1>3, <1>4, <1>7, FireType DEF OneChain

(* One chain is left when the step of kind k schedules one of kind l.      *)
LEMMA AloneIsOneChain ==
  ASSUME NEW k \in Kinds, Alone(event', k), pending',
         ccaRequestRunning' <=> k = "endCca"
  PROVE  OneChain'
  BY DEF Alone, OneChain, Kinds

LEMMA IdleIsOneChain ==
  ASSUME AllIdle(event'), ~pending', ~ccaRequestRunning'
  PROVE  OneChain'
  BY DEF AllIdle, OneChain, Kinds

(* The condition on a step that GrantedAfterTwoIdle and                    *)
(* FailsAfterAllBackoffs put on every step.                                *)
VerdictEarned ==
  /\ verdict' = "CHANNEL_IDLE" /\ verdict # "CHANNEL_IDLE"
       => idleRun' >= (IF isSlotted THEN 2 ELSE 1)
  /\ verdict' = "CHANNEL_ACCESS_FAILURE" /\ verdict # "CHANNEL_ACCESS_FAILURE"
       => busyCount' > macMaxCSMABackoffs

(* A CCA result of the pending access keeps the invariant, and answers the *)
(* access only as the properties below say.                                *)
LEMMA ConfirmKeepsOneAccess ==
  ASSUME TypeOK, AccessCounts, ExponentialBackoff, pending,
         NEW status, NEW e \in [Kinds -> EventIdType], AllIdle(e),
         PlmeCcaConfirm(status, e, TRUE)
  PROVE  /\ OneChain' /\ AccessCounts' /\ ExponentialBackoff'
         /\ VerdictEarned
         /\ \/ pending' = FALSE /\ verdict' \in Verdicts
            \/ UNCHANGED <<pending, verdict>>
<1>0. /\ ccaRequestRunning' = FALSE
      /\ ConfirmIdle(e) \/ ConfirmNotIdle(e)
      /\ UNCHANGED <<settings, startBE>>
  BY DEF PlmeCcaConfirm
<1>1. ASSUME NEW v \in Verdicts, Report(v, e) PROVE OneChain'
  BY <1>0, <1>1, IdleIsOneChain DEF Report
<1>2. ASSUME NEW k \in {"requestCca", "randomBackoff"}, Continue(k, e)
      PROVE  OneChain' /\ UNCHANGED <<pending, verdict>>
  <2>1. Alone(event', k) /\ k \in Kinds
    BY <1>2, ScheduleAlone DEF Continue, Kinds
  <2>2. QED
    BY <1>0, <1>2, <2>1, AloneIsOneChain DEF Continue, client
<1>3. CASE ConfirmIdle(e)
  <2>1. OneChain' /\ \/ pending' = FALSE /\ verdict' \in Verdicts
                     \/ UNCHANGED <<pending, verdict>>
    BY <1>1, <1>2, <1>3 DEF ConfirmIdle, Report, Verdicts
  <2>2. ExponentialBackoff'
    BY <1>0, <1>3 DEF ConfirmIdle, ExponentialBackoff, Report, Continue, client
  <2>3. /\ idleRun' = Smaller(idleRun + 1, 2) /\ idleRun \in 0 .. 2
        /\ NB' = NB /\ busyCount' = busyCount /\ isSlotted' = isSlotted
        /\ CW \in 0 .. 255
    BY <1>0, <1>3 DEF ConfirmIdle, settings, TypeOK
  <2>4. CASE isSlotted
    <3>1. CW \in 1 .. 2 /\ idleRun + CW >= 2
      BY <2>4 DEF AccessCounts
    <3>2. /\ CW' = CW - 1
          /\ IF CW' = 0 THEN Report("CHANNEL_IDLE", e)
                        ELSE Continue("requestCca", e)
      BY <1>3, <2>4, <3>1 DEF ConfirmIdle, Grants
    <3>3. idleRun' + CW' >= 2
      BY <2>3, <3>1, <3>2 DEF Smaller
    <3>4. CASE CW' = 0
      <4>1. ~pending' /\ verdict' = "CHANNEL_IDLE" /\ idleRun' >= 2
        BY <2>3, <3>2, <3>3, <3>4 DEF Report, Smaller
      <4>2. AccessCounts'
        BY <2>3, <2>4, <4>1 DEF AccessCounts
      <4>3. QED
        BY <2>1, <2>2, <2>4, <4>1, <4>2 DEF VerdictEarned
    <3>5. CASE CW' # 0
      BY <1>0, <2>1, <2>2, <2>3, <2>4, <3>1, <3>2, <3>3, <3>5
      DEF Continue, AccessCounts, client, VerdictEarned
    <3>6. QED
      BY <3>4, <3>5
  <2>5. CASE ~isSlotted
    <3>1. Report("CHANNEL_IDLE", e) /\ CW' = CW
      BY <1>3, <2>5 DEF ConfirmIdle, Grants
    <3>2. ~pending' /\ verdict' = "CHANNEL_IDLE" /\ idleRun' >= 1
      BY <2>3, <3>1 DEF Report, Smaller
    <3>3. AccessCounts'
      BY <2>3, <2>5, <3>1, <3>2 DEF AccessCounts
    <3>4. QED
      BY <2>1, <2>2, <2>5, <3>2, <3>3 DEF VerdictEarned
  <2>6. QED
    BY <2>4, <2>5
<1>4. CASE ConfirmNotIdle(e)
  <2>1. OneChain' /\ \/ pending' = FALSE /\ verdict' \in Verdicts
                     \/ UNCHANGED <<pending, verdict>>
    BY <1>1, <1>2, <1>4 DEF ConfirmNotIdle, Report, Verdicts
  <2>2. ExponentialBackoff'
    BY <1>0, <1>4, CsmaAssumption
    DEF ConfirmNotIdle, ExponentialBackoff, Smaller, TypeOK
  <2>3. AccessCounts' /\ NB' = busyCount'
    BY <1>0, <1>4 DEF ConfirmNotIdle, AccessCounts, settings
  <2>4. QED
    BY <1>4, <2>1, <2>2, <2>3
    DEF ConfirmNotIdle, GivesUp, Report, Continue, client, VerdictEarned
<1>5. QED
  BY <1>0, <1>3, <1>4

(* Every step of a disciplined client and of the simulator.                *)
LEMMA DisciplinedStep ==
  ASSUME Disciplined, OneAccess, [Next]_vars
  PROVE  /\ OneChain' /\ AccessCounts' /\ ExponentialBackoff'
         /\ VerdictEarned
         /\ [Access!Next]_<<pending, verdict>>
<1> USE DEF OneAccess
<1>0. event \in [Kinds -> EventIdType]
  BY DEF TypeOK
<1>1. CASE Start
  <2>1. ~pending /\ AllIdle(event) /\ ~ccaRequestRunning
    BY <1>1 DEF Start, Disciplined, OneChain, AllIdle, Kinds
  <2>2. Alone(event', "randomBackoff")
    BY <1>0, <1>1, <2>1, ScheduleAlone DEF Start, Kinds
  <2>3. OneChain'
    BY <1>1, <2>1, <2>2, AloneIsOneChain DEF Start, Kinds
  <2>4. AccessCounts' /\ ExponentialBackoff'
    BY <1>1, CsmaAssumption
    DEF Start, AccessCounts, ExponentialBackoff, settings, Smaller, TypeOK
  <2>5. QED
    BY <1>1, <2>1, <2>3, <2>4
    DEF Start, VerdictEarned, Access!Next, Access!Request
<1>2. CASE Cancel
  <2>1. ~event["endCca"].held /\ ~ccaRequestRunning
    BY <1>2 DEF Cancel, Disciplined, Live, OneChain
  <2>2. AllIdle(event')
    BY <1>0, <1>2, <2>1
    DEF Cancel, AllIdle, Cancelled, OneChain, EventIdType
  <2>3. OneChain' /\ ~pending'
    BY <1>2, <2>1, <2>2, IdleIsOneChain DEF Cancel
  <2>4. AccessCounts' /\ ExponentialBackoff'
    BY <1>2, <2>3 DEF Cancel, AccessCounts, ExponentialBackoff, settings
  <2>5. QED
    BY <1>2, <2>3, <2>4
    DEF Cancel, VerdictEarned, Access!Next, Access!Withdraw, TypeOK
<1>3. CASE SetSlottedCsmaCa
  <2>1. AccessCounts'
    BY <1>3 DEF SetSlottedCsmaCa, AccessCounts, algorithm, client, history,
                TypeOK
  <2>2. QED
    BY <1>3, <2>1 DEF SetSlottedCsmaCa, OneChain, ExponentialBackoff,
                      VerdictEarned, algorithm, client, history
<1>4. CASE SetUnSlottedCsmaCa
  BY <1>4 DEF SetUnSlottedCsmaCa, Disciplined
<1>5. CASE \/ \E v \in MinBESettings : SetMacMinBE(v)
           \/ \E v \in MaxBESettings : SetMacMaxBE(v)
           \/ \E v \in BackoffSettings : SetMacMaxCSMABackoffs(v)
           \/ UNCHANGED vars
  <2>1. UNCHANGED <<algorithm, isSlotted, client, history>>
    BY <1>5 DEF SetMacMinBE, SetMacMaxBE, SetMacMaxCSMABackoffs, vars, settings
  <2>2. QED
    BY <2>1 DEF OneChain, AccessCounts, ExponentialBackoff, VerdictEarned,
                algorithm, client, history
<1>6. CASE RandomBackoffDelay \/ CanProceed
  <2>1. PICK k \in {"canProceed", "requestCca"},
             l \in {"randomBackoff", "canProceed"} :
          \E e \in Fire(l) : event' = Schedule(e, k)
    BY <1>6 DEF RandomBackoffDelay, CanProceed
  <2>2. PICK e \in Fire(l) : event' = Schedule(e, k)
    BY <2>1
  <2>3. Alone(event', k) /\ event[l].held /\ pending
    BY <2>2, FireAlone, ScheduleAlone DEF Kinds
  <2>4. ~ccaRequestRunning
    BY <2>3 DEF OneChain, Kinds
  <2>5. UNCHANGED <<NB, CW, BE, ccaRequestRunning, settings, client, history>>
    BY <1>6 DEF RandomBackoffDelay, CanProceed
  <2>6. OneChain'
    BY <2>3, <2>4, <2>5, AloneIsOneChain DEF client, Kinds
  <2>7. QED
    BY <2>5, <2>6 DEF AccessCounts, ExponentialBackoff, VerdictEarned,
                      settings, client, history
<1>7. CASE RequestCCA
  <2>1. PICK e \in Fire("requestCca") : event' = Schedule(e, "endCca")
    BY <1>7 DEF RequestCCA
  <2>2. Alone(event', "endCca") /\ pending
    BY <2>1, FireAlone, ScheduleAlone DEF Kinds
  <2>3. OneChain'
    BY <1>7, <2>2, AloneIsOneChain DEF RequestCCA, client, Kinds
  <2>4. QED
    BY <1>7, <2>3 DEF RequestCCA, AccessCounts, ExponentialBackoff,
                      VerdictEarned, settings, client, history
<1>8. ASSUME NEW status, NEW e \in [Kinds -> EventIdType], AllIdle(e), pending,
             PlmeCcaConfirm(status, e, TRUE)
      PROVE  /\ OneChain' /\ AccessCounts' /\ ExponentialBackoff'
             /\ VerdictEarned
             /\ [Access!Next]_<<pending, verdict>>
  BY <1>8, ConfirmKeepsOneAccess
  DEF Access!Next, Access!Answer, Access!Verdicts, Verdicts
<1>9. CASE RequestCCARefused
  <2>1. PICK e \in Fire("requestCca"), status \in {"TRX_OFF", "BUSY"} :
          PlmeCcaConfirm(status, e, TRUE)
    BY <1>9 DEF RequestCCARefused
  <2>2. e \in [Kinds -> EventIdType] /\ AllIdle(e) /\ pending
    BY <2>1, FireAlone DEF Kinds
  <2>3. QED
    BY <1>8, <2>1, <2>2
<1>10. CASE EndCca
  <2>1. PICK e \in Fire("endCca"), status \in {"IDLE", "BUSY", "TRX_OFF"} :
          PlmeCcaConfirm(status, e, ccaRequestRunning)
    BY <1>10 DEF EndCca
  <2>2. /\ e \in [Kinds -> EventIdType] /\ AllIdle(e) /\ pending
        /\ ccaRequestRunning = TRUE
    BY <2>1, FireAlone DEF Kinds, OneChain, TypeOK
  <2>3. QED
    BY <1>8, <2>1, <2>2
<1>11. CASE AbortCca
  <2> DEFINE e == CancelEvent(event, "endCca")
  <2>1. e \in [Kinds -> EventIdType]
    BY <1>0, EventFunctionTypes DEF Kinds
  <2>2. AllIdle(e)
    BY <1>0, <1>11
    DEF AbortCca, AllIdle, CancelEvent, Cancelled, OneChain, EventIdType, Kinds
  <2>3. pending /\ ccaRequestRunning = TRUE
    BY <1>11 DEF AbortCca, OneChain, Kinds, TypeOK
  <2>4. QED
    BY <1>8, <1>11, <2>1, <2>2, <2>3 DEF AbortCca
<1>12. QED
  BY <1>1, <1>2, <1>3, <1>4, <1>5, <1>6, <1>7, <1>9, <1>10, <1>11 DEF Next

(* The inductive invariant holds in every state of a disciplined client.   *)
THEOREM OneAccessHolds ==
  ASSUME Disciplined PROVE Spec => []OneAccess
<1>1. Init => OneChain /\ AccessCounts /\ ExponentialBackoff
  BY DEF Init, InitWith, OneChain, AccessCounts, ExponentialBackoff, Kinds, NoEvent
<1>2. OneAccess /\ [Next]_vars
        => OneChain' /\ AccessCounts' /\ ExponentialBackoff'
  BY DisciplinedStep
<1>3. OneAccess <=> TypeOK /\ OneChain /\ AccessCounts /\ ExponentialBackoff
  BY DEF OneAccess
<1>4. QED
  BY <1>1, <1>2, <1>3, TypeCorrect, PTL DEF Spec

(* At most one step of the algorithm is scheduled, exactly while an access *)
(* is pending: NB, CW and BE are never shared by two accesses.             *)
THEOREM OneChainHolds ==
  ASSUME Disciplined PROVE Spec => []OneChain
<1>1. Spec => []OneAccess
  BY OneAccessHolds
<1>2. QED
  BY <1>1, PTL DEF OneAccess

(* The unsigned m_CW is never decremented below zero.                      *)
THEOREM WindowHolds ==
  ASSUME Disciplined PROVE Spec => []WindowNeverWraps
<1>1. OneAccess => WindowNeverWraps
  BY DEF OneAccess, OneChain, AccessCounts, WindowNeverWraps, Live, Kinds
<1>2. Spec => []OneAccess
  BY OneAccessHolds
<1>3. QED
  BY <1>1, <1>2, PTL

(* The backoff exponent doubles the window once per busy CCA of the        *)
(* access, up to the maximum.                                              *)
THEOREM BackoffHolds ==
  ASSUME Disciplined PROVE Spec => []ExponentialBackoff
<1>1. Spec => []OneAccess
  BY OneAccessHolds
<1>2. QED
  BY <1>1, PTL DEF OneAccess

(* CHANNEL_IDLE is reported after two idle CCAs in a row in slotted mode,  *)
(* and after one otherwise.                                                *)
THEOREM GrantHolds ==
  ASSUME Disciplined PROVE Spec => GrantedAfterTwoIdle
<1>1. OneAccess /\ [Next]_vars
        => [verdict' = "CHANNEL_IDLE" /\ verdict # "CHANNEL_IDLE"
              => idleRun' >= (IF isSlotted THEN 2 ELSE 1)]_vars
  BY DisciplinedStep DEF VerdictEarned
<1>2. Spec => []OneAccess
  BY OneAccessHolds
<1>3. QED
  BY <1>1, <1>2, PTL DEF Spec, GrantedAfterTwoIdle

(* CHANNEL_ACCESS_FAILURE is reported only when the access has found the   *)
(* channel busy more often than the backoffs it may make.                  *)
THEOREM FailureHolds ==
  ASSUME Disciplined PROVE Spec => FailsAfterAllBackoffs
<1>1. OneAccess /\ [Next]_vars
        => [verdict' = "CHANNEL_ACCESS_FAILURE"
              /\ verdict # "CHANNEL_ACCESS_FAILURE"
              => busyCount' > macMaxCSMABackoffs]_vars
  BY DisciplinedStep DEF VerdictEarned
<1>2. Spec => []OneAccess
  BY OneAccessHolds
<1>3. QED
  BY <1>1, <1>2, PTL DEF Spec, FailsAfterAllBackoffs

(* The algorithm implements the safety part of ChannelAccess: every step   *)
(* requests, withdraws or answers an access, or leaves it alone.           *)
THEOREM AccessImplemented ==
  ASSUME Disciplined PROVE Spec => Access!Init /\ [][Access!Next]_Access!vars
<1>1. Init => Access!Init
  BY DEF Init, InitWith, Access!Init
<1>2. OneAccess /\ [Next]_vars => [Access!Next]_Access!vars
  BY DisciplinedStep DEF Access!vars
<1>3. Spec => []OneAccess
  BY OneAccessHolds
<1>4. QED
  BY <1>1, <1>2, <1>3, PTL DEF Spec
=============================================================================
