---------------------------- MODULE LrWpanCsmaCa ----------------------------
(***************************************************************************)
(* The CSMA/CA algorithm of model/lr-wpan-csmaca.cc, slotted and           *)
(* unslotted, driven by the MAC above it and by the clear channel          *)
(* assessments (CCA) of the PHY below it.                                  *)
(*                                                                         *)
(* The algorithm is a chain of simulator events: RandomBackoffDelay, then  *)
(* (slotted only) CanProceed, then RequestCCA, then the PHY's EndCca,      *)
(* which calls back PlmeCcaConfirm.  The object keeps one EventId per kind *)
(* of event, so scheduling a second event of a kind forgets the first one: *)
(* it can no longer be cancelled, but still fires.  An event that is       *)
(* scheduled and forgotten is an "orphan".                                 *)
(*                                                                         *)
(* Delays are abstracted: any scheduled event may be the next to fire.     *)
(* m_BLE is initialised to false and nothing sets it; its branches are     *)
(* dead and left out.                                                      *)
(***************************************************************************)
EXTENDS EventIds

CONSTANTS
  macMaxBE,          \* m_macMaxBE: no operation assigns it
  MinBESettings,     \* values given to SetMacMinBE
  MaxBESettings,     \* values given to SetMacMaxBE
  BackoffSettings,   \* values given to SetMacMaxCSMABackoffs
  ClientOps,         \* the operations below that break the discipline of use
  MaxChains          \* bound: at most this many events scheduled at a time

(***************************************************************************)
(* The operations of a client that does not keep to one access at a time:  *)
(*   cancelCca    Cancel while the PHY runs a CCA (PdDataIndication does   *)
(*                so when a frame that asks for an ACK arrives);           *)
(*   directStart  Start while an access is pending (SendOneBeacon,         *)
(*                OneSuperframeProcess, McpsDataRequest schedule Start     *)
(*                whatever the state of the MAC);                          *)
(*   unslot       SetUnSlottedCsmaCa (public, never used by the MAC).      *)
(***************************************************************************)
UndisciplinedOps == {"cancelCca", "directStart", "unslot"}

(* The settings are uint8_t values small enough for 2^BE to be computed.   *)
ASSUME CsmaAssumption ==
  /\ macMaxBE \in Nat
  /\ MinBESettings \subseteq Nat
  /\ MaxBESettings \subseteq Nat
  /\ BackoffSettings \subseteq 0 .. 254
  /\ ClientOps \subseteq UndisciplinedOps
  /\ MaxChains \in Nat \ {0}

VARIABLES
  isSlotted,            \* m_isSlotted
  NB,                   \* m_NB: backoffs made for this access
  CW,                   \* m_CW: idle CCAs still needed (slotted), a uint8_t
  BE,                   \* m_BE: backoff exponent
  macMinBE,             \* m_macMinBE
  macMaxCSMABackoffs,   \* m_macMaxCSMABackoffs
  ccaRequestRunning,    \* m_ccaRequestRunning
  event,                \* the scheduled events of each kind
  pending,              \* history: does the MAC wait for a verdict?
  verdict,              \* history: the last verdict given to the MAC
  idleRun,              \* history: idle CCAs since Start or a busy one, up to 2
  busyCount,            \* history: busy CCAs since Start
  startBE               \* history: the exponent the access started with

algorithm == <<NB, CW, BE, ccaRequestRunning, event>>
settings  == <<isSlotted, macMinBE, macMaxCSMABackoffs>>
client    == <<pending, verdict>>
history   == <<idleRun, busyCount, startBE>>
vars      == <<algorithm, settings, client, history>>

(* m_randomBackoffEvent, m_canProceedEvent, m_requestCcaEvent, and the     *)
(* PHY's m_ccaRequest.                                                     *)
Kinds == {"randomBackoff", "canProceed", "requestCca", "endCca"}

Verdicts == {"CHANNEL_IDLE", "CHANNEL_ACCESS_FAILURE"}

(* The state with the given mode and limit and otherwise default settings. *)
InitWith(slotted, backoffs) ==
  /\ isSlotted = slotted
  /\ NB = 0
  /\ CW = 2
  /\ macMinBE = 3
  /\ BE = 3
  /\ macMaxCSMABackoffs = backoffs
  /\ ccaRequestRunning = FALSE
  /\ event = [k \in Kinds |-> NoEvent]
  /\ pending = FALSE
  /\ verdict = "none"
  /\ idleRun = 0
  /\ busyCount = 0
  /\ startBE = 3

Init == InitWith(FALSE, 4)
-----------------------------------------------------------------------------
(* The scheduled events once kind k is scheduled, or has been cancelled.   *)
Schedule(e, k) == [e EXCEPT ![k] = Scheduled(e[k])]

CancelEvent(e, k) == [e EXCEPT ![k] = Cancelled(e[k])]

(* The scheduled events once one of kind k has fired.                      *)
Fire(k) == {[event EXCEPT ![k] = left] : left \in AfterFiring(event[k])}

Chains ==
  EventCount(event["randomBackoff"]) + EventCount(event["canProceed"])
    + EventCount(event["requestCca"]) + EventCount(event["endCca"])

Smaller(a, b) == IF a < b THEN a ELSE b
-----------------------------------------------------------------------------
(* Operations of the MAC.                                                  *)

(* Mutants of Start, which leave a counter of the last access as it was.   *)
StartKeepsWindow ==
  /\ pending => "directStart" \in ClientOps
  /\ Chains < MaxChains
  /\ NB' = 0
  /\ BE' = macMinBE
  /\ event' = Schedule(event, "randomBackoff")
  /\ pending' = TRUE
  /\ verdict' = "none"
  /\ idleRun' = 0
  /\ busyCount' = 0
  /\ startBE' = macMinBE
  /\ UNCHANGED <<CW, ccaRequestRunning, settings>>

StartKeepsExponent ==
  /\ pending => "directStart" \in ClientOps
  /\ Chains < MaxChains
  /\ NB' = 0
  /\ CW' = IF isSlotted THEN 2 ELSE CW
  /\ event' = Schedule(event, "randomBackoff")
  /\ pending' = TRUE
  /\ verdict' = "none"
  /\ idleRun' = 0
  /\ busyCount' = 0
  /\ startBE' = macMinBE
  /\ UNCHANGED <<BE, ccaRequestRunning, settings>>

(* Start forgets whatever the object was doing: nothing is cancelled.      *)
Start ==
  /\ pending => "directStart" \in ClientOps
  /\ Chains < MaxChains
  /\ NB' = 0
  /\ CW' = IF isSlotted THEN 2 ELSE CW
  /\ BE' = macMinBE
  /\ event' = Schedule(event, "randomBackoff")
  /\ pending' = TRUE
  /\ verdict' = "none"
  /\ idleRun' = 0
  /\ busyCount' = 0
  /\ startBE' = macMinBE
  /\ UNCHANGED <<ccaRequestRunning, settings>>

(* Mutants of Cancel, which forget one of the events.                      *)
CancelAllBut(k) ==
  /\ Live(event["endCca"]) => "cancelCca" \in ClientOps
  /\ event' = [l \in Kinds |-> IF l \in {k, "endCca"} THEN event[l]
                                                      ELSE Cancelled(event[l])]
  /\ pending' = FALSE
  /\ verdict' = IF pending THEN "none" ELSE verdict
  /\ UNCHANGED <<NB, CW, BE, ccaRequestRunning, settings, history>>

CancelKeepsRequest == CancelAllBut("requestCca")

CancelKeepsCanProceed == CancelAllBut("canProceed")

(* Cancel clears neither m_ccaRequestRunning nor the PHY's CCA.            *)
Cancel ==
  /\ Live(event["endCca"]) => "cancelCca" \in ClientOps
  /\ event' = [k \in Kinds |-> IF k = "endCca" THEN event[k]
                                              ELSE Cancelled(event[k])]
  /\ pending' = FALSE
  /\ verdict' = IF pending THEN "none" ELSE verdict
  /\ UNCHANGED <<NB, CW, BE, ccaRequestRunning, settings, history>>

SetSlottedCsmaCa ==
  /\ ~isSlotted
  /\ isSlotted' = TRUE
  /\ UNCHANGED <<algorithm, macMinBE, macMaxCSMABackoffs, client, history>>

SetUnSlottedCsmaCa ==
  /\ isSlotted
  /\ "unslot" \in ClientOps
  /\ isSlotted' = FALSE
  /\ UNCHANGED <<algorithm, macMinBE, macMaxCSMABackoffs, client, history>>

SetMacMinBE(v) ==
  /\ macMinBE' = v
  /\ UNCHANGED <<algorithm, isSlotted, macMaxCSMABackoffs, client, history>>

(* The setter of the maximum assigns the minimum.                          *)
SetMacMaxBE(v) ==
  /\ macMinBE' = v
  /\ UNCHANGED <<algorithm, isSlotted, macMaxCSMABackoffs, client, history>>

SetMacMaxCSMABackoffs(v) ==
  /\ macMaxCSMABackoffs' = v
  /\ UNCHANGED <<algorithm, isSlotted, macMinBE, client, history>>
-----------------------------------------------------------------------------
(* PlmeCcaConfirm.  e is what the simulator has scheduled when the PHY     *)
(* calls back.                                                             *)

Report(v, e) ==
  /\ event' = e
  /\ pending' = FALSE
  /\ verdict' = v

Continue(k, e) ==
  /\ event' = Schedule(e, k)
  /\ UNCHANGED client

(* Does an idle CCA end the access, and does a busy one?                   *)
Grants == isSlotted => CW = 1

GivesUp == NB + 1 > macMaxCSMABackoffs

ConfirmIdle(e) ==
  /\ idleRun' = Smaller(idleRun + 1, 2)
  /\ UNCHANGED <<NB, BE, busyCount>>
  /\ IF isSlotted
       THEN /\ CW' = (CW + 255) % 256
            /\ IF Grants THEN Report("CHANNEL_IDLE", e)
                         ELSE Continue("requestCca", e)
       ELSE /\ Report("CHANNEL_IDLE", e)
            /\ UNCHANGED CW

(* Mutants of ConfirmNotIdle: the exponent goes down, the window is not    *)
(* reset, the access fails one backoff early, it goes on after it failed.  *)
ConfirmNotIdleShrinks(e) ==
  /\ CW' = IF isSlotted THEN 2 ELSE CW
  /\ BE' = Smaller(BE - 1, macMaxBE)
  /\ NB' = NB + 1
  /\ IF GivesUp
       THEN Report("CHANNEL_ACCESS_FAILURE", e)
       ELSE Continue("randomBackoff", e)
  /\ idleRun' = 0
  /\ busyCount' = busyCount + 1

ConfirmNotIdleKeepsWindow(e) ==
  /\ BE' = Smaller(BE + 1, macMaxBE)
  /\ NB' = NB + 1
  /\ IF GivesUp
       THEN Report("CHANNEL_ACCESS_FAILURE", e)
       ELSE Continue("randomBackoff", e)
  /\ idleRun' = 0
  /\ busyCount' = busyCount + 1
  /\ UNCHANGED CW

ConfirmNotIdleFailsEarly(e) ==
  /\ CW' = IF isSlotted THEN 2 ELSE CW
  /\ BE' = Smaller(BE + 1, macMaxBE)
  /\ NB' = NB + 1
  /\ IF NB' >= macMaxCSMABackoffs
       THEN Report("CHANNEL_ACCESS_FAILURE", e)
       ELSE Continue("randomBackoff", e)
  /\ idleRun' = 0
  /\ busyCount' = busyCount + 1

ConfirmNotIdleGoesOn(e) ==
  /\ CW' = IF isSlotted THEN 2 ELSE CW
  /\ BE' = Smaller(BE + 1, macMaxBE)
  /\ NB' = NB + 1
  /\ IF GivesUp
       THEN Report("CHANNEL_ACCESS_FAILURE", Schedule(e, "randomBackoff"))
       ELSE Continue("randomBackoff", e)
  /\ idleRun' = 0
  /\ busyCount' = busyCount + 1

ConfirmNotIdle(e) ==
  /\ CW' = IF isSlotted THEN 2 ELSE CW
  /\ BE' = Smaller(BE + 1, macMaxBE)
  /\ NB' = NB + 1
  /\ IF GivesUp
       THEN Report("CHANNEL_ACCESS_FAILURE", e)
       ELSE Continue("randomBackoff", e)
  /\ idleRun' = 0
  /\ busyCount' = busyCount + 1

(* Mutant of PlmeCcaConfirm: a CCA the PHY could not make is dropped.      *)
PlmeCcaConfirmDropsTrxOff(status, e, running) ==
  /\ IF running /\ status # "TRX_OFF"
       THEN /\ ccaRequestRunning' = FALSE
            /\ IF status = "IDLE" THEN ConfirmIdle(e) ELSE ConfirmNotIdle(e)
       ELSE /\ event' = e
            /\ UNCHANGED <<NB, CW, BE, ccaRequestRunning, client,
                           idleRun, busyCount>>
  /\ UNCHANGED <<settings, startBE>>

PlmeCcaConfirm(status, e, running) ==
  /\ IF running
       THEN /\ ccaRequestRunning' = FALSE
            /\ IF status = "IDLE" THEN ConfirmIdle(e) ELSE ConfirmNotIdle(e)
       ELSE /\ event' = e
            /\ UNCHANGED <<NB, CW, BE, ccaRequestRunning, client,
                           idleRun, busyCount>>
  /\ UNCHANGED <<settings, startBE>>
-----------------------------------------------------------------------------
(* Simulator events.                                                       *)

RandomBackoffDelay ==
  \E e \in Fire("randomBackoff") :
    /\ event' = Schedule(e, IF isSlotted THEN "canProceed" ELSE "requestCca")
    /\ UNCHANGED <<NB, CW, BE, ccaRequestRunning, settings, client, history>>

CanProceed ==
  \E e \in Fire("canProceed") :
    /\ event' = Schedule(e, "requestCca")
    /\ UNCHANGED <<NB, CW, BE, ccaRequestRunning, settings, client, history>>

(* PlmeCcaRequest of a PHY in RX_ON or BUSY_RX schedules EndCca ...        *)
RequestCCA ==
  \E e \in Fire("requestCca") :
    /\ event' = Schedule(e, "endCca")
    /\ ccaRequestRunning' = TRUE
    /\ UNCHANGED <<NB, CW, BE, settings, client, history>>

(* ... and of a PHY in any other state confirms before it returns.         *)
RequestCCARefused ==
  \E e \in Fire("requestCca") :
    \E status \in {"TRX_OFF", "BUSY"} : PlmeCcaConfirm(status, e, TRUE)

EndCca ==
  \E e \in Fire("endCca"), status \in {"IDLE", "BUSY", "TRX_OFF"} :
    PlmeCcaConfirm(status, e, ccaRequestRunning)

(* PlmeSetTRXStateRequest cancels a running CCA and confirms BUSY.         *)
AbortCca ==
  /\ event["endCca"].held
  /\ PlmeCcaConfirm("BUSY", CancelEvent(event, "endCca"), ccaRequestRunning)
-----------------------------------------------------------------------------
Next ==
  \/ Start
  \/ Cancel
  \/ SetSlottedCsmaCa
  \/ SetUnSlottedCsmaCa
  \/ \E v \in MinBESettings : SetMacMinBE(v)
  \/ \E v \in MaxBESettings : SetMacMaxBE(v)
  \/ \E v \in BackoffSettings : SetMacMaxCSMABackoffs(v)
  \/ RandomBackoffDelay
  \/ CanProceed
  \/ RequestCCA
  \/ RequestCCARefused
  \/ EndCca
  \/ AbortCca

(* The simulator runs every scheduled event.                               *)
Fairness ==
  /\ WF_vars(RandomBackoffDelay)
  /\ WF_vars(CanProceed)
  /\ WF_vars(RequestCCA \/ RequestCCARefused)
  /\ WF_vars(EndCca)

Spec == Init /\ [][Next]_vars /\ Fairness
-----------------------------------------------------------------------------
TypeOK ==
  /\ isSlotted \in BOOLEAN
  /\ NB \in Nat
  /\ CW \in 0 .. 255
  /\ BE \in Nat
  /\ macMinBE \in Nat
  /\ macMaxCSMABackoffs \in 0 .. 254
  /\ ccaRequestRunning \in BOOLEAN
  /\ event \in [Kinds -> EventIdType]
  /\ pending \in BOOLEAN
  /\ verdict \in Verdicts \union {"none"}
  /\ idleRun \in 0 .. 2
  /\ busyCount \in Nat
  /\ startBE \in Nat

(* At most one step of the algorithm is scheduled at a time, one is        *)
(* exactly while the MAC waits for a verdict, and the flag that lets a     *)
(* CCA confirm through is up exactly while the PHY runs the CCA.  Two      *)
(* chains would share NB, CW and BE, and the MAC would get two verdicts.   *)
OneChain ==
  /\ \A k \in Kinds : event[k].orphans = 0
  /\ \A k, l \in Kinds : event[k].held /\ event[l].held => k = l
  /\ pending <=> \E k \in Kinds : event[k].held
  /\ ccaRequestRunning <=> event["endCca"].held

(* However the operations interleave, an access that waits for a verdict   *)
(* has a step scheduled whose outcome will not be dropped.  Overlapping    *)
(* chains share one flag, so the second of two CCA results is ignored:     *)
(* that must never be the last thing the access was waiting for.           *)
AccessNeverForgotten ==
  pending =>
    \/ \E k \in Kinds \ {"endCca"} : Live(event[k])
    \/ ccaRequestRunning /\ Live(event["endCca"])

(* A CCA result always finds a contention window to count down: m_CW is    *)
(* unsigned, and one decrement too many would ask for 255 more CCAs.       *)
WindowNeverWraps == Live(event["requestCca"]) \/ Live(event["endCca"]) => CW \in 1 .. 2

(* Slotted CSMA/CA grants the channel only after two idle CCAs in a row.   *)
(* They may straddle a switch from unslotted mode, but not a busy CCA.     *)
GrantedAfterTwoIdle ==
  [][verdict' = "CHANNEL_IDLE" /\ verdict # "CHANNEL_IDLE"
       => idleRun' >= (IF isSlotted THEN 2 ELSE 1)]_vars

(* An access fails only once it found the channel busy more often than the *)
(* configured number of backoffs, counted from its own Start.              *)
FailsAfterAllBackoffs ==
  [][verdict' = "CHANNEL_ACCESS_FAILURE" /\ verdict # "CHANNEL_ACCESS_FAILURE"
       => busyCount' > macMaxCSMABackoffs]_vars

(* The backoff window doubles with each busy CCA of the access, from the   *)
(* exponent it started with, up to the maximum exponent.                   *)
ExponentialBackoff ==
  pending /\ startBE <= macMaxBE
    => BE = Smaller(startBE + busyCount, macMaxBE)

(* Every access is answered or withdrawn.                                  *)
AccessEnds == pending ~> ~pending

(* The algorithm implements the access the MAC relies on.                  *)
Access == INSTANCE ChannelAccess WITH
  pending <- pending, verdict <- verdict

AccessSpec == Access!Spec

(* lr-wpan-csmaca.cc on PlmeCcaConfirm: a confirm that arrives after the   *)
(* algorithm was cancelled is ignored.                                     *)
ConfirmAfterCancelIgnored ==
  [][~pending /\ ~pending' => UNCHANGED <<NB, CW, BE, verdict>>]_vars
=============================================================================
