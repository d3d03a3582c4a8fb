# TLA+ models of the ns-3 LR-WPAN module

This directory models the IEEE 802.15.4 (LR-WPAN) module of the network
simulator ns-3 that this repository holds: the transceiver, the CSMA/CA
algorithm and the data service of the MAC, each alone and wired together as a
device; the guaranteed time slots (GTS) of a coordinator and the devices that
use them; and association with its beacon tracking. TLC model-checks each of
them on small instances; TLAPS proves the safety properties of every module for
every value of the constants.

Run, in this directory:

    tlasany LrWpanMac.tla                              # parse
    tlc -config MCLrWpanMac.cfg MCLrWpanMac            # model-check
    tlapm LrWpanPhy_proofs.tla                         # prove

`PROJECT.json` lists the components, the runs, the source lines behind every
definition, the mutants that show that each property can fail, the hazards and
the theorems.

## 1. The system

A device is four objects wired together by callbacks; everything happens in
handlers of a sequential, event-driven simulator. There are no threads. What
makes the code hard is that each layer schedules events for later, remembers
them in `EventId` members, and calls into a neighbour that may call back before
the call returns.

    upper layer
       |  McpsDataRequest, MlmeAssociateRequest, MlmeGtsRequest ...   ^ confirms, indications
    LrWpanMac  --- Start, Cancel, SetSlottedCsmaCa --->  LrWpanCsmaCa
       |       <-- SetLrWpanMacState(CHANNEL_IDLE | CHANNEL_ACCESS_FAILURE) --
       |  PdDataRequest, PlmeSetTRXStateRequest          |  PlmeCcaRequest
       |  ^ PdDataConfirm, PdDataIndication,             |  ^ PlmeCcaConfirm
       v  | PlmeSetTRXStateConfirm                       v  |
    LrWpanPhy   <--- StartRx, EndRx of every signal on the channel ---> other devices

| component (source) | state it keeps | operations and events | what is hard | what makes it correct |
|---|---|---|---|---|
| CSMA/CA (`model/lr-wpan-csmaca.*`) | NB, CW, BE, settings, one EventId per step, `m_ccaRequestRunning` | Start, Cancel, setters, RandomBackoffDelay, CanProceed, RequestCCA, PlmeCcaConfirm | a Start or Cancel between any two steps; a CCA that is refused, answered or aborted inside the request; one flag for all CCAs; settings changed under an access | one chain of events per access; counters of that access only; the answer is right and comes |
| Transceiver (`model/lr-wpan-phy.*`) | `m_trxState`, `m_trxStatePending`, `m_setTRXState`, current frames and their "corrupt" flags, pending EndTx / EndCca / EndEd | PdDataRequest, PlmeSetTRXStateRequest, PlmeCcaRequest, PlmeEdRequest, PlmeSetAttributeRequest, StartRx, EndRx, EndTx ... | signals overlap and end at any time; state requests override each other and are put off; a frame is aborted while its end is scheduled | a frame is held until its end; a state put off is applied; nothing half-received is passed up |
| MAC data service (`model/lr-wpan-mac.*`) | `m_lrWpanMacState`, the `m_setMacState` event, queue, `m_txPkt`, retransmissions, the ACK timer | requests, PdDataIndication, PdDataConfirm, PlmeSetTRXStateConfirm, SetLrWpanMacState, AckWaitTimeout, beacons | ACKs to send interrupt accesses and waits; operations that go past the queue; assertions on combinations of these | no assertion fails; whatever waits has an event scheduled; the confirm of a frame that leaves the queue is true; the queue moves |
| GTS at a coordinator (same file) | `m_GTSList`, `m_CAPLength`, `m_FinalCAPSlot`, scheduled deallocations | receivedGTSRequest, GTSDeallocation, SendOneBeacon | deallocations outlive the list; unsigned arithmetic | slots disjoint, behind the CAP, CAP not too short |
| GTS at a device (same file) | its own list and GTS queue | MlmeGtsRequest, the slot events | slots computed from the beacon, stale after a lost beacon or a dissociation; four bits per slot in the header | frames lie in slots given to their device, no two devices in one |
| Beacon tracking (same file) | superframe timers, `NotReceivedBeaconNum`, a global counter of missed beacons | receivedBeaconProcess, beaconCheck, OneSuperframeProcess | all nodes of the process count in one variable | a device is dissociated only after beacons were lost, and their loss is noticed |
| Association (same file) | addresses, device descriptors | MlmeAssociateRequest / Response | requests pile up, responses are lost, repeated or late | device and coordinator agree on the address, which no other device has |
| Frame headers (`model/lr-wpan-mac-header.*`, `-trailer.*`, `lr-wpan-beacon-header.*`, `lr-wpan-command-frame.*`) | fields | serialise, deserialise, CRC | bit fields and variable sizes | round trips |
| Interference helper, error model, spectrum values, LQI tag | sets and tables of numbers | sums and formulas | floating point | out of a model checker's reach |
| Net device, helper (`model/lr-wpan-net-device.*`, `helper/`) | pointers | wiring | nothing of its own | the composition |
| Bindings, examples, tests, docs | none | none | none | used as evidence of the intended use |

The hazards behind these rows, each at its line, are in `PROJECT.json`
("hazards") together with the properties that cover them or the reason none
does.

## 2. The modules

| module | models | uses |
|---|---|---|
| `EventIds` | an `EventId` member assigned from `Simulator::Schedule`: the event held, and the *orphans*, events that were overwritten without being cancelled and still fire | |
| `ChannelAccess` | abstract: what the MAC expects of a channel access: answered once, never after it was withdrawn, and eventually | |
| `LrWpanCsmaCa` | `lr-wpan-csmaca.cc`, slotted and unslotted | `EventIds`, implements `ChannelAccess` |
| `LrWpanTransceiver` | abstract: the transceiver as the MAC sees it | |
| `LrWpanPhy` | the transceiver of `lr-wpan-phy.cc` | `EventIds`, implements `LrWpanTransceiver` |
| `LrWpanMac` | queue, state machine, retransmissions and ACKs of `lr-wpan-mac.cc`, and the operations that bypass the queue | an instance of `LrWpanTransceiver` |
| `LrWpanDevice` | MAC and CSMA/CA over one transceiver, with the calls between them | instances of `LrWpanMac`, `LrWpanCsmaCa` |
| `LrWpanGts` | the coordinator's GTS list and CAP | |
| `LrWpanGtsPan` | the coordinator together with the devices it gives slots to | extends `LrWpanGts` |
| `LrWpanAssociation` | association requests and responses, addresses, `beaconCheck` | |
| `MC...` | constants for TLC | |
| `..._proofs` | theorems and proofs about `LrWpanCsmaCa`, `LrWpanPhy`, `LrWpanMac`, `LrWpanDevice`, `LrWpanGts`, `LrWpanGtsPan`, `LrWpanAssociation` | `TLAPS` |

    ChannelAccess        LrWpanTransceiver
         ^ implements       ^ implements    \ instance
    LrWpanCsmaCa         LrWpanPhy           LrWpanMac
         \___________________________________/
                       LrWpanDevice

    LrWpanGts  <- extends -  LrWpanGtsPan  ( associated: LrWpanAssociation )

Conventions, in all modules:

* A variable has the name of the member it models without the `m_` prefix; the
  comment beside it names the member. An action has the name of the method or
  of the outcome of a method (`PlmeCcaRequest`, `PlmeCcaRequestRefused`).
* An action is a whole handler with every call it makes, including the calls
  into a neighbour that call back before they return. In `LrWpanCsmaCa`, for
  example, `RequestCCARefused` is `RequestCCA`, `PlmeCcaRequest` of a PHY that
  is not receiving, and the `PlmeCcaConfirm` that it calls at once.
* Time is abstracted: any event that is scheduled may be the next to fire. This
  allows more orders than the delays do. Where an order is certain because one
  delay is zero and the other is not, the guard says so and its comment why.
* *History* variables are marked as such: no guard reads them.
* `ClientOps` (a set of names) selects the operations of a client that does not
  keep to the discipline of use that the code needs. The disciplined instance
  shows what holds then; the undisciplined one what holds whatever happens.
* Definitions called mutants stand before the definition they vary. Nothing
  uses them but the entries "mutants" of `PROJECT.json`, each of which replaces
  the definition by its mutant and expects one property to fail.

### LrWpanCsmaCa

The chain RandomBackoffDelay, (slotted) CanProceed, RequestCCA, EndCca is
`event`, a function from the four kinds of event to an `EventId`; a handler
fires one and schedules the next. NB, CW (a `uint8_t` that may wrap) and BE are
kept as they are, with their resets exactly where the code has them: CW only
for a slotted access and only at Start or at a busy CCA. `SetMacMaxBE` assigns
`macMinBE`, as the code does. Dead code (`m_BLE` is never set) is left out.

`pending` and `verdict` record what the MAC sees; they are the refinement
mapping to `ChannelAccess`. `idleRun`, `busyCount` and `startBE` record what
the PHY answered to this access.

### LrWpanPhy

The five values of `m_trxState`, the pending state (`IDLE` when none) and
whether a turnaround (`m_setTRXState`) runs. `onAir` is the set of signals with
an EndRx scheduled, `Foreign` those that are not LrWpan signals. Power, noise
and error rates become choices: whether a signal can be decoded, whether
interference destroys a frame. A signal is above the CCA threshold or not
(`Strong`). `rxCorrupt` and `txAborted` are the second components of
`m_currentRxPacket` and `m_currentTxPacket`. PlmeSetTRXStateRequest is one
action per requested state, with a disjunct per branch.

Two calls end in a fatal error of the code and are no actions: PdDataRequest
while a frame is received, TRX_OFF while a frame already destroyed is received.
Requests that repeat the state of a running turnaround return
at once in the code and are stuttering here.

### LrWpanTransceiver

What `LrWpanMac` is built on: a state that was requested is either confirmed
before the request returns (`Granted`) or later (`PutOff`, then `Confirm` or
`EndTx`), receiving a frame counts as RX_ON, and only the request made last is
confirmed. LrWpanPhy implements it with `trxState` as `m_trxState` without
BUSY_RX and `trxRequest` as the request its client has not seen confirmed
(`TransceiverSpec`), for a client that neither forces the transceiver off nor
changes the channel nor asks for TX_ON under a frame. The last restriction is a
gap: the MAC does ask for TX_ON under a frame, after a CCA that did not detect
it for instance. There the end of the frame may take the transmitter away
(hazard `lr-wpan-phy.cc:517`), or leave the transceiver in BUSY_RX without a
frame (`lr-wpan-phy.cc:408`), which LrWpanTransceiver does not show; it shows
only that the frame does not reach the MAC (`Receiving`). Since LrWpanTransceiver
does not tell BUSY_RX from RX_ON, `NoAssertFails` of the MAC cannot see the fatal
error of PdDataRequest in BUSY_RX (`lr-wpan-phy.cc:579`) either; that a confirmed
TX_ON finds the PHY in TX_ON is part of `TransceiverSpec`.

### LrWpanMac

`setMacState` is what the one event member `m_setMacState` will do; it also
stands for the events SendAck and the beacon's SendOneBeacon/DirectTransmission
step, which use the same member. The PHY is the instance `Trx` of
LrWpanTransceiver, which the run `phy` shows LrWpanPhy to implement. CSMA/CA is
reduced to `access`, the number of accesses not answered (more than one when an
operation starts another), which `AccessAbsorbed` lowers when two chains share
a result.

`Enqueue` is the common end of every request that goes through CheckQueue:
`MlmeAssociate` and `McpsDataRequestQueued`. The operations that do not
(`BypassingOps`) are actions of their own: McpsDataRequest (unslotted, or slotted
and associated), MlmeGtsRequest, SendOneBeacon, the device's OneSuperframeProcess
(with a frame for a GTS if `"gtsFrames"` is among them, too), and the GTS request
overheard.

Assertions and fatal errors are not actions but predicates (`SendingFails`,
`EndTxFails`, ...): an event that is scheduled in such a state has no action,
and `NoAssertFails` says that no such state is reached. `front()` of an empty
queue is one of them.

Choices of the environment: which frames pass the address filter, whether the
sequence number of an ACK matches, how long a reception lasts.

The retransmission counter of a frame is compared with `sent`, a history
variable that counts the transmissions of the front, so that the confirms can
be checked against what really was on the air. `lastStatus` is the status of the
last McpsDataConfirm, of which there are two for a data frame: every branch of
McpsDataRequest that accepts a frame confirms SUCCESS before it queues the frame,
and the frame is confirmed again when it leaves the queue. `ConfirmTruthful` is
about the second one only. The first one says nothing of a transmission, against
what `lr-wpan-mac.h` says of the status (`ConfirmedOnceSent`, section 4).

### LrWpanDevice

The variables of LrWpanMac and LrWpanCsmaCa side by side. A step of one of them
is conjoined with what it makes the other do before it returns:

* `Starting`: PlmeSetTRXStateConfirm(RX_ON) in the MAC calls
  `LrWpanCsmaCa::Start`, `Interrupting`: PdDataIndication calls Cancel,
  `Slotting`: MlmeStart and a first beacon call SetSlottedCsmaCa;
* `TurningAround`: a request for TX_ON makes the PHY end a running CCA, and the
  CSMA/CA gets its confirm while the MAC is still inside the request;
* `Reports`: PlmeCcaConfirm calls SetLrWpanMacState, which may turn the receiver
  around before the confirm returns;
* `RequestCCARefused`: what a CCA request is answered depends on the state that
  the MAC has requested.

In LrWpanMac the number of accesses to be answered, `access`, is a variable of
its own and the answers are choices. Here they come from the real algorithm, and
`AccessAgrees` says that the variable is exactly the number of steps of the
CSMA/CA that will answer. `revived` records that a Cancel met a running CCA: the
defect behind hazard `lr-wpan-csmaca.cc:306`, after which `OneAccess` cannot
hold.

### LrWpanGts

`GTSList` is the list of descriptors in the order of the code; the loop that
moves them down and returns in the middle is `MovedDown` together with
`AllocateAgain`. Start slots wrap at 256. `m_CAPLength` is a `uint64_t`; an
integer below zero stands for that value plus 2^64, so `LeavesMinimumCAP` is
true of it, as the comparison in the code is. A beacon resets list, CAP and
final slot only if the list was not empty.

The history variables `announced` and `regular` say what `GtsBehindCAP` may
expect: whether a beacon with a list was ever sent, and whether all requests
since the last one (or since the start) were first allocations. `m_CAPLength`
starts at 16 (SetDefaultPIB) and is 15 after every beacon with a list. An
allocation of n slots therefore makes 16 - n the final CAP slot of the first
list, which is the slot where that GTS begins, but 15 - n in later lists. The
invariant keeps the two cases apart.

### LrWpanGtsPan

`Beacon(hearers)` is SendOneBeacon of the coordinator together with
receivedBeaconProcess and the branch of OneSuperframeProcess for a GTS in each
device that hears it. `Serialized` is what the header does to a descriptor: four
bits for the start slot, four for the length. `HeardSlots` is the list a device
has then: cleared and read anew if it is associated, left as it was if it is
not. `UsableSlots` and `FirstSlots` are the two nested loops with their exits (no
frame left, behind slot 16), so that the frames scheduled fill the slots from
the first one. `transmission` holds the DirectTransmission events; they fire in
the order of their slots and before the next beacon, except that slot 16 is the
time of that beacon.

Devices become associated and dissociated at any time, which includes whatever
LrWpanAssociation does, and requests reach the coordinator at any time with any
length. The module is therefore independent of `IsSendingGTSRequest`, the flag
that decides at a device whether a request is sent.

### LrWpanAssociation

`requests` counts the association requests in the queue of a device and
`responses` holds the addresses in the responses queued for it. A frame of a
queue *arrives* any number of times, never and repeatedly included, before it
*leaves*: loss, and retransmission after a lost ACK. `UpdateDeviceDescriptor` is
the search of the descriptor list and `Mac16Address::Allocate`. `BeaconCheck`
and `Beacon` count and reset the one global `NotReceivedBeaconNum`; `checked`
states that the search duration is longer than the beacon interval. Nothing is
said about when a frame leaves a queue, or that it does: a device that hears
beacons may keep its request for ever (`MCLrWpanMacReceiveBeacon.cfg` in section
4), so that no property claims that a device is associated in the end. Nodes
outside `InPan` accept the beacons but are not in the coordinator's PAN: the
coordinator ignores them, while their checks count like all others.

## 3. The runs

States are distinct states found by TLC.

| run | states | shows |
|---|---|---|
| `csmaca` | 1,530 | With one access at a time: `OneChain`, `WindowNeverWraps`, `ExponentialBackoff`, `GrantedAfterTwoIdle`, `FailsAfterAllBackoffs`, the answer comes (`AccessEnds`), and `AccessSpec`, the refinement of `ChannelAccess` with its liveness. The settings and the mode change under an access. |
| `csmaca_undisciplined` | 866,970 | With overlapping Starts, Cancel during a CCA and changes of mode: `AccessNeverForgotten`. |
| `phy` | 96,624 | With a client that respects the transceiver: `TransmitterHeld`, `BusyRxHasFrame`, `IdleOnlyIfReceiving`, `TransceiverSpec` (the refinement of `LrWpanTransceiver`), and `RequestConfirmed` under fairness. |
| `phy_overriding` | 539,856 | With FORCE_TRX_OFF, channel changes, TX_ON in a reception and overlapping CCAs: `PendingHasCause`, `IndicatedOnlyIfReceived`. |
| `mac` | 18,466 | With requests that use CheckQueue, and no beacons: `NoAssertFails`, `CurrentIsFront`, `EveryWaitEnds`, `IdleQueueOnlyAfterFailure`, `ConfirmTruthful` (of the confirm with which a frame leaves the queue), and `FrontIsServed` under fairness. |
| `mac_bypassing` | 316,708 | With all operations: `WaitEndsUnlessOverheard`. |
| `device` | 263,767 | MAC and CSMA/CA wired together: `AccessAgrees`, `OneAccess`, `NoAssertFails`, and `FrontIsServed` however busy the channel is. |
| `device_bypassing` | 1,616,237 | The same with all operations of the MAC: `AccessAgrees`. |
| `gts` | 331,920 | `GtsDisjoint` in every order of requests, deallocations and beacons, until a start slot wraps; `GtsBehindCAP`: with first allocations alone the slots lie behind the final CAP slot, except in the first list, where the first one begins with it. |
| `gts_pan` | 3,070,269 | With a beacon, associated devices that missed any of the earlier ones schedule frames in slots of their own, unless a start slot wrapped: `SlotsExclusive`, `SlotsGiven`. Dissociated devices, which go on by the list they had, are not covered. |
| `association` | 133,983 | `AddressesAgree`, `DroppedOnlyAfterSilence`, and `SilenceNoticed` under fairness: without beacons some device is dissociated again and again. |
| `association_lost_beacons` | (violation) | see finding 1 |

Eleven configurations beside these are not runs of the project. Each shows a
defect that the code has (section 4).

### Bounds

* `MaxChains = 2` (CSMA/CA): events scheduled at a time. A disciplined client
  never has more than one, which `OneChain` shows and the proof shows for every
  bound (`DisciplineKept` shows it of the MAC). Two chains are what one overlapping Start makes, and enough for a
  result of one to be taken for the other's. The theorem `NeverForgotten` covers
  all other bounds.
* `BackoffSettings`, `MinBESettings`: the default and the smallest value, so
  that a setting may shrink or grow under an access; the maximum exponent 8 is
  larger than `macMaxBE`.
* `Signals`: two frames and one foreign signal: a frame under interference,
  under another frame and under both, and a second reception after the first.
  `MaxEvents = 2` CCA and ED requests and transmissions at a time (1 where
  clients overlap everything), one more than a disciplined client needs.
* `Frames`: one that asks for an ACK, one that does not, one that is too long;
  `MaxQueue = 3` holds all of them. `macMaxFrameRetries = 1`: the first attempt,
  the last one, and the step between them.
* `MaxHeard = 2`: frames received that ask for an ACK, hence interruptions. It
  is also what makes interruptions finite, see fairness. Two interrupt both a
  wait and the access that follows it.
* `MaxAccess = 1`: an operation that bypasses the queue does not start another
  access while one is running; the MAC's own access may overlap it.
* LrWpanDevice: the two frames above and `MaxQueue = 2`. `Backoffs` is the limit
  of backoffs, 1 in `device` (an access goes through one busy CCA and fails at
  the second), 0 in `device_bypassing`. `MaxChains = 4` is never reached in
  `device`. In `device_bypassing`, where accesses pile up without end, it stops
  the fifth; two chains are enough for a result shared. `MaxWindow = 2`: a
  window that wrapped (hazard `lr-wpan-csmaca.cc:313`) meets a busy CCA before
  it has counted 255 idle ones.
* `Lengths = {1, 7, 9}` in `gts`: the smallest GTS, one that fits beside the
  minimum CAP once, one that is larger than the CAP left by another.
  `MaxTimers = 1` deallocation of each device and length, `MaxRequests = 4`
  between two beacons: one per device and one repeated. The three devices are
  symmetric, and no property of these runs is temporal beyond single steps.
* `gts_pan`: two symmetric devices, `Lengths = {2, 5}`, so that both fit and a
  late deallocation returns more or fewer slots than it frees; `MaxRequests = 2`
  and `MaxFrames = 2`, fewer or more frames than slots. Start slots do not wrap
  at these bounds; they do in `gts`, and the theorems have no bounds.
* `association`: two devices, an address for each, `aMaxLostBeacons = 4` as in
  the code and `MaxQueue = 2` requests and responses of each at a time, so that
  a second one is answered after the first was. With two devices two silent
  intervals drop one. `association_lost_beacons` has four nodes, the smallest
  number that reaches the limit within one interval.

Deadlock is checked in every run.

### Fairness

The simulator runs every event that is scheduled, so the specifications assume
weak fairness of each kind of event handler (an event that is cancelled and
scheduled again is not continuously enabled, and fairness does not demand it).
No operation of a client and no arrival of a signal or a frame is fair.

* CSMA/CA: the four event handlers. `AbortCca` is a client's doing and not fair.
* PHY: EndRx per signal, EndTx, EndSetTRXState.
* Device: the handlers of both layers. The answer to an access is no longer
  assumed: it follows from the handlers of the CSMA/CA, and the channel may be
  busy at every CCA.
* Association: SendOneBeacon and beaconCheck, each of which schedules itself
  again. Who hears a beacon is open, and nothing is assumed about frames.
* GTS: no liveness, no fairness.
* MAC: the `m_setMacState` event, the PHY's confirm and EndTx, the ACK timer,
  a Start and a DirectTransmission it has scheduled, and the answer to an access. The last one is what `ChannelAccess` promises and
  the run `csmaca` shows. `FrontIsServed` also needs interruptions to be finite:
  a neighbour that sends without end keeps the MAC from ever sending, in the
  code as in the model; `MaxHeard` states that. It holds without beacons only:
  a device that receives them may never send (`MCLrWpanMacReceiveBeacon.cfg`).

## 4. Where code and documentation disagree

1. `association_lost_beacons`: beaconCheck is commented "check beacon loss", but
   it counts in a global variable: where four nodes run it, one is dissociated
   between two beacons that all of them heard. What does hold is
   `DroppedOnlyAfterSilence`: the number of devices times the number of silent
   intervals reaches the limit.

The line and quotation are in `PROJECT.json` ("findings"). Eleven more
configurations, kept beside the runs, each end in a violation of what the code's
comments or documentation say, or of what a passing run shows of a client that
avoids the defect:

* `MCLrWpanCsmaCaStaleConfirm.cfg` (`ConfirmAfterCancelIgnored`): a comment says
  that a CCA confirm that comes after Cancel is ignored; Cancel leaves
  `m_ccaRequestRunning` set, so it is not. In LrWpanDevice this is `revived`.
* `MCLrWpanPhyChannelChange.cfg` (`ChannelChangeCorruptsTx`): a comment says that
  a channel change corrupts the frame in transmission; the state is TRX_OFF
  before the code asks whether it is busy, so EndTx confirms SUCCESS.
* `MCLrWpanMacDataRequest.cfg` (`GrantIsUsed`): the documentation says that a data
  request assesses the channel and then sends; McpsDataRequest starts the access
  without leaving MAC_IDLE, which ignores the answer.
* `MCLrWpanMacOverhear.cfg` (`EveryWaitEnds`): a comment says that an access that
  an ACK interrupts is tried again; a device that overhears the GTS request of
  another one gives up its access, returns before the ACK and waits for nothing.
* `MCLrWpanGtsMinimumCAP.cfg` (`CAPKeepsMinimum`): the member is called the
  minimum length of the CAP; the check of it underflows.
* `MCLrWpanGtsFirstList.cfg` (`FirstListBehindCAP`): `m_CAPLength` starts at 16
  slots but is set to 15 by every beacon with a list. In the first list the final
  CAP slot is the first slot of the first GTS.
* `MCLrWpanMacEarlyConfirm.cfg` (`ConfirmedOnceSent`): `lr-wpan-mac.h` calls the
  status of McpsDataConfirm that of the last MSDU transmission; McpsDataRequest
  confirms SUCCESS before the frame is queued.
* `MCLrWpanMacReceiveBeacon.cfg` (`FrontIsServed`): a frame that
  CHANNEL_ACCESS_FAILURE left in the queue is put into `m_txPkt` by the next
  beacon, which schedules Start in MAC_IDLE. The grant is ignored, CheckQueue finds
  `m_txPkt` taken, and every later beacon does the same.
* `MCLrWpanPhyTxOnInRx.cfg` (`TransmitterHeld`): a client asks for TX_ON under a
  frame; the end of that frame sets RX_ON under the transmission.
* `MCLrWpanPhyBusyWithoutFrame.cfg` (`BusyRxHasFrame`): the same client; the frame
  ends during the turnaround and leaves BUSY_RX without a frame, in which the next
  signal makes CheckInterference dereference a null pointer.
* `MCLrWpanAssociationSilence.cfg` (`SilenceNoticedByAll`): beacons stay away from
  two devices; the global counter reaches its limit at the same device each time,
  and the other one stays associated.

## 5. The proofs

Every proof module EXTENDS the module it is about. A `TypeCorrect` is proved for
every module (`PanTypeCorrect` for the GTS composition; a device has the types
of its two parts), without assumptions beyond the module's own. Every invariant
and action property that a run checks is stated by a theorem. Where a theorem
says "for every client", its constants are arbitrary; the others name the
operations they exclude with `ASSUME`, as the run that checks the same property
does.

### LrWpanCsmaCa_proofs

* `NeverForgotten`: `Spec => []AccessNeverForgotten`, for every client. The
  invariant is inductive together with `TypeOK`. The argument is in
  `ConfirmNeverForgets`: a confirm that is heeded either answers the access or
  schedules its next step; one that is not heeded finds the flag down, so that
  the access was waiting for another step than a CCA.

and for a client that keeps to the discipline (`ASSUME ClientOps = {}`):

* `OneAccessHolds`: the inductive invariant
  `OneAccess == TypeOK /\ OneChain /\ AccessCounts /\ ExponentialBackoff`.
  `OneChain` is not inductive with the counters alone and the counters are not
  without it: that the window lies in 1..2 at a CCA follows from how many idle
  CCAs this access has had (`AccessCounts`), which is known only when no other
  chain changes CW and NB. `DisciplinedStep` has one step per action;
  `ConfirmKeepsOneAccess` is the part common to the actions that end in
  PlmeCcaConfirm.
* `OneChainHolds`, `WindowHolds`, `BackoffHolds`: the invariants it implies.
* `GrantHolds`, `FailureHolds`: the action properties `GrantedAfterTwoIdle` and
  `FailsAfterAllBackoffs`, from the invariant before the step.
* `AccessImplemented`: initial states and steps of LrWpanCsmaCa are those of
  ChannelAccess, or stutter: the safety part of `AccessSpec`.

### LrWpanPhy_proofs

* `IndicatedOnlyIfReceivedAlways`, for every client. The invariant is
  `FrameInv`: a current frame that is not destroyed has the receiver, and no
  turnaround runs that could take it away.
* For a client that does not force the transceiver off, change the channel or
  ask for TX_ON under a frame (`Respectful`): `TransmitterHeldAlways`,
  `BusyRxHasFrameAlways`, `PendingHasCauseAlways` and `TransceiverImplemented`,
  the whole refinement `Spec => TransceiverSpec`. All follow from `SwitchInv`,
  which says for each busy, turning and pending state what its one cause is;
  none of its five parts is inductive alone, since the end of one event decides
  by the others what the next state is. `Aside` collects the steps that do not
  concern the switch.
* `IdleOnlyIfReceivingAlways`, for a client without optional operations: with
  `CcaInv`, while a CCA runs the receiver is on and nothing is pending.

`PendingHasCause` is model-checked for overriding clients, too
(`phy_overriding`).

### LrWpanMac_proofs

For every client, whatever operations bypass the queue:

* `TypeCorrect`, by lemmas about the transitions that actions share (`GoIdle`,
  `GoCsma`, `GoSending`, `PdDataRequest`, `Interrupted`), grouped by the
  variables they concern.
* `WaitEndsUnlessOverheardAlways`: `EveryWaitEnds` needs two more facts to be
  inductive (`WaitInv`): a receiver that is on is not about to be turned on, so
  that a request for it confirms, and MAC_ACK_PENDING is only scheduled with the
  timer running. `EveryWaitEndsAlways` follows where `"overhear" \notin
  ClientOps`, since then nothing is overheard.

For a MAC whose requests go through CheckQueue (`ASSUME ClientOps = {}`):

* `MacInvAlways`: the inductive invariant `MacInv` says for each of the four
  states which event is scheduled, what `m_txPkt` holds, whether the ACK timer
  runs, what the transceiver does and whether an access is to be answered. No
  part is inductive alone: each state is entered from others, and what holds in
  it is what held there. `CurrentIsFront` in particular depends on what
  `m_setMacState` may be in each state, and that on the timer and on the
  transceiver, which decide what may interrupt the state. `MacStep` has one step
  per action; `GoIdleInv`, `GoCsmaInv` and `GoSendingInv` are the transitions
  that actions share.
* `NoAssertFailsAlways`, `CurrentIsFrontAlways`, `IdleQueueOnlyAfterFailureAlways`
  are what it implies.
* `ConfirmTruthfulAlways`, about the confirm with which a frame leaves the queue:
  with `SentInv`, the front of the queue was sent once
  more than it was retried while it is on the air or its ACK is awaited
  (`OnTheAir`), and as often as it was retried otherwise. The confirm is true
  because it is given only at the step that leaves `OnTheAir`.

### LrWpanDevice_proofs

The proofs reuse those of LrWpanMac: `MacP` instantiates LrWpanMac_proofs with
the variables of the device, and `SameSteps` says that its actions are those of
`Mac`.

* `MacImplemented`, for every client: every step of a device is a step of
  LrWpanMac. So the lemmas on steps of LrWpanMac_proofs apply (its theorems do
  not: their `Spec` has fairness that a device has not), and give
  `NoAssertFailsAlways`.
* `AccessAgreesAlways`, for every client. The argument counts: an event that
  fires takes one from the steps of its kind and `Schedule` adds one
  (`FireCounts`, `ScheduleCounts`), a confirm that counts ends an access or
  schedules a step of it (`ConfirmCounts`), and the step of the MAC that comes
  with it (`ReportAgrees`) changes `access` by as many. In TurningAround and
  Interrupting the model itself takes from the CSMA/CA how many accesses the MAC
  has left; what LrWpanMac allows there is `MacImplemented`.
* `OneAccessAlways` (`ASSUME ClientOps = {}`): counts do not suffice, since a
  forgotten event counts, too. `ChainInv` adds that, until Cancel meets a
  running CCA, no event is forgotten and the flag is up while a CCA runs; then
  the only step scheduled is that of the access in MAC_CSMA. It needs `MacInv`:
  the receiver is on while an access is to be answered.
* `DisciplineKept`, under the same assumption: until Cancel meets a running CCA,
  what the MAC does with the CSMA/CA is what LrWpanCsmaCa allows a client without
  optional operations: the hypothesis of the theorems in LrWpanCsmaCa_proofs. The
  invariant is `ChainInv` with `Waiting`: a verdict is awaited exactly while there
  is an access.

### LrWpanGts_proofs and LrWpanGtsPan_proofs

* `GtsDisjointAlways`: the inductive invariant is `DisjointInv`: the list is in
  order *and* ends at slot 16 (`InOrder`), as long as no start slot wrapped.
  Without the end an allocation could not know that the last slots are free.
  `MovedDownInOrder`, `RemoveAtInOrder` and `AppendInOrder` are the lemmas about
  the three things that happen to the list.
* `GtsBehindCAPAlways`: with `CAPInv`, the slots taken since a beacon with a list
  are those that the CAP gave up, which had 15 then; before the first one it had
  16, one more than lie before the slots taken, and the bound is weaker by one.
* `SlotsGivenAlways`, `SlotsExclusiveAlways` for any number of associated devices:
  the lemma `Coordinator` (`PanSpec => Spec`) carries `DisjointInv` over to the
  composition; `FourBits` shows that the header loses nothing of a descriptor
  that ends by slot 16, except one that starts there, which is empty.
* `PanTypeCorrect`: what needs an argument is that a device takes no more frames
  from its queue than it has. They are as many as the slots that have fewer than
  that many slots before them; `FirstSlotsBound` maps those one to one to
  `0 .. n - 1`.

### LrWpanAssociation_proofs

* `AddressesAgreeAlways`: the invariant `AddressInv` ties three things that are
  changed at different times: descriptors differ, every response under way
  brings the address of its descriptor, an associated device has that address.
* `DroppedOnlyAfterSilenceAlways`: `CounterInv` bounds the global counter by the
  silent intervals times the number of devices, plus those that have counted in
  the current one.

### Only model-checked

Liveness (`AccessEnds`, the fairness part of `AccessSpec`, `RequestConfirmed`,
`FrontIsServed`, `SilenceNoticed`), which the prover cannot do since it
involves ENABLED. That the fairness of a device implies the fairness LrWpanMac
assumes is such a property; the run `device` checks `FrontIsServed` of the device
itself instead.

## 6. Not modelled

* Floating point: error model, spectrum values, power, LQI. Their effect is a
  choice of the environment. The lengths of superframes and slots in symbols
  are left out with them; the order of what they schedule is kept.
* Frame headers and trailers, the CRC: serialisation without state. The one
  effect on the protocol that the modules need, the four bits of a GTS
  descriptor, is `Serialized` in LrWpanGtsPan.
* Sequence numbers: an ACK may match or not as the environment likes, which
  allows more than the comparison of the code.
* `IsSendingGTSRequest`: requests for a GTS reach the coordinator at any time,
  which includes every value of the flag. `IsGTSBeaconTracking` is never set:
  its branch is dead.
* `m_BLE` and other dead branches; tracing and logging; DoDispose.
* The PIB attributes of the PHY whose setters only store a value.
* Address translation and callbacks to the upper layers in the net device; the
  helper's creation of objects.
* Python bindings (`bindings/modulegen__gcc_*.py`, `callbacks_list.py`): output of
  the binding generator, one registration call for each class and method of the
  C++ headers. They have no state and no control flow, and there is nothing of
  the protocol in them to model.
* Examples and tests, which were read for the intended use.

## 7. Plan

Done: the modules of section 2. What is left, in this order:

1. Proofs: what DisciplineKept carries over from LrWpanCsmaCa to the device as
   invariants of the device (`OneChain`, the window and the exponent of an access
   that was not revived), and `AccessNeverForgotten` of a device with any client.
2. Sequence numbers and ACKs between two devices: duplicates after a lost ACK,
   an ACK for one frame that matches another (hazard `lr-wpan-mac.cc:816`).
3. The timers of the superframe, so that properties can be stated for a MAC
   that sends or receives beacons (hazards `lr-wpan-mac.cc:2149` and `:1584`) and
   frames in a GTS (`lr-wpan-mac.cc:740`).
4. Sizes and bit fields of the headers as operators, checked against a reference
   definition over bounded inputs.
