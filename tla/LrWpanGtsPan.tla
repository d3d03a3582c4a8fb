---------------------------- MODULE LrWpanGtsPan ----------------------------
(***************************************************************************)
(* A coordinator (LrWpanGts) and the devices it gives slots to, in         *)
(* model/lr-wpan-mac.cc: what a beacon says of the slots once its header   *)
(* has been serialised, what a device that hears it makes of that          *)
(* (receivedBeaconProcess, OneSuperframeProcess), and the frames that it   *)
(* then sends in its slots.                                                *)
(*                                                                         *)
(* Each device may miss any beacon, and is associated and dissociated      *)
(* meanwhile (see LrWpanAssociation).                                      *)
(*                                                                         *)
(* A request may arrive at the coordinator at any time, with any length:   *)
(* upper layers call MlmeGtsRequest, and a request that SendGTSAllocation- *)
(* Request made is retransmitted, or arrives one superframe late.          *)
(***************************************************************************)
EXTENDS LrWpanGts, FiniteSets

CONSTANTS
  MaxFrames      \* bound: frames in the GTS queue of a device

ASSUME PanAssumption == MaxFrames \in Nat

VARIABLES
  associated,    \* m_associationStatus of a device is ASSOCIATED
  GTSSlotList,   \* of a device: the starts and lengths of its slots
  GTStxQueue,    \* how many frames wait in m_GTStxQueue of a device
  transmission   \* the slots for which it has scheduled a DirectTransmission

device  == <<associated, GTSSlotList, GTStxQueue, transmission>>
panVars == <<vars, device>>

PanInit ==
  /\ Init
  /\ associated = [d \in Devices |-> FALSE]
  /\ GTSSlotList = [d \in Devices |-> {}]
  /\ GTStxQueue = [d \in Devices |-> 0]
  /\ transmission = [d \in Devices |-> {}]
-----------------------------------------------------------------------------
(* The beacon header has four bits for a start slot and four for a length. *)
Serialized(descriptor) ==
  [start |-> descriptor.start % 16, length |-> descriptor.length % 16]

(* What receivedBeaconProcess takes over: a start slot 0 stands for a      *)
(* request that was denied.  A device has one descriptor at most.          *)
OwnSlots(d) ==
  {Serialized(GTSList[i]) : i \in
     {i \in DOMAIN GTSList : /\ GTSList[i].device = d
                             /\ GTSList[i].start % 16 # 0}}

(* Mutant of HeardSlots: the list is kept if the beacon has no slots.      *)
HeardSlotsKept(d) ==
  IF associated[d] /\ OwnSlots(d) # {} THEN OwnSlots(d) ELSE GTSSlotList[d]

(* A device that is not associated leaves its list as it was.              *)
HeardSlots(d) == IF associated[d] THEN OwnSlots(d) ELSE GTSSlotList[d]

(* The slots that OneSuperframeProcess may use of one descriptor, and of a *)
(* list: the loop leaves a descriptor once it is behind slot 16.           *)
Usable(slots) == slots.start .. slots.start + slots.length - 1

UsableSlots(list) ==
  (UNION {Usable(descriptor) : descriptor \in list}) \intersect (0 .. 16)

(* Mutant of FirstSlots: the queue is read before it is tested.            *)
FirstSlotsAndOne(slots, n) ==
  {s \in slots : Cardinality({t \in slots : t < s}) <= n}

(* One frame in each slot, from the first one, as long as there are any.   *)
FirstSlots(slots, n) ==
  {s \in slots : Cardinality({t \in slots : t < s}) < n}

(* Time: what was scheduled for slots 1 to 15 has been sent when the next  *)
(* beacon is, and slot 16 is slot 0 of its superframe.                     *)
SuperframeEnds == \A d \in Devices : transmission[d] \subseteq {16}

Late(d) == IF 16 \in transmission[d] THEN {0} ELSE {}

Hear(hearers) ==
  LET slots(d) == IF d \in hearers
                    THEN FirstSlots(UsableSlots(HeardSlots(d)), GTStxQueue[d])
                    ELSE {}
  IN  /\ transmission' = [d \in Devices |-> Late(d) \union slots(d)]
      /\ GTStxQueue' = [d \in Devices |->
                          GTStxQueue[d] - Cardinality(slots(d))]
      /\ GTSSlotList' = [d \in Devices |-> IF d \in hearers
                                             THEN HeardSlots(d)
                                             ELSE GTSSlotList[d]]

(* SendOneBeacon, and its reception by some of the devices.                *)
Beacon(hearers) ==
  /\ SuperframeEnds
  /\ SendOneBeacon \/ SendBeaconWithoutList
  /\ Hear(hearers)
  /\ UNCHANGED associated
-----------------------------------------------------------------------------
(* McpsDataRequest with TX_OPTION_GTS.                                     *)
McpsDataRequest(d) ==
  /\ GTStxQueue[d] < MaxFrames
  /\ GTStxQueue' = [GTStxQueue EXCEPT ![d] = @ + 1]
  /\ UNCHANGED <<vars, associated, GTSSlotList, transmission>>

(* DirectTransmission, in the order of the slots.                          *)
DirectTransmission(d, s) ==
  /\ s \in transmission[d]
  /\ \A e \in Devices : \A t \in transmission[e] : s <= t
  /\ transmission' = [transmission EXCEPT ![d] = @ \ {s}]
  /\ UNCHANGED <<vars, associated, GTSSlotList, GTStxQueue>>

(* beaconCheck does not touch the slots.                                   *)
Dissociate(d) ==
  /\ associated[d]
  /\ associated' = [associated EXCEPT ![d] = FALSE]
  /\ UNCHANGED <<vars, GTSSlotList, GTStxQueue, transmission>>

Associate(d) ==
  /\ ~associated[d]
  /\ associated' = [associated EXCEPT ![d] = TRUE]
  /\ UNCHANGED <<vars, GTSSlotList, GTStxQueue, transmission>>
-----------------------------------------------------------------------------
AtCoordinator ==
  /\ \E d \in Devices, n \in Lengths :
       \/ Deallocate(d, n)
       \/ Allocate(d, n)
       \/ AllocateAgain(d, n)
       \/ DeallocationFires(d, n)
  /\ UNCHANGED device

PanNext ==
  \/ AtCoordinator
  \/ \E hearers \in SUBSET Devices : Beacon(hearers)
  \/ \E d \in Devices :
       \/ McpsDataRequest(d)
       \/ \E s \in 0 .. 16 : DirectTransmission(d, s)
       \/ Dissociate(d)
       \/ Associate(d)

PanSpec == PanInit /\ [][PanNext]_panVars
-----------------------------------------------------------------------------
PanTypeOK ==
  /\ TypeOK
  /\ associated \in [Devices -> BOOLEAN]
  /\ GTSSlotList \in
       [Devices -> SUBSET [start : 1 .. 15, length : 0 .. 15]]
  /\ GTStxQueue \in [Devices -> 0 .. MaxFrames]
  /\ transmission \in [Devices -> SUBSET (0 .. 16)]

BeaconStep == \E hearers \in SUBSET Devices : Beacon(hearers)

(* With a beacon no two associated devices schedule frames for the same    *)
(* slot (receivedBeaconProcess, OneSuperframeProcess): whichever beacons   *)
(* they missed before, and however the coordinator added, moved and        *)
(* removed the slots meanwhile, unless a start slot left the superframe.   *)
SlotsExclusive ==
  [][BeaconStep /\ ~wrapped =>
       \A d, e \in Devices :
         d # e /\ associated[d] /\ associated[e]
           => transmission'[d] \intersect transmission'[e] \subseteq {0}
    ]_panVars

(* What an associated device schedules with a beacon lies in slots that    *)
(* this beacon gives to it, between slot 0 and the end of the superframe:  *)
(* neither what the four bits of the header drop, nor the test of slot 16, *)
(* nor slots it was given before lead it astray, as long as no start slot  *)
(* left the superframe.                                                    *)
SlotsGiven ==
  [][BeaconStep /\ ~wrapped =>
       \A d \in Devices : associated[d] =>
         \A s \in transmission'[d] \ {0} : \E i \in DOMAIN GTSList :
           /\ GTSList[i].device = d
           /\ s \in Usable(GTSList[i]) \intersect 1 .. 15
    ]_panVars
=============================================================================
