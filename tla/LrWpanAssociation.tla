-------------------------- MODULE LrWpanAssociation --------------------------
(***************************************************************************)
(* Association and beacon tracking in model/lr-wpan-mac.cc: devices that   *)
(* hear the beacons of a PAN coordinator ask it for a short address, and   *)
(* are dissociated by beaconCheck when beacons stay away.                  *)
(*                                                                         *)
(* Requests and responses are frames of the transmit queues.  Until it     *)
(* leaves the queue a frame may arrive never, once, or, when the ACK was   *)
(* lost, several times.  Nothing is assumed about when it leaves, or that  *)
(* it does: where beacons are received it may stay for ever (LrWpanMac).   *)
(* The responses to one device keep their order; how they lie between      *)
(* those to others makes no difference.                                    *)
(*                                                                         *)
(* beaconCheck counts in NotReceivedBeaconNum, which is a global variable: *)
(* all the nodes of the simulation count in it, and a beacon that any of   *)
(* them accepts sets it to 0.                                              *)
(***************************************************************************)
EXTENDS Integers, FiniteSets, Sequences

CONSTANTS
  Devices,            \* the nodes that run beaconCheck
  InPan,              \* those that AssociateToPan has put into the PAN; the
                      \* others accept its beacons, too, but it ignores them
  Addresses,          \* what Mac16Address::Allocate returns, each one once
  Preset, Broadcast,  \* the short address set by AssociateToPan, and ff:ff
  NoAddress,
  aMaxLostBeacons,    \* m_aMaxLostBeacons
  MaxQueue            \* bound: requests of, and responses to, a device that
                      \* are in a transmit queue

ASSUME AssociationAssumption ==
  /\ IsFiniteSet(Devices) /\ Devices # {}
  /\ InPan \subseteq Devices
  /\ {Preset, Broadcast, NoAddress} \intersect Addresses = {}
  /\ aMaxLostBeacons \in Nat \ {0}
  /\ MaxQueue \in Nat

VARIABLES
  associated,             \* m_associationStatus is ASSOCIATED
  shortAddress,           \* m_shortAddress
  requests,               \* association requests in m_txQueue of a device
  descriptors,            \* m_deviceDescriptorHandleList of the coordinator
  responses,              \* responses to a device in its m_txQueue, each
                          \* one the address it brings
  NotReceivedBeaconNum,   \* the global counter
  checked,       \* the devices whose beaconCheck ran since the last beacon
  silent,        \* history: beacons that nobody accepted, since one was
  lost           \* history: has any device lost a beacon?

vars == <<associated, shortAddress, requests, descriptors, responses,
          NotReceivedBeaconNum, checked, silent, lost>>

(* Devices start DISASSOCIATED.                                            *)
Init ==
  /\ associated = [d \in Devices |-> FALSE]
  /\ shortAddress = [d \in Devices |-> Preset]
  /\ requests = [d \in Devices |-> 0]
  /\ descriptors = [d \in Devices |-> NoAddress]
  /\ responses = [d \in Devices |-> <<>>]
  /\ NotReceivedBeaconNum = 0
  /\ checked = {}
  /\ silent = 0
  /\ lost = FALSE
-----------------------------------------------------------------------------
(* beaconCheck runs every m_beaconSearchDuration, which is longer than the *)
(* beacon interval: at most once between two beacons.                      *)

Loses(d) ==
  /\ NotReceivedBeaconNum' = 0
  /\ associated' = [associated EXCEPT ![d] = FALSE]
  /\ shortAddress' = [shortAddress EXCEPT ![d] = Broadcast]

(* Mutant of BeaconCheck: it allows for one lost beacon more.              *)
BeaconCheckLate(d) ==
  /\ d \notin checked
  /\ checked' = checked \union {d}
  /\ IF NotReceivedBeaconNum + 1 > aMaxLostBeacons
       THEN Loses(d)
       ELSE /\ NotReceivedBeaconNum' = NotReceivedBeaconNum + 1
            /\ UNCHANGED <<associated, shortAddress>>
  /\ UNCHANGED <<requests, descriptors, responses, silent, lost>>

BeaconCheck(d) ==
  /\ d \notin checked
  /\ checked' = checked \union {d}
  /\ IF NotReceivedBeaconNum + 1 >= aMaxLostBeacons
       THEN Loses(d)
       ELSE /\ NotReceivedBeaconNum' = NotReceivedBeaconNum + 1
            /\ UNCHANGED <<associated, shortAddress>>
  /\ UNCHANGED <<requests, descriptors, responses, silent, lost>>
-----------------------------------------------------------------------------
(* The coordinator sends a beacon, and the devices in hearers receive it.  *)
(* Each of these that is not associated queues a request, although there   *)
(* may be others in its queue.                                             *)

Silent(hearers) ==
  IF hearers # {} THEN 0
  ELSE IF silent < aMaxLostBeacons THEN silent + 1 ELSE silent

Asking(hearers) == {d \in hearers : ~associated[d]}

(* Mutant of Beacon: only an associated device resets the counter.         *)
BeaconResetsIfAssociated(hearers) ==
  /\ \A d \in Asking(hearers) : requests[d] < MaxQueue
  /\ requests' = [d \in Devices |->
                    requests[d] + IF d \in Asking(hearers) THEN 1 ELSE 0]
  /\ NotReceivedBeaconNum' = IF hearers \ Asking(hearers) # {}
                               THEN 0 ELSE NotReceivedBeaconNum
  /\ checked' = {}
  /\ silent' = Silent(hearers)
  /\ lost' = (lost \/ hearers # Devices)
  /\ UNCHANGED <<associated, shortAddress, descriptors, responses>>

(* Mutant of Beacon: the counter is reset when a beacon is sent.           *)
BeaconResetsAlways(hearers) ==
  /\ \A d \in Asking(hearers) : requests[d] < MaxQueue
  /\ requests' = [d \in Devices |->
                    requests[d] + IF d \in Asking(hearers) THEN 1 ELSE 0]
  /\ NotReceivedBeaconNum' = 0
  /\ checked' = {}
  /\ silent' = Silent(hearers)
  /\ lost' = (lost \/ hearers # Devices)
  /\ UNCHANGED <<associated, shortAddress, descriptors, responses>>

Beacon(hearers) ==
  /\ \A d \in Asking(hearers) : requests[d] < MaxQueue
  /\ requests' = [d \in Devices |->
                    requests[d] + IF d \in Asking(hearers) THEN 1 ELSE 0]
  /\ NotReceivedBeaconNum' = IF hearers # {} THEN 0 ELSE NotReceivedBeaconNum
  /\ checked' = {}
  /\ silent' = Silent(hearers)
  /\ lost' = (lost \/ hearers # Devices)
  /\ UNCHANGED <<associated, shortAddress, descriptors, responses>>
-----------------------------------------------------------------------------
(* A request arrives at the coordinator, which answers every one of them.  *)

Allocate == {a \in Addresses : \A d \in Devices : descriptors[d] # a}

Respond(d, a) ==
  /\ descriptors' = [descriptors EXCEPT ![d] = a]
  /\ responses' = [responses EXCEPT ![d] = Append(@, a)]

(* Mutant of UpdateDeviceDescriptor: it does not look for a descriptor.    *)
AlwaysNewDescriptor(d) == \E a \in Allocate : Respond(d, a)

(* updateDeviceDescriptorWithResponseParam and MlmeAssociateResponse.      *)
UpdateDeviceDescriptor(d) ==
  IF descriptors[d] # NoAddress
    THEN Respond(d, descriptors[d])
    ELSE \E a \in Allocate : Respond(d, a)

RequestArrives(d) ==
  /\ requests[d] > 0
  /\ d \in InPan
  /\ Len(responses[d]) < MaxQueue
  /\ UpdateDeviceDescriptor(d)
  /\ UNCHANGED <<associated, shortAddress, requests, NotReceivedBeaconNum,
                 checked, silent, lost>>

RequestLeaves(d) ==
  /\ requests[d] > 0
  /\ requests' = [requests EXCEPT ![d] = @ - 1]
  /\ UNCHANGED <<associated, shortAddress, descriptors, responses,
                 NotReceivedBeaconNum, checked, silent, lost>>

(* A response arrives, however late, and whatever the device is by then.   *)
ResponseArrives(d) ==
  /\ responses[d] # <<>>
  /\ associated' = [associated EXCEPT ![d] = TRUE]
  /\ shortAddress' = [shortAddress EXCEPT ![d] = Head(responses[d])]
  /\ UNCHANGED <<requests, descriptors, responses, NotReceivedBeaconNum,
                 checked, silent, lost>>

ResponseLeaves(d) ==
  /\ responses[d] # <<>>
  /\ responses' = [responses EXCEPT ![d] = Tail(@)]
  /\ UNCHANGED <<associated, shortAddress, requests, descriptors,
                 NotReceivedBeaconNum, checked, silent, lost>>
-----------------------------------------------------------------------------
Next ==
  \/ \E hearers \in SUBSET Devices : Beacon(hearers)
  \/ \E d \in Devices :
       \/ BeaconCheck(d)
       \/ RequestArrives(d)
       \/ RequestLeaves(d)
       \/ ResponseArrives(d)
       \/ ResponseLeaves(d)

(* SendOneBeacon and beaconCheck schedule themselves again.  Nothing is    *)
(* assumed about who hears a beacon, nor about frames.                     *)
Fairness ==
  /\ WF_vars(\E hearers \in SUBSET Devices : Beacon(hearers))
  /\ \A d \in Devices : WF_vars(BeaconCheck(d))

Spec == Init /\ [][Next]_vars /\ Fairness
-----------------------------------------------------------------------------
TypeOK ==
  /\ associated \in [Devices -> BOOLEAN]
  /\ shortAddress \in [Devices -> Addresses \union {Preset, Broadcast}]
  /\ requests \in [Devices -> 0 .. MaxQueue]
  /\ descriptors \in [Devices -> Addresses \union {NoAddress}]
  /\ responses \in [Devices -> Seq(Addresses)]
  /\ \A d \in Devices : Len(responses[d]) <= MaxQueue
  /\ NotReceivedBeaconNum \in 0 .. aMaxLostBeacons - 1
  /\ checked \subseteq Devices
  /\ silent \in 0 .. aMaxLostBeacons
  /\ lost \in BOOLEAN

(* An associated device uses the address that the coordinator knows it by, *)
(* and no other device has it, although requests pile up, and responses    *)
(* come twice or after the device was dissociated.                         *)
AddressesAgree ==
  \A d \in Devices : associated[d] =>
    /\ shortAddress[d] \in Addresses
    /\ shortAddress[d] = descriptors[d]
    /\ \A e \in Devices \ {d} : associated[e] =>
         shortAddress[e] # shortAddress[d]

(* beaconCheck dissociates a device only after beacons that nobody         *)
(* accepted; how many depends on the number of devices that count, for     *)
(* each of them counts once in a beacon interval.                          *)
DropsAfterSilence ==
  (\E d \in Devices : associated[d] /\ ~associated'[d])
    => (silent + 1) * Cardinality(Devices) >= aMaxLostBeacons

DroppedOnlyAfterSilence == [][DropsAfterSilence]_vars

(* If from some time on no beacon is accepted, beaconCheck notices: again  *)
(* and again some device is dissociated, although late responses associate *)
(* devices meanwhile, and each dissociation sets the global counter back.  *)
SilenceNoticed ==
  <>[](silent > 0) => []<>(\E d \in Devices : ~associated[d])

(* What should hold: every device notices.  It does not: the counter may   *)
(* reach its limit at the same device each time.                           *)
SilenceNoticedByAll ==
  <>[](silent > 0) => \A d \in Devices : []<>~associated[d]

(* lr-wpan-mac.cc on beaconCheck: check beacon loss.                       *)
DroppedOnlyIfBeaconLost ==
  [][(\E d \in Devices : associated[d] /\ ~associated'[d]) => lost]_vars
=============================================================================
