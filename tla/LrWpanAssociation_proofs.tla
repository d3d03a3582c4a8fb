---------------------- MODULE LrWpanAssociation_proofs ----------------------
(***************************************************************************)
(* Proofs about LrWpanAssociation for every number of devices, addresses,  *)
(* lost beacons and frames in the queues.                                  *)
(*                                                                         *)
(* AddressesAgree needs that descriptors differ and that every response,   *)
(* however old, brings the address of the descriptor.  DroppedOnlyAfter-   *)
(* Silence needs that each device adds one at most to the counter between  *)
(* two beacons, and that an accepted beacon sets it to 0.                  *)
(***************************************************************************)
EXTENDS LrWpanAssociation, TLAPS, FiniteSetTheorems, SequenceTheorems

(* What UpdateDeviceDescriptor answers: the address of the descriptor it   *)
(* finds, or one that no descriptor has.                                   *)
LEMMA ResponseHasDescriptor ==
  ASSUME NEW d, UpdateDeviceDescriptor(d)
  PROVE  \E a : /\ Respond(d, a)
                /\ \/ descriptors[d] # NoAddress /\ a = descriptors[d]
                   \/ descriptors[d] = NoAddress /\ a \in Allocate
<1>1. CASE descriptors[d] # NoAddress
  BY <1>1 DEF UpdateDeviceDescriptor
<1>2. CASE descriptors[d] = NoAddress
  BY <1>2 DEF UpdateDeviceDescriptor
<1>3. QED
  BY <1>1, <1>2

LEMMA ResponseAddress ==
  ASSUME TypeOK, NEW d \in Devices, NEW a,
         \/ descriptors[d] # NoAddress /\ a = descriptors[d]
         \/ descriptors[d] = NoAddress /\ a \in Allocate
  PROVE  a \in Addresses
  BY DEF TypeOK, Allocate

LEMMA AppendAndTailTypes ==
  ASSUME NEW s \in Seq(Addresses), NEW a \in Addresses
  PROVE  /\ Append(s, a) \in Seq(Addresses) /\ Len(Append(s, a)) = Len(s) + 1
         /\ s # <<>> => /\ Tail(s) \in Seq(Addresses)
                        /\ Len(Tail(s)) = Len(s) - 1
                        /\ Head(s) \in Addresses
  BY AppendProperties, HeadTailProperties

(* The module is type correct: in particular a queue never holds more than *)
(* its bound, and the global counter stays below the limit at which        *)
(* beaconCheck resets it.                                                  *)
THEOREM TypeCorrect == Spec => []TypeOK
<1> USE AssociationAssumption
<1>1. Init => TypeOK
  <2> SUFFICES ASSUME Init PROVE TypeOK
    OBVIOUS
  <2>1. responses \in [Devices -> Seq(Addresses)]
    BY EmptySeq DEF Init
  <2>2. \A d \in Devices : Len(responses[d]) <= MaxQueue
    BY EmptySeq DEF Init
  <2>3. associated \in [Devices -> BOOLEAN] /\ lost \in BOOLEAN
    BY DEF Init
  <2>4. /\ shortAddress \in [Devices -> Addresses \union {Preset, Broadcast}]
        /\ descriptors \in [Devices -> Addresses \union {NoAddress}]
        /\ requests \in [Devices -> 0 .. MaxQueue]
    BY DEF Init
  <2>5. /\ NotReceivedBeaconNum \in 0 .. aMaxLostBeacons - 1
        /\ checked \subseteq Devices
        /\ silent \in 0 .. aMaxLostBeacons
    BY DEF Init
  <2>6. QED
    BY <2>1, <2>2, <2>3, <2>4, <2>5 DEF TypeOK
<1>2. TypeOK /\ [Next]_vars => TypeOK'
  <2> SUFFICES ASSUME TypeOK, [Next]_vars PROVE TypeOK'
    OBVIOUS
  <2>1. ASSUME NEW hearers \in SUBSET Devices, Beacon(hearers)
        PROVE  TypeOK'
    <3>1. requests' \in [Devices -> 0 .. MaxQueue]
      BY <2>1 DEF Beacon, TypeOK
    <3>2. silent' \in 0 .. aMaxLostBeacons /\ lost' \in BOOLEAN
      BY <2>1 DEF Beacon, Silent, TypeOK
    <3>3. /\ NotReceivedBeaconNum' \in 0 .. aMaxLostBeacons - 1
          /\ checked' \subseteq Devices
      BY <2>1 DEF Beacon, TypeOK
    <3>4. UNCHANGED <<associated, shortAddress, descriptors, responses>>
      BY <2>1 DEF Beacon
    <3>5. QED
      BY <3>1, <3>2, <3>3, <3>4 DEF TypeOK
  <2>2. ASSUME NEW d \in Devices, BeaconCheck(d)
        PROVE  TypeOK'
    <3>1. \/ Loses(d)
          \/ /\ ~(NotReceivedBeaconNum + 1 >= aMaxLostBeacons)
             /\ NotReceivedBeaconNum' = NotReceivedBeaconNum + 1
             /\ UNCHANGED <<associated, shortAddress>>
      BY <2>2 DEF BeaconCheck
    <3>2. NotReceivedBeaconNum' \in 0 .. aMaxLostBeacons - 1
      BY <3>1 DEF Loses, TypeOK
    <3>3. associated' \in [Devices -> BOOLEAN]
      BY <3>1 DEF Loses, TypeOK
    <3>4. shortAddress' \in [Devices -> Addresses \union {Preset, Broadcast}]
      BY <3>1 DEF Loses, TypeOK
    <3>5. /\ checked' \subseteq Devices
          /\ UNCHANGED <<requests, descriptors, responses, silent, lost>>
      BY <2>2 DEF BeaconCheck, TypeOK
    <3>6. QED
      BY <3>2, <3>3, <3>4, <3>5 DEF TypeOK
  <2>3. ASSUME NEW d \in Devices, RequestArrives(d)
        PROVE  TypeOK'
    <3>1. PICK a : /\ Respond(d, a)
                   /\ \/ descriptors[d] # NoAddress /\ a = descriptors[d]
                      \/ descriptors[d] = NoAddress /\ a \in Allocate
      BY <2>3, ResponseHasDescriptor DEF RequestArrives
    <3>2. a \in Addresses
      BY <3>1, ResponseAddress
    <3>3. /\ responses' \in [Devices -> Seq(Addresses)]
          /\ \A e \in Devices : Len(responses'[e]) <= MaxQueue
      BY <2>3, <3>1, <3>2, AppendAndTailTypes
      DEF Respond, RequestArrives, TypeOK
    <3>4. QED
      BY <2>3, <3>1, <3>2, <3>3 DEF Respond, RequestArrives, TypeOK
  <2>4. ASSUME NEW d \in Devices, RequestLeaves(d)
        PROVE  TypeOK'
    BY <2>4 DEF RequestLeaves, TypeOK
  <2>5. ASSUME NEW d \in Devices, ResponseArrives(d)
        PROVE  TypeOK'
    <3>1. Head(responses[d]) \in Addresses
      BY <2>5, HeadTailProperties DEF ResponseArrives, TypeOK
    <3>2. QED
      BY <2>5, <3>1 DEF ResponseArrives, TypeOK
  <2>6. ASSUME NEW d \in Devices, ResponseLeaves(d)
        PROVE  TypeOK'
    <3>1. /\ Tail(responses[d]) \in Seq(Addresses)
          /\ Len(Tail(responses[d])) = Len(responses[d]) - 1
      BY <2>6, HeadTailProperties DEF ResponseLeaves, TypeOK
    <3>2. \A e \in Devices : Len(responses[e]) \in Nat
      BY LenProperties DEF TypeOK
    <3>3. QED
      BY <2>6, <3>1, <3>2 DEF ResponseLeaves, TypeOK
  <2>7. CASE UNCHANGED vars
    BY <2>7 DEF vars, TypeOK
  <2>8. QED
    BY <2>1, <2>2, <2>3, <2>4, <2>5, <2>6, <2>7 DEF Next
<1>3. QED
  BY <1>1, <1>2, PTL DEF Spec
-----------------------------------------------------------------------------
DescriptorsDiffer ==
  \A d, e \in Devices :
    d # e /\ descriptors[d] # NoAddress => descriptors[d] # descriptors[e]

ResponsesKnown ==
  \A d \in Devices : \A i \in 1 .. Len(responses[d]) :
    responses[d][i] = descriptors[d]

AssociatedKnown ==
  \A d \in Devices : associated[d] =>
    shortAddress[d] = descriptors[d] /\ descriptors[d] # NoAddress

AddressInv == DescriptorsDiffer /\ ResponsesKnown /\ AssociatedKnown

(* What an answer to a request does to the addresses.                      *)
LEMMA RespondKeepsAddresses ==
  ASSUME TypeOK, AddressInv, NEW d \in Devices, RequestArrives(d)
  PROVE  AddressInv'
<1> USE AssociationAssumption
<1>1. PICK a : /\ Respond(d, a)
               /\ \/ descriptors[d] # NoAddress /\ a = descriptors[d]
                  \/ descriptors[d] = NoAddress /\ a \in Allocate
  BY ResponseHasDescriptor DEF RequestArrives
<1>2. a \in Addresses
  BY <1>1, ResponseAddress
<1>3. /\ descriptors' = [descriptors EXCEPT ![d] = a]
      /\ responses' = [responses EXCEPT ![d] = Append(@, a)]
      /\ UNCHANGED <<associated, shortAddress>>
  BY <1>1 DEF Respond, RequestArrives
<1>4. \A e \in Devices : responses[e] \in Seq(Addresses)
  BY DEF TypeOK
<1>5. \A i \in 1 .. Len(responses[d]) : responses[d][i] \in Addresses
  BY <1>4, ElementOfSeq
<1>6. descriptors[d] = NoAddress => Len(responses[d]) = 0
  <2> SUFFICES ASSUME descriptors[d] = NoAddress, Len(responses[d]) # 0
               PROVE  FALSE
    OBVIOUS
  <2>1. 1 \in 1 .. Len(responses[d])
    BY <1>4, LenProperties
  <2>2. QED
    BY <1>5, <2>1 DEF AddressInv, ResponsesKnown
<1>7. DescriptorsDiffer'
  BY <1>1, <1>2, <1>3 DEF AddressInv, DescriptorsDiffer, Allocate, TypeOK
<1>8. ResponsesKnown'
  <2> SUFFICES ASSUME NEW e \in Devices, NEW i \in 1 .. Len(responses'[e])
               PROVE  responses'[e][i] = descriptors'[e]
    BY DEF ResponsesKnown
  <2>1. CASE e # d
    BY <1>3, <2>1 DEF AddressInv, ResponsesKnown, TypeOK
  <2>2. CASE e = d
    <3>1. responses'[d] = Append(responses[d], a) /\ descriptors'[d] = a
      BY <1>3 DEF TypeOK
    <3>2. /\ Len(responses'[d]) = Len(responses[d]) + 1
          /\ \A j \in 1 .. Len(responses[d]) :
               responses'[d][j] = responses[d][j]
          /\ responses'[d][Len(responses[d]) + 1] = a
      BY <1>2, <1>4, <3>1, AppendProperties
    <3>3. \A j \in 1 .. Len(responses[d]) : responses[d][j] = a
      BY <1>1, <1>4, <1>6, LenProperties DEF AddressInv, ResponsesKnown
    <3>4. Len(responses[d]) \in Nat
      BY <1>4, LenProperties
    <3>5. i \in 1 .. Len(responses[d]) \/ i = Len(responses[d]) + 1
      BY <2>2, <3>2, <3>4
    <3>6. QED
      BY <2>2, <3>1, <3>2, <3>3, <3>5
  <2>3. QED
    BY <2>1, <2>2
<1>9. AssociatedKnown'
  BY <1>1, <1>2, <1>3 DEF AddressInv, AssociatedKnown, TypeOK
<1>10. QED
  BY <1>7, <1>8, <1>9 DEF AddressInv

(* What the loss of one response, or its last copy, does to the addresses. *)
LEMMA ResponseLeavesKeepsAddresses ==
  ASSUME TypeOK, AddressInv, NEW d \in Devices, ResponseLeaves(d)
  PROVE  AddressInv'
<1>1. /\ responses' = [responses EXCEPT ![d] = Tail(@)]
      /\ UNCHANGED <<associated, shortAddress, descriptors>>
  BY DEF ResponseLeaves
<1>2. responses[d] \in Seq(Addresses) /\ responses[d] # <<>>
  BY DEF ResponseLeaves, TypeOK
<1>3. DescriptorsDiffer' /\ AssociatedKnown'
  BY <1>1 DEF AddressInv, DescriptorsDiffer, AssociatedKnown
<1>4. ResponsesKnown'
  <2> SUFFICES ASSUME NEW e \in Devices, NEW i \in 1 .. Len(responses'[e])
               PROVE  responses'[e][i] = descriptors'[e]
    BY DEF ResponsesKnown
  <2>1. CASE e # d
    BY <1>1, <2>1 DEF AddressInv, ResponsesKnown, TypeOK
  <2>2. CASE e = d
    <3>1. responses'[d] = Tail(responses[d])
      BY <1>1 DEF TypeOK
    <3>2. /\ Len(responses'[d]) = Len(responses[d]) - 1
          /\ responses'[d][i] = responses[d][i + 1]
      BY <1>2, <2>2, <3>1, HeadTailProperties
    <3>3. i + 1 \in 1 .. Len(responses[d])
      BY <1>2, <2>2, <3>2, LenProperties
    <3>4. QED
      BY <1>1, <2>2, <3>2, <3>3 DEF AddressInv, ResponsesKnown
  <2>3. QED
    BY <2>1, <2>2
<1>5. QED
  BY <1>3, <1>4 DEF AddressInv

(* An associated device uses the address of its descriptor, and no other   *)
(* device has it, however many requests and responses are sent, repeated   *)
(* or late.                                                                *)
THEOREM AddressesAgreeAlways == Spec => []AddressesAgree
<1> USE AssociationAssumption
<1>1. Init => AddressInv
  BY EmptySeq
  DEF Init, AddressInv, DescriptorsDiffer, ResponsesKnown, AssociatedKnown
<1>2. TypeOK /\ AddressInv /\ [Next]_vars => AddressInv'
  <2> SUFFICES ASSUME TypeOK, AddressInv, [Next]_vars PROVE AddressInv'
    OBVIOUS
  <2>1. ASSUME NEW hearers \in SUBSET Devices, Beacon(hearers)
        PROVE  AddressInv'
    BY <2>1 DEF Beacon, AddressInv, DescriptorsDiffer, ResponsesKnown,
                AssociatedKnown
  <2>2. ASSUME NEW d \in Devices, BeaconCheck(d)
        PROVE  AddressInv'
    <3>1. /\ UNCHANGED <<descriptors, responses>>
          /\ \/ UNCHANGED <<associated, shortAddress>>
             \/ /\ associated' = [associated EXCEPT ![d] = FALSE]
                /\ shortAddress' = [shortAddress EXCEPT ![d] = Broadcast]
      BY <2>2 DEF BeaconCheck, Loses
    <3>2. DescriptorsDiffer' /\ ResponsesKnown'
      BY <3>1 DEF AddressInv, DescriptorsDiffer, ResponsesKnown
    <3>3. AssociatedKnown'
      BY <3>1 DEF AddressInv, AssociatedKnown, TypeOK
    <3>4. QED
      BY <3>2, <3>3 DEF AddressInv
  <2>3. ASSUME NEW d \in Devices, RequestArrives(d)
        PROVE  AddressInv'
    BY <2>3, RespondKeepsAddresses
  <2>4. ASSUME NEW d \in Devices, RequestLeaves(d)
        PROVE  AddressInv'
    BY <2>4 DEF RequestLeaves, AddressInv, DescriptorsDiffer, ResponsesKnown,
                AssociatedKnown
  <2>5. ASSUME NEW d \in Devices, ResponseArrives(d)
        PROVE  AddressInv'
    <3>1. responses[d] \in Seq(Addresses) /\ responses[d] # <<>>
      BY <2>5 DEF ResponseArrives, TypeOK
    <3>2. 1 \in 1 .. Len(responses[d]) /\ Head(responses[d]) = responses[d][1]
      BY <3>1, HeadTailProperties, EmptySeq, LenProperties
    <3>3. Head(responses[d]) = descriptors[d] /\ descriptors[d] # NoAddress
      BY <3>1, <3>2, HeadTailProperties DEF AddressInv, ResponsesKnown
    <3>4. UNCHANGED <<descriptors, responses>>
      BY <2>5 DEF ResponseArrives
    <3>5. DescriptorsDiffer' /\ ResponsesKnown'
      BY <3>4 DEF AddressInv, DescriptorsDiffer, ResponsesKnown
    <3>6. AssociatedKnown'
      BY <2>5, <3>3 DEF ResponseArrives, AddressInv, AssociatedKnown, TypeOK
    <3>7. QED
      BY <3>5, <3>6 DEF AddressInv
  <2>6. ASSUME NEW d \in Devices, ResponseLeaves(d)
        PROVE  AddressInv'
    BY <2>6, ResponseLeavesKeepsAddresses
  <2>7. CASE UNCHANGED vars
    BY <2>7 DEF vars, AddressInv, DescriptorsDiffer, ResponsesKnown,
                AssociatedKnown
  <2>8. QED
    BY <2>1, <2>2, <2>3, <2>4, <2>5, <2>6, <2>7 DEF Next
<1>3. TypeOK /\ AddressInv => AddressesAgree
  BY DEF TypeOK, AddressInv, DescriptorsDiffer, AssociatedKnown, AddressesAgree
<1>4. QED
  BY <1>1, <1>2, <1>3, TypeCorrect, PTL DEF Spec
-----------------------------------------------------------------------------
(* How far the counter can be: each device that counts did so once in a    *)
(* silent beacon interval, and those in checked once since the last one.   *)
CounterInv ==
  \/ silent = aMaxLostBeacons
  \/ NotReceivedBeaconNum
       <= silent * Cardinality(Devices) + Cardinality(checked)

LEMMA Intervals ==
  ASSUME NEW n \in Nat, NEW c \in Nat
  PROVE  n * c \in Nat /\ (n + 1) * c = n * c + c
  OBVIOUS

LEMMA ManyIntervals ==
  ASSUME NEW n \in Nat, NEW c \in Nat, c > 0
  PROVE  (n + 1) * c >= n
  OBVIOUS

LEMMA CheckedCounts ==
  ASSUME TypeOK
  PROVE  /\ IsFiniteSet(checked)
         /\ Cardinality(Devices) \in Nat \ {0}
         /\ Cardinality(checked) \in 0 .. Cardinality(Devices)
         /\ \A d \in Devices \ checked :
              /\ Cardinality(checked \union {d}) = Cardinality(checked) + 1
              /\ Cardinality(checked) + 1 <= Cardinality(Devices)
<1> USE AssociationAssumption
<1>1. Cardinality(Devices) \in Nat \ {0}
  BY FS_CardinalityType, FS_EmptySet
<1>2. IsFiniteSet(checked) /\ Cardinality(checked) <= Cardinality(Devices)
  BY FS_Subset DEF TypeOK
<1>3. Cardinality(checked) \in Nat
  BY <1>2, FS_CardinalityType
<1>4. ASSUME NEW d \in Devices \ checked
      PROVE  /\ Cardinality(checked \union {d}) = Cardinality(checked) + 1
             /\ Cardinality(checked) + 1 <= Cardinality(Devices)
  <2>1. Cardinality(checked \union {d}) = Cardinality(checked) + 1
    BY <1>2, <1>4, FS_AddElement
  <2>2. checked \union {d} \in SUBSET Devices
    BY <1>4 DEF TypeOK
  <2>3. Cardinality(checked \union {d}) <= Cardinality(Devices)
    BY <2>2, FS_Subset
  <2>4. QED
    BY <2>1, <2>3
<1>5. QED
  BY <1>1, <1>2, <1>3, <1>4

(* A beaconCheck that dissociates a device follows as many silent beacons  *)
(* as it takes all the devices to count to aMaxLostBeacons.                *)
THEOREM DroppedOnlyAfterSilenceAlways == Spec => DroppedOnlyAfterSilence
<1> USE AssociationAssumption
<1> DEFINE C == Cardinality(Devices)
<1>1. Init => CounterInv
  <2> SUFFICES ASSUME Init PROVE CounterInv
    OBVIOUS
  <2>1. Cardinality(checked) = 0 /\ silent = 0 /\ NotReceivedBeaconNum = 0
    BY FS_EmptySet DEF Init
  <2>2. C \in Nat
    BY FS_CardinalityType
  <2>3. QED
    BY <2>1, <2>2 DEF CounterInv
<1>2. TypeOK /\ CounterInv /\ [Next]_vars => CounterInv'
  <2> SUFFICES ASSUME TypeOK, CounterInv, [Next]_vars PROVE CounterInv'
    OBVIOUS
  <2>0. /\ silent \in 0 .. aMaxLostBeacons
        /\ NotReceivedBeaconNum \in 0 .. aMaxLostBeacons - 1
        /\ C \in Nat \ {0} /\ Cardinality(checked) \in 0 .. C
        /\ silent * C \in Nat /\ (silent + 1) * C = silent * C + C
    BY CheckedCounts, Intervals DEF TypeOK
  <2>1. ASSUME NEW hearers \in SUBSET Devices, Beacon(hearers)
        PROVE  CounterInv'
    <3>1. Cardinality(checked') = 0
      BY <2>1, FS_EmptySet DEF Beacon
    <3>2. CASE hearers # {}
      <4>1. NotReceivedBeaconNum' = 0 /\ silent' = 0
        BY <2>1, <3>2 DEF Beacon, Silent
      <4>2. silent' * C = 0
        BY <2>0, <4>1
      <4>3. QED
        BY <3>1, <4>1, <4>2 DEF CounterInv
    <3>3. CASE hearers = {}
      <4>1. /\ NotReceivedBeaconNum' = NotReceivedBeaconNum
            /\ silent' = IF silent < aMaxLostBeacons THEN silent + 1
                                                      ELSE silent
        BY <2>1, <3>3 DEF Beacon, Silent
      <4>2. CASE silent = aMaxLostBeacons
        BY <4>1, <4>2 DEF CounterInv
      <4>3. CASE silent # aMaxLostBeacons
        <5>1. silent' = silent + 1
          BY <2>0, <4>1, <4>3
        <5>2. NotReceivedBeaconNum' <= silent * C + C
          BY <2>0, <4>1, <4>3 DEF CounterInv
        <5>3. silent' * C = silent * C + C
          BY <2>0, <5>1
        <5>4. QED
          BY <2>0, <3>1, <5>2, <5>3 DEF CounterInv
      <4>4. QED
        BY <4>2, <4>3
    <3>4. QED
      BY <3>2, <3>3
  <2>2. ASSUME NEW d \in Devices, BeaconCheck(d)
        PROVE  CounterInv'
    <3>1. silent' = silent /\ checked' = checked \union {d} /\ d \notin checked
      BY <2>2 DEF BeaconCheck
    <3>2. Cardinality(checked') = Cardinality(checked) + 1
      BY <3>1, CheckedCounts
    <3>3. NotReceivedBeaconNum' \in {0, NotReceivedBeaconNum + 1}
      BY <2>2 DEF BeaconCheck, Loses
    <3>4. silent' * C = silent * C
      BY <3>1
    <3>5. CASE silent = aMaxLostBeacons
      BY <3>1, <3>5 DEF CounterInv
    <3>6. CASE silent # aMaxLostBeacons
      BY <2>0, <3>2, <3>3, <3>4, <3>6 DEF CounterInv
    <3>7. QED
      BY <3>5, <3>6
  <2>3. CASE UNCHANGED <<NotReceivedBeaconNum, checked, silent>>
    BY <2>3 DEF CounterInv
  <2>4. QED
    BY <2>1, <2>2, <2>3
    DEF Next, RequestArrives, RequestLeaves, ResponseArrives, ResponseLeaves,
        vars
<1>3. TypeOK /\ CounterInv /\ [Next]_vars => [DropsAfterSilence]_vars
  <2> SUFFICES ASSUME TypeOK, CounterInv, Next,
                      NEW d \in Devices, associated[d], ~associated'[d]
               PROVE  (silent + 1) * C >= aMaxLostBeacons
    BY DEF DropsAfterSilence
  <2>1. PICK e \in Devices : BeaconCheck(e) /\ Loses(e)
    <3>1. ~ UNCHANGED associated
      OBVIOUS
    <3>2. ASSUME NEW e \in Devices PROVE ~ ResponseArrives(e)
      BY DEF ResponseArrives, TypeOK
    <3>3. QED
      BY <3>1, <3>2
      DEF Next, Beacon, BeaconCheck, RequestArrives, RequestLeaves,
          ResponseLeaves
  <2>2. NotReceivedBeaconNum + 1 >= aMaxLostBeacons /\ e \notin checked
    <3>1. associated' # associated
      OBVIOUS
    <3>2. QED
      BY <2>1, <3>1 DEF BeaconCheck
  <2>3. /\ silent \in Nat /\ NotReceivedBeaconNum \in Nat
        /\ C \in Nat \ {0} /\ Cardinality(checked) \in Nat
        /\ Cardinality(checked) + 1 <= C
        /\ silent * C \in Nat /\ (silent + 1) * C = silent * C + C
    <3>1. silent \in Nat /\ NotReceivedBeaconNum \in Nat
      BY DEF TypeOK
    <3>2. /\ C \in Nat \ {0} /\ Cardinality(checked) \in 0 .. C
          /\ Cardinality(checked) + 1 <= C
      BY <2>2, CheckedCounts
    <3>3. silent * C \in Nat /\ (silent + 1) * C = silent * C + C
      BY <3>1, <3>2, Intervals
    <3>4. QED
      BY <3>1, <3>2, <3>3
  <2>4. CASE silent = aMaxLostBeacons
    BY <2>3, <2>4, ManyIntervals
  <2>5. CASE silent # aMaxLostBeacons
    BY <2>2, <2>3, <2>5 DEF CounterInv
  <2>6. QED
    BY <2>4, <2>5
<1>4. QED
  BY <1>1, <1>2, <1>3, TypeCorrect, PTL DEF Spec, DroppedOnlyAfterSilence
=============================================================================
