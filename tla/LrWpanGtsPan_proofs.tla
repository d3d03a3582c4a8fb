------------------------ MODULE LrWpanGtsPan_proofs ------------------------
(***************************************************************************)
(* Proofs about LrWpanGtsPan for any set of devices and lengths, and       *)
(* without regard to its bounds: what LrWpanGts_proofs shows of the list   *)
(* of descriptors holds of what the devices make of it.                    *)
(***************************************************************************)
EXTENDS LrWpanGtsPan, LrWpanGts_proofs, FiniteSetTheorems

(* The coordinator of LrWpanGtsPan is that of LrWpanGts.                   *)
LEMMA Coordinator == PanSpec => Spec
<1>1. PanInit => Init
  BY DEF PanInit
<1>2. [PanNext]_panVars => [Next]_vars
  <2> SUFFICES ASSUME [PanNext]_panVars PROVE [Next]_vars
    OBVIOUS
  <2>1. CASE AtCoordinator
    BY <2>1 DEF AtCoordinator, Next
  <2>2. CASE \E hearers \in SUBSET Devices : Beacon(hearers)
    BY <2>2 DEF Beacon, Next
  <2>3. CASE \E d \in Devices : \/ McpsDataRequest(d)
                                \/ \E s \in 0 .. 16 : DirectTransmission(d, s)
                                \/ Dissociate(d)
                                \/ Associate(d)
    BY <2>3 DEF McpsDataRequest, DirectTransmission, Dissociate, Associate
  <2>4. CASE UNCHANGED panVars
    BY <2>4 DEF panVars
  <2>5. QED
    BY <2>1, <2>2, <2>3, <2>4 DEF PanNext
<1>3. QED
  BY <1>1, <1>2, PTL DEF PanSpec, Spec

(* At most n frames are taken from a queue of n: of two slots the later    *)
(* one has more slots before it.                                           *)
LEMMA FirstSlotsBound ==
  ASSUME NEW S \in SUBSET (0 .. 16), NEW n \in Nat
  PROVE  Cardinality(FirstSlots(S, n)) \in 0 .. n
<1> DEFINE before(s) == {t \in S : t < s}
           F == FirstSlots(S, n)
           f == [s \in F |-> Cardinality(before(s))]
<1>1. IsFiniteSet(0 .. 16)
  <2>1. \A b \in Int : IsFiniteSet(0 .. b)
    BY FS_Interval
  <2>2. 16 \in Int
    OBVIOUS
  <2>3. QED
    BY <2>1, <2>2, Zenon
<1>2. ASSUME NEW T \in SUBSET (0 .. 16)
      PROVE  IsFiniteSet(T) /\ Cardinality(T) \in Nat
  BY <1>1, FS_Subset, FS_CardinalityType
<1>3. f \in [F -> 0 .. n - 1]
  <2>1. ASSUME NEW s \in F PROVE Cardinality(before(s)) \in 0 .. n - 1
    <3>1. Cardinality(before(s)) \in Nat
      BY <1>2
    <3>2. Cardinality(before(s)) < n
      BY DEF FirstSlots
    <3>3. QED
      BY <3>1, <3>2
  <2>2. QED
    BY <2>1
<1>4. ASSUME NEW s \in S, NEW t \in S, s < t
      PROVE  Cardinality(before(s)) # Cardinality(before(t))
  <2>1. before(s) \in SUBSET before(t)
    <3>1. \A r \in S : r \in Int
      OBVIOUS
    <3>2. \A r \in S : r < s => r < t
      BY <1>4, <3>1
    <3>3. QED
      BY <3>2
  <2>2. s \in before(t) /\ s \notin before(s)
    BY <1>4
  <2>3. IsFiniteSet(before(t))
    BY <1>2
  <2> HIDE DEF before
  <2>4. QED
    BY <2>1, <2>2, <2>3, FS_Subset
<1>5. f \in Injection(F, 0 .. n - 1)
  <2>1. ASSUME NEW s \in F, NEW t \in F, f[s] = f[t] PROVE s = t
    <3>1. s \in S /\ t \in S /\ s \in Int /\ t \in Int
      BY DEF FirstSlots
    <3>2. Cardinality(before(s)) = Cardinality(before(t))
      BY <2>1
    <3>3. ~(s < t) /\ ~(t < s)
      BY <1>4, <3>1, <3>2
    <3>4. QED
      BY <3>1, <3>3
  <2> HIDE DEF f, F
  <2>2. QED
    BY <1>3, <2>1 DEF Injection, IsInjective
<1>6. IsFiniteSet(0 .. n - 1) /\ Cardinality(0 .. n - 1) = n
  BY FS_Interval
<1>7. Cardinality(F) <= n
  <2> HIDE DEF f, F
  <2>1. QED
    BY <1>5, <1>6, FS_Injection
<1>8. Cardinality(F) \in Nat
  BY <1>2 DEF FirstSlots
<1>9. QED
  BY <1>7, <1>8

(* What a device takes over from a beacon, and may use of it.              *)
LEMMA HeardTypes ==
  ASSUME PanTypeOK, NEW d \in Devices
  PROVE  /\ HeardSlots(d) \in SUBSET [start : 1 .. 15, length : 0 .. 15]
         /\ UsableSlots(HeardSlots(d)) \in SUBSET (0 .. 16)
         /\ \A n \in Nat : FirstSlots(UsableSlots(HeardSlots(d)), n)
                             \in SUBSET (0 .. 16)
<1>1. OwnSlots(d) \in SUBSET [start : 1 .. 15, length : 0 .. 15]
  <2>1. \A i \in DOMAIN GTSList : GTSList[i] \in Descriptor
    BY LenProperties, ElementOfSeq DEF PanTypeOK, TypeOK
  <2>2. ASSUME NEW i \in DOMAIN GTSList, GTSList[i].start % 16 # 0
        PROVE  Serialized(GTSList[i]) \in [start : 1 .. 15, length : 0 .. 15]
    <3>1. GTSList[i].start \in 0 .. 255 /\ GTSList[i].length \in 0 .. 15
      BY <2>1, DescriptorFields
    <3>2. GTSList[i].start % 16 \in 1 .. 15 /\ GTSList[i].length % 16 \in 0 .. 15
      BY <2>2, <3>1
    <3>3. QED
      BY <3>2 DEF Serialized
  <2>3. QED
    BY <2>2 DEF OwnSlots
<1>2. HeardSlots(d) \in SUBSET [start : 1 .. 15, length : 0 .. 15]
  BY <1>1 DEF HeardSlots, PanTypeOK
<1>3. UsableSlots(HeardSlots(d)) \in SUBSET (0 .. 16)
  BY DEF UsableSlots
<1>4. \A S \in SUBSET (0 .. 16) : \A n \in Nat :
        FirstSlots(S, n) \in SUBSET (0 .. 16)
  BY DEF FirstSlots
<1>5. QED
  BY <1>2, <1>3, <1>4

(* The composition is type correct.  A device never schedules more frames  *)
(* than its GTS queue holds, and only for slots of the superframe.         *)
THEOREM PanTypeCorrect == PanSpec => []PanTypeOK
<1>1. PanInit /\ TypeOK => PanTypeOK
  <2> SUFFICES ASSUME PanInit, TypeOK PROVE PanTypeOK
    OBVIOUS
  <2>1. associated \in [Devices -> BOOLEAN]
    BY DEF PanInit
  <2>2. GTStxQueue \in [Devices -> 0 .. MaxFrames]
    BY PanAssumption DEF PanInit
  <2>3. /\ GTSSlotList \in [Devices -> SUBSET [start : 1 .. 15, length : 0 .. 15]]
        /\ transmission \in [Devices -> SUBSET (0 .. 16)]
    BY DEF PanInit
  <2>4. QED
    BY <2>1, <2>2, <2>3 DEF PanTypeOK
<1>2. PanTypeOK /\ TypeOK' /\ [PanNext]_panVars => PanTypeOK'
  <2> SUFFICES ASSUME PanTypeOK, TypeOK', [PanNext]_panVars
               PROVE  PanTypeOK'
    OBVIOUS
  <2> USE PanAssumption
  <2>1. CASE UNCHANGED device
    BY <2>1 DEF device, PanTypeOK
  <2>2. ASSUME NEW hearers \in SUBSET Devices, Beacon(hearers)
        PROVE  PanTypeOK'
    <3> DEFINE slots(d) ==
          IF d \in hearers
            THEN FirstSlots(UsableSlots(HeardSlots(d)), GTStxQueue[d]) ELSE {}
    <3>1. /\ transmission' = [d \in Devices |-> Late(d) \union slots(d)]
          /\ GTStxQueue' = [d \in Devices |->
                              GTStxQueue[d] - Cardinality(slots(d))]
          /\ GTSSlotList' = [d \in Devices |-> IF d \in hearers
                                                 THEN HeardSlots(d)
                                                 ELSE GTSSlotList[d]]
          /\ UNCHANGED associated
      BY <2>2 DEF Beacon, Hear
    <3>2. ASSUME NEW d \in Devices
          PROVE  /\ slots(d) \in SUBSET (0 .. 16)
                 /\ Cardinality(slots(d)) \in 0 .. GTStxQueue[d]
      <4>1. GTStxQueue[d] \in Nat
        BY DEF PanTypeOK
      <4>2. CASE d \in hearers
        BY <4>1, <4>2, HeardTypes, FirstSlotsBound
      <4>3. CASE d \notin hearers
        BY <4>1, <4>3, FS_EmptySet
      <4>4. QED
        BY <4>2, <4>3
    <3> HIDE DEF slots
    <3>3. transmission' \in [Devices -> SUBSET (0 .. 16)]
      BY <3>1, <3>2 DEF Late
    <3>4. GTStxQueue' \in [Devices -> 0 .. MaxFrames]
      <4>1. ASSUME NEW d \in Devices
            PROVE  GTStxQueue[d] - Cardinality(slots(d)) \in 0 .. MaxFrames
        <5>1. GTStxQueue[d] \in 0 .. MaxFrames
          BY DEF PanTypeOK
        <5>2. QED
          BY <3>2, <5>1
      <4>2. QED
        BY <3>1, <4>1
    <3>5. GTSSlotList' \in
            [Devices -> SUBSET [start : 1 .. 15, length : 0 .. 15]]
      BY <3>1, HeardTypes DEF PanTypeOK
    <3>6. QED
      BY <3>1, <3>3, <3>4, <3>5 DEF PanTypeOK
  <2>3. ASSUME NEW d \in Devices, McpsDataRequest(d)
        PROVE  PanTypeOK'
    BY <2>3 DEF McpsDataRequest, PanTypeOK
  <2>4. ASSUME NEW d \in Devices, NEW s \in 0 .. 16, DirectTransmission(d, s)
        PROVE  PanTypeOK'
    BY <2>4 DEF DirectTransmission, PanTypeOK
  <2>5. ASSUME NEW d \in Devices, Dissociate(d) \/ Associate(d)
        PROVE  PanTypeOK'
    BY <2>5 DEF Dissociate, Associate, PanTypeOK
  <2>6. QED
    BY <2>1, <2>2, <2>3, <2>4, <2>5 DEF PanNext, AtCoordinator, panVars
<1>3. QED
  BY <1>1, <1>2, Coordinator, TypeCorrect, PTL DEF PanSpec

(* A start slot and a length that lie in the superframe survive the four   *)
(* bits of the header, unless the start slot stands for a denial.          *)
LEMMA FourBits ==
  ASSUME NEW k \in 0 .. 255, NEW l \in 0 .. 15, k + l <= 16, k % 16 # 0
  PROVE  k \in 1 .. 15 /\ k % 16 = k /\ l % 16 = l
<1>1. k \in 0 .. 16
  OBVIOUS
<1>2. k # 16 /\ k # 0
  OBVIOUS
<1>3. QED
  BY <1>1, <1>2

LEMMA DescriptorIntegers ==
  ASSUME NEW x \in Descriptor
  PROVE  x.start \in Int /\ x.length \in Int
  BY DEF Descriptor

LEMMA InsideRange ==
  ASSUME NEW k \in 1 .. 15, NEW l \in 0 .. 15, k + l <= 16,
         NEW s \in k .. k + l - 1
  PROVE  s \in 1 .. 15
  OBVIOUS

LEMMA Apart ==
  ASSUME NEW k \in Int, NEW l \in Int, NEW m \in Int, NEW n \in Int,
         k + l <= m, NEW s \in k .. k + l - 1, s \in m .. m + n - 1
  PROVE  FALSE
  OBVIOUS

(* What a device may use of the descriptors that a beacon has for it.      *)
LEMMA UsableOfOwn ==
  ASSUME TypeOK, InOrder(GTSList), NEW d \in Devices,
         NEW s \in UsableSlots(OwnSlots(d))
  PROVE  \E i \in 1 .. Len(GTSList) :
           GTSList[i].device = d /\ s \in Usable(GTSList[i]) \intersect 1 .. 15
<1>1. DOMAIN GTSList = 1 .. Len(GTSList)
      /\ \A i \in 1 .. Len(GTSList) : GTSList[i] \in Descriptor
  BY LenProperties, ElementOfSeq DEF TypeOK
<1>2. PICK i \in 1 .. Len(GTSList) :
        /\ GTSList[i].device = d /\ GTSList[i].start % 16 # 0
        /\ s \in Usable(Serialized(GTSList[i]))
  BY <1>1 DEF UsableSlots, OwnSlots
<1>3. /\ GTSList[i].start \in 0 .. 255 /\ GTSList[i].length \in 0 .. 15
      /\ GTSList[i].start + GTSList[i].length <= 16
  BY <1>1, DescriptorFields DEF InOrder, aNumSuperframeSlots
<1>4. /\ GTSList[i].start \in 1 .. 15
      /\ GTSList[i].start % 16 = GTSList[i].start
      /\ GTSList[i].length % 16 = GTSList[i].length
  BY <1>2, <1>3, FourBits
<1>5. s \in Usable(GTSList[i])
  BY <1>2, <1>4 DEF Usable, Serialized
<1>6. s \in 1 .. 15
  BY <1>3, <1>4, <1>5, InsideRange DEF Usable
<1>7. QED
  BY <1>2, <1>5, <1>6

(* What an associated device schedules with a beacon.                      *)
LEMMA ScheduledSlots ==
  ASSUME TypeOK, DisjointInv, ~wrapped, BeaconStep,
         NEW d \in Devices, associated[d], NEW s \in transmission'[d] \ {0}
  PROVE  \E i \in 1 .. Len(GTSList) :
           GTSList[i].device = d /\ s \in Usable(GTSList[i]) \intersect 1 .. 15
<1>1. PICK hearers \in SUBSET Devices : Hear(hearers)
  BY DEF BeaconStep, Beacon
<1>2. s \in Late(d) \union
        (IF d \in hearers
           THEN FirstSlots(UsableSlots(HeardSlots(d)), GTStxQueue[d]) ELSE {})
  BY <1>1 DEF Hear
<1>3. s \in FirstSlots(UsableSlots(HeardSlots(d)), GTStxQueue[d])
  BY <1>2 DEF Late
<1>4. s \in UsableSlots(OwnSlots(d))
  BY <1>3 DEF FirstSlots, HeardSlots
<1>5. QED
  BY <1>4, UsableOfOwn DEF DisjointInv

(* Associated devices transmit only in slots that the beacon they hear     *)
(* gives to them, inside the superframe and not at its start.              *)
THEOREM SlotsGivenAlways == PanSpec => SlotsGiven
<1>1. TypeOK /\ DisjointInv /\ [PanNext]_panVars =>
        [BeaconStep /\ ~wrapped =>
           \A d \in Devices : associated[d] =>
             \A s \in transmission'[d] \ {0} : \E i \in DOMAIN GTSList :
               /\ GTSList[i].device = d
               /\ s \in Usable(GTSList[i]) \intersect 1 .. 15]_panVars
  <2>1. TypeOK => DOMAIN GTSList = 1 .. Len(GTSList)
    BY LenProperties DEF TypeOK
  <2>2. QED
    BY <2>1, ScheduledSlots
<1>2. QED
  BY <1>1, Coordinator, TypeCorrect, InOrderAlways, PTL
  DEF PanSpec, SlotsGiven

(* No two associated devices transmit in the same slot, whichever beacons  *)
(* they missed and however often the coordinator reassigned the slots.     *)
THEOREM SlotsExclusiveAlways == PanSpec => SlotsExclusive
<1>1. TypeOK /\ DisjointInv /\ [PanNext]_panVars =>
        [BeaconStep /\ ~wrapped =>
           \A d, e \in Devices :
             d # e /\ associated[d] /\ associated[e]
               => transmission'[d] \intersect transmission'[e] \subseteq {0}
        ]_panVars
  <2> SUFFICES ASSUME TypeOK, DisjointInv, BeaconStep, ~wrapped,
                      NEW d \in Devices, NEW e \in Devices, d # e,
                      associated[d], associated[e],
                      NEW s \in transmission'[d] \intersect transmission'[e],
                      s # 0
               PROVE  FALSE
    OBVIOUS
  <2>1. PICK i \in 1 .. Len(GTSList) :
          GTSList[i].device = d /\ s \in Usable(GTSList[i]) \intersect 1 .. 15
    BY ScheduledSlots
  <2>2. PICK j \in 1 .. Len(GTSList) :
          GTSList[j].device = e /\ s \in Usable(GTSList[j]) \intersect 1 .. 15
    BY ScheduledSlots
  <2>3. Len(GTSList) \in Nat
        /\ \A k \in 1 .. Len(GTSList) : GTSList[k] \in Descriptor
    BY LenProperties, ElementOfSeq DEF TypeOK
  <2>4. /\ GTSList[i].start \in Int /\ GTSList[i].length \in Int
        /\ GTSList[j].start \in Int /\ GTSList[j].length \in Int
    BY <2>3, DescriptorIntegers
  <2>5. i # j
    BY <2>1, <2>2
  <2>6. CASE i < j
    <3>1. GTSList[i].start + GTSList[i].length <= GTSList[j].start
      BY <2>6 DEF DisjointInv, InOrder
    <3>2. QED
      BY <2>1, <2>2, <2>4, <3>1, Apart DEF Usable
  <2>7. CASE j < i
    <3>1. GTSList[j].start + GTSList[j].length <= GTSList[i].start
      BY <2>7 DEF DisjointInv, InOrder
    <3>2. QED
      BY <2>1, <2>2, <2>4, <3>1, Apart DEF Usable
  <2>8. QED
    BY <2>3, <2>5, <2>6, <2>7
<1>2. QED
  BY <1>1, Coordinator, TypeCorrect, InOrderAlways, PTL
  DEF PanSpec, SlotsExclusive
=============================================================================
