-------------------------- MODULE LrWpanGts_proofs --------------------------
(***************************************************************************)
(* Proofs about LrWpanGts for any set of devices and lengths, and without  *)
(* regard to the bounds on requests and scheduled deallocations.           *)
(*                                                                         *)
(* GtsDisjoint is not inductive: descriptors that do not overlap could be  *)
(* moved onto a new one that is put behind them.  They may not because the *)
(* last one ends with the superframe, or before it.                        *)
(***************************************************************************)
EXTENDS LrWpanGts, TLAPS, SequenceTheorems

(* A list of descriptors from which one is removed.                        *)
LEMMA RemoveAtProperties ==
  ASSUME NEW S, NEW s \in Seq(S), NEW i \in 1 .. Len(s)
  PROVE  /\ RemoveAt(s, i) \in Seq(S)
         /\ Len(RemoveAt(s, i)) = Len(s) - 1
         /\ \A j \in 1 .. Len(s) - 1 :
              RemoveAt(s, i)[j] = IF j < i THEN s[j] ELSE s[j + 1]
<1> DEFINE front == SubSeq(s, 1, i - 1)
           back  == SubSeq(s, i + 1, Len(s))
<1>1. Len(s) \in Nat
  BY LenProperties
<1>2. /\ front \in Seq(S) /\ Len(front) = i - 1
      /\ \A j \in 1 .. i - 1 : front[j] = s[j]
  BY <1>1, SubSeqProperties
<1>3. /\ back \in Seq(S) /\ Len(back) = Len(s) - i
      /\ \A j \in 1 .. Len(s) - i : back[j] = s[i + j]
  BY <1>1, SubSeqProperties
<1>5. RemoveAt(s, i) = front \o back
  BY DEF RemoveAt
<1> HIDE DEF front, back
<1>4. /\ front \o back \in Seq(S)
      /\ Len(front \o back) = Len(s) - 1
      /\ \A j \in 1 .. Len(s) - 1 :
           (front \o back)[j] = IF j <= i - 1 THEN front[j]
                                ELSE back[j - (i - 1)]
  <2>1. Len(front) + Len(back) = Len(s) - 1
    BY <1>1, <1>2, <1>3
  <2>2. /\ front \o back \in Seq(S)
        /\ Len(front \o back) = Len(front) + Len(back)
        /\ \A j \in 1 .. Len(front) + Len(back) :
             (front \o back)[j] = IF j <= Len(front) THEN front[j]
                                  ELSE back[j - Len(front)]
    BY <1>2, <1>3, ConcatProperties
  <2>3. QED
    BY <1>2, <2>1, <2>2
<1>6. ASSUME NEW j \in 1 .. Len(s) - 1
      PROVE  (front \o back)[j] = IF j < i THEN s[j] ELSE s[j + 1]
  <2>1. CASE j < i
    BY <1>1, <1>2, <1>4, <2>1
  <2>2. CASE ~(j < i)
    <3>1. j - (i - 1) \in 1 .. Len(s) - i /\ i + (j - (i - 1)) = j + 1
      BY <1>1, <2>2
    <3>2. (front \o back)[j] = back[j - (i - 1)]
      BY <1>1, <1>4, <2>2
    <3>3. back[j - (i - 1)] = s[j + 1]
      BY <1>3, <3>1
    <3>4. QED
      BY <2>2, <3>2, <3>3
  <2>3. QED
    BY <2>1, <2>2
<1>7. QED
  BY <1>4, <1>5, <1>6

(* A function on the positions of a sequence is a sequence as long.        *)
LEMMA FunctionIsSequence ==
  ASSUME NEW S, NEW n \in Nat, NEW f \in [1 .. n -> S]
  PROVE  f \in Seq(S) /\ Len(f) = n /\ DOMAIN f = 1 .. n
<1>1. f \in Seq(S)
  BY SeqDef
<1>2. Len(f) \in Nat /\ DOMAIN f = 1 .. Len(f)
  BY <1>1, LenProperties
<1>3. QED
  BY <1>1, <1>2

LEMMA Bytes == \A k \in Int : k % 256 \in 0 .. 255
  OBVIOUS

LEMMA NotBelow ==
  ASSUME NEW k \in 0 .. 255, NEW m \in 0 .. 15, ~(k < m) PROVE k >= m
  OBVIOUS

LEMMA MovedStart ==
  ASSUME NEW k \in 0 .. 255, NEW m \in 0 .. 15
  PROVE  (k - m) % 256 \in 0 .. 255 /\ (k >= m => (k - m) % 256 = k - m)
<1>1. k - m \in Int
  OBVIOUS
<1>2. (k - m) % 256 \in 0 .. 255
  BY <1>1, Bytes
<1>3. ASSUME k >= m
      PROVE  (k - m) % 256 = k - m
  BY <1>3
<1>4. QED
  BY <1>2, <1>3

(* A slot range that moves down by m.                                      *)
LEMMA MovedRange ==
  ASSUME NEW k \in 0 .. 255, NEW l \in 0 .. 15, NEW m \in 0 .. 15,
         NEW end \in 0 .. 255, k + l <= end
  PROVE  (k - m) + l <= end - m /\ (k - m) + l <= end
  OBVIOUS

(* The loop of receivedGTSRequest keeps the descriptors and their order,   *)
(* and moves some of the first ones down.                                  *)
LEMMA MovedDownProperties ==
  ASSUME NEW list \in Seq(Descriptor), NEW d, NEW n \in 0 .. 15
  PROVE  /\ MovedDown(list, d, n) \in Seq(Descriptor)
         /\ Len(MovedDown(list, d, n)) = Len(list)
         /\ \A i \in 1 .. Len(list) :
              MovedDown(list, d, n)[i]
                = IF Moves(list, d, i)
                    THEN [list[i] EXCEPT !.start = (@ - n) % 256]
                    ELSE list[i]
<1>1. /\ Len(list) \in Nat /\ DOMAIN list = 1 .. Len(list)
      /\ \A i \in 1 .. Len(list) : list[i] \in Descriptor
  BY LenProperties, ElementOfSeq
<1>2. ASSUME NEW i \in 1 .. Len(list)
      PROVE  [list[i] EXCEPT !.start = (@ - n) % 256] \in Descriptor
  <2>1. list[i] \in Descriptor
    BY <1>1
  <2>2. list[i].start \in 0 .. 255
    BY <2>1 DEF Descriptor
  <2> DEFINE moved == (list[i].start - n) % 256
  <2>3. moved \in 0 .. 255
    BY <2>2, MovedStart
  <2> HIDE DEF moved
  <2>4. [list[i] EXCEPT !.start = moved] \in Descriptor
    BY <2>1, <2>3 DEF Descriptor
  <2>5. QED
    BY <2>4 DEF moved
<1>3. MovedDown(list, d, n) \in [1 .. Len(list) -> Descriptor]
  BY <1>1, <1>2 DEF MovedDown
<1>4. MovedDown(list, d, n) \in Seq(Descriptor)
      /\ Len(MovedDown(list, d, n)) = Len(list)
  BY <1>1, <1>3, FunctionIsSequence
<1>5. QED
  BY <1>1, <1>4 DEF MovedDown

(* What GTSDeallocation does to the types.                                 *)
LEMMA DeallocationType ==
  ASSUME TypeOK, NEW d \in Devices, NEW n \in Lengths, GTSDeallocation(d, n)
  PROVE  /\ GTSList' \in Seq(Descriptor) /\ CAPLength' \in Int
         /\ FinalCAPSlot' \in 0 .. 255 /\ regular' \in BOOLEAN
<1>1. n \in Int
  BY GtsAssumption
<1>2. CASE Owns(GTSList, d)
  <2>1. PICK i \in DOMAIN GTSList : GTSList' = RemoveAt(GTSList, i)
    BY <1>2 DEF GTSDeallocation
  <2>2. GTSList' \in Seq(Descriptor)
    BY <2>1, RemoveAtProperties, LenProperties DEF TypeOK
  <2>3. CAPLength' \in Int
    BY <1>1, <1>2 DEF GTSDeallocation, TypeOK
  <2>4. FinalCAPSlot' \in 0 .. 255
    BY <1>2, <2>3 DEF GTSDeallocation
  <2>5. QED
    BY <1>2, <2>2, <2>3, <2>4 DEF GTSDeallocation
<1>3. CASE ~Owns(GTSList, d)
  BY <1>3 DEF GTSDeallocation, TypeOK
<1>4. QED
  BY <1>2, <1>3

(* The module is type correct: every start slot is a uint8_t, and so is    *)
(* the final CAP slot.                                                     *)
THEOREM TypeCorrect == Spec => []TypeOK
<1> USE GtsAssumption
<1>1. Init => TypeOK
  <2> SUFFICES ASSUME Init PROVE TypeOK
    OBVIOUS
  <2>1. GTSList \in Seq(Descriptor)
    BY EmptySeq DEF Init
  <2>2. /\ CAPLength \in Int /\ FinalCAPSlot \in 0 .. 255
        /\ requests \in 0 .. MaxRequests
    BY DEF Init, aNumSuperframeSlots
  <2>3. deallocation \in [Devices -> [Lengths -> Nat]]
    BY DEF Init
  <2>4. QED
    BY <2>1, <2>2, <2>3 DEF Init, TypeOK
<1>2. TypeOK /\ [Next]_vars => TypeOK'
  <2> SUFFICES ASSUME TypeOK, [Next]_vars PROVE TypeOK'
    OBVIOUS
  <2>0. Request => requests' \in 0 .. MaxRequests
    BY DEF Request, TypeOK
  <2>1. CASE SendOneBeacon
    <3>1. GTSList' \in Seq(Descriptor)
      BY <2>1, EmptySeq DEF SendOneBeacon
    <3>2. /\ FinalCAPSlot' \in 0 .. 255 /\ CAPLength' \in Int
          /\ requests' \in 0 .. MaxRequests
      BY <2>1 DEF SendOneBeacon
    <3>3. /\ announced' \in BOOLEAN /\ regular' \in BOOLEAN
          /\ wrapped' \in BOOLEAN /\ deallocation' = deallocation
      BY <2>1 DEF SendOneBeacon
    <3>4. QED
      BY <3>1, <3>2, <3>3 DEF TypeOK
  <2>2. ASSUME NEW d \in Devices, NEW n \in Lengths, Deallocate(d, n)
        PROVE  TypeOK'
    BY <2>0, <2>2, DeallocationType DEF Deallocate, TypeOK
  <2>3. ASSUME NEW d \in Devices, NEW n \in Lengths, Allocate(d, n)
        PROVE  TypeOK'
    <3>1. n \in 0 .. 15
      OBVIOUS
    <3>2. [device |-> d, start |-> aNumSuperframeSlots - n, length |-> n]
            \in Descriptor
      BY <3>1 DEF Descriptor, aNumSuperframeSlots
    <3>3. GTSList' \in Seq(Descriptor)
      BY <2>3, <3>1, <3>2, MovedDownProperties, AppendProperties
      DEF Allocate, TypeOK
    <3>4. CAPLength' \in Int
      BY <2>3, <3>1 DEF Allocate, TypeOK
    <3>5. FinalCAPSlot' \in 0 .. 255
      BY <2>3, <3>4, Bytes DEF Allocate
    <3>6. deallocation' \in [Devices -> [Lengths -> Nat]]
      BY <2>3 DEF Allocate, TypeOK
    <3>7. regular' \in BOOLEAN
      BY <2>3 DEF Allocate, TypeOK
    <3>8. announced' \in BOOLEAN /\ wrapped' \in BOOLEAN
      BY <2>3 DEF Allocate, TypeOK
    <3>9. requests' \in 0 .. MaxRequests
      BY <2>0, <2>3 DEF Allocate
    <3>10. QED
      BY <3>3, <3>4, <3>5, <3>6, <3>7, <3>8, <3>9 DEF TypeOK
  <2>4. ASSUME NEW d \in Devices, NEW n \in Lengths, AllocateAgain(d, n)
        PROVE  TypeOK'
    <3>1. n \in 0 .. 15
      OBVIOUS
    <3>2. GTSList' \in Seq(Descriptor)
      BY <2>4, <3>1, MovedDownProperties DEF AllocateAgain, TypeOK
    <3>3. CAPLength' \in Int
      BY <2>4, <3>1 DEF AllocateAgain, TypeOK
    <3>4. regular' \in BOOLEAN /\ UNCHANGED <<FinalCAPSlot, deallocation>>
      BY <2>4 DEF AllocateAgain
    <3>5. announced' \in BOOLEAN /\ wrapped' \in BOOLEAN
      BY <2>4 DEF AllocateAgain, TypeOK
    <3>6. requests' \in 0 .. MaxRequests
      BY <2>0, <2>4 DEF AllocateAgain
    <3>7. QED
      BY <3>2, <3>3, <3>4, <3>5, <3>6 DEF TypeOK
  <2>5. ASSUME NEW d \in Devices, NEW n \in Lengths, DeallocationFires(d, n)
        PROVE  TypeOK'
    <3>1. deallocation' \in [Devices -> [Lengths -> Nat]]
      BY <2>5 DEF DeallocationFires, TypeOK
    <3>2. QED
      BY <2>5, <3>1, DeallocationType DEF DeallocationFires, TypeOK
  <2>6. CASE UNCHANGED vars
    BY <2>6 DEF vars, TypeOK
  <2>7. QED
    BY <2>1, <2>2, <2>3, <2>4, <2>5, <2>6 DEF Next, SendBeaconWithoutList
<1>3. QED
  BY <1>1, <1>2, PTL DEF Spec
-----------------------------------------------------------------------------
(* Descriptors one behind the other, all of them inside the superframe.    *)
InOrder(list) ==
  /\ \A i \in 1 .. Len(list) :
       list[i].start + list[i].length <= aNumSuperframeSlots
  /\ \A i, j \in 1 .. Len(list) :
       i < j => list[i].start + list[i].length <= list[j].start

DisjointInv == ~wrapped => InOrder(GTSList)

LEMMA DescriptorFields ==
  ASSUME NEW x \in Descriptor
  PROVE  x.start \in 0 .. 255 /\ x.length \in 0 .. 15
  BY DEF Descriptor

(* The descriptors that move come first, and none wraps around.            *)
LEMMA MovedDownInOrder ==
  ASSUME NEW list \in Seq(Descriptor), InOrder(list),
         NEW d, NEW n \in 0 .. 15, ~Wraps(list, d, n)
  PROVE  /\ InOrder(MovedDown(list, d, n))
         /\ (\A i \in 1 .. Len(list) : Moves(list, d, i))
              => \A i \in 1 .. Len(list) :
                   MovedDown(list, d, n)[i].start
                     + MovedDown(list, d, n)[i].length
                       <= aNumSuperframeSlots - n
<1> DEFINE new == MovedDown(list, d, n)
<1>1. /\ Len(list) \in Nat /\ DOMAIN list = 1 .. Len(list)
      /\ \A i \in 1 .. Len(list) : list[i] \in Descriptor
  BY LenProperties, ElementOfSeq
<1>2. ASSUME NEW i \in 1 .. Len(list)
      PROVE  /\ list[i].start \in 0 .. 255 /\ list[i].length \in 0 .. 15
             /\ new[i].length = list[i].length
             /\ new[i].start = IF Moves(list, d, i) THEN list[i].start - n
                                                    ELSE list[i].start
  <2>1. list[i] \in Descriptor
    BY <1>1
  <2>2. list[i].start \in 0 .. 255 /\ list[i].length \in 0 .. 15
    BY <2>1, DescriptorFields
  <2>3. CASE Moves(list, d, i)
    <3> DEFINE moved == (list[i].start - n) % 256
    <3>1. new[i] = [list[i] EXCEPT !.start = moved]
      BY <2>3, MovedDownProperties
    <3>2. list[i].start >= n
      <4>1. ~(list[i].start < n)
        BY <1>1, <2>3 DEF Wraps
      <4>2. QED
        BY <2>2, <4>1, NotBelow
    <3>3. moved = list[i].start - n
      BY <2>2, <3>2, MovedStart
    <3> HIDE DEF moved, new
    <3>4. new[i].start = moved /\ new[i].length = list[i].length
      BY <2>1, <3>1 DEF Descriptor
    <3>5. QED
      BY <2>2, <2>3, <3>3, <3>4
  <2>4. CASE ~Moves(list, d, i)
    <3>1. new[i] = list[i]
      BY <2>4, MovedDownProperties
    <3> HIDE DEF new
    <3>2. QED
      BY <2>2, <2>4, <3>1
  <2>5. QED
    BY <2>3, <2>4
<1>3. Len(new) = Len(list)
  BY MovedDownProperties
<1>4. ASSUME NEW i \in 1 .. Len(list), NEW j \in 1 .. Len(list), i < j,
             Moves(list, d, j)
      PROVE  Moves(list, d, i)
  BY <1>1, <1>4 DEF Moves
<1> HIDE DEF new
<1>5. ASSUME NEW i \in 1 .. Len(list)
      PROVE  /\ new[i].start + new[i].length <= aNumSuperframeSlots
             /\ Moves(list, d, i) => new[i].start + new[i].length
                                       <= aNumSuperframeSlots - n
  <2>1. list[i].start + list[i].length <= aNumSuperframeSlots
    BY DEF InOrder
  <2>2. aNumSuperframeSlots \in 0 .. 255
    BY DEF aNumSuperframeSlots
  <2>3. (list[i].start - n) + list[i].length <= aNumSuperframeSlots - n
        /\ (list[i].start - n) + list[i].length <= aNumSuperframeSlots
    BY <1>2, <2>1, <2>2, MovedRange
  <2>4. QED
    BY <1>2, <2>1, <2>3
<1>6. ASSUME NEW i \in 1 .. Len(list), NEW j \in 1 .. Len(list), i < j
      PROVE  new[i].start + new[i].length <= new[j].start
  <2>1. list[i].start + list[i].length <= list[j].start
    BY <1>6 DEF InOrder
  <2>2. Moves(list, d, j) => Moves(list, d, i)
    BY <1>4, <1>6
  <2>3. (list[i].start - n) + list[i].length <= list[j].start - n
        /\ (list[i].start - n) + list[i].length <= list[j].start
    BY <1>2, <2>1, MovedRange
  <2>4. CASE Moves(list, d, j)
    BY <1>2, <2>2, <2>3, <2>4
  <2>5. CASE ~Moves(list, d, j)
    BY <1>2, <2>1, <2>3, <2>5
  <2>6. QED
    BY <2>4, <2>5
<1>7. InOrder(new)
  BY <1>3, <1>5, <1>6 DEF InOrder
<1>8. QED
  BY <1>5, <1>7 DEF new

LEMMA RemoveAtInOrder ==
  ASSUME NEW list \in Seq(Descriptor), InOrder(list), NEW i \in 1 .. Len(list)
  PROVE  InOrder(RemoveAt(list, i))
<1> DEFINE new == RemoveAt(list, i)
<1>1. /\ Len(list) \in Nat /\ Len(new) = Len(list) - 1
      /\ \A j \in 1 .. Len(list) - 1 :
           new[j] = IF j < i THEN list[j] ELSE list[j + 1]
  BY LenProperties, RemoveAtProperties
<1> HIDE DEF new
<1>2. ASSUME NEW j \in 1 .. Len(new)
      PROVE  new[j].start + new[j].length <= aNumSuperframeSlots
  BY <1>1, <1>2 DEF InOrder
<1>3. ASSUME NEW j \in 1 .. Len(new), NEW k \in 1 .. Len(new), j < k
      PROVE  new[j].start + new[j].length <= new[k].start
  <2>1. PICK p \in 1 .. Len(list) : new[j] = list[p] /\ p = IF j < i THEN j
                                                                ELSE j + 1
    BY <1>1
  <2>2. PICK q \in 1 .. Len(list) : new[k] = list[q] /\ q = IF k < i THEN k
                                                                ELSE k + 1
    BY <1>1
  <2>3. p < q
    BY <1>1, <1>3, <2>1, <2>2
  <2>4. QED
    BY <2>1, <2>2, <2>3 DEF InOrder
<1>4. QED
  BY <1>2, <1>3 DEF InOrder, new

LEMMA AppendInOrder ==
  ASSUME NEW list \in Seq(Descriptor), InOrder(list), NEW n \in 0 .. 15,
         \A i \in 1 .. Len(list) :
           list[i].start + list[i].length <= aNumSuperframeSlots - n,
         NEW x \in Descriptor, x.start = aNumSuperframeSlots - n, x.length = n
  PROVE  InOrder(Append(list, x))
<1> DEFINE new == Append(list, x)
<1>1. /\ Len(list) \in Nat /\ Len(new) = Len(list) + 1
      /\ \A i \in 1 .. Len(list) : new[i] = list[i]
      /\ new[Len(list) + 1] = x
  BY LenProperties, AppendProperties
<1> HIDE DEF new
<1>2. ASSUME NEW i \in 1 .. Len(new)
      PROVE  new[i].start + new[i].length <= aNumSuperframeSlots
  <2>1. CASE i \in 1 .. Len(list)
    BY <1>1, <2>1 DEF InOrder
  <2>2. CASE i = Len(list) + 1
    <3>1. new[i].start = 16 - n /\ new[i].length = n
      BY <1>1, <2>2 DEF aNumSuperframeSlots
    <3>2. QED
      BY <3>1 DEF aNumSuperframeSlots
  <2>3. QED
    BY <1>1, <2>1, <2>2
<1>3. ASSUME NEW i \in 1 .. Len(new), NEW j \in 1 .. Len(new), i < j
      PROVE  new[i].start + new[i].length <= new[j].start
  <2>1. i \in 1 .. Len(list)
    BY <1>1, <1>3
  <2>2. CASE j \in 1 .. Len(list)
    BY <1>1, <1>3, <2>1, <2>2 DEF InOrder
  <2>3. CASE j = Len(list) + 1
    <3>1. new[j].start = aNumSuperframeSlots - n /\ new[i] = list[i]
      BY <1>1, <2>1, <2>3
    <3>2. list[i].start + list[i].length <= aNumSuperframeSlots - n
      BY <2>1
    <3>3. QED
      BY <3>1, <3>2
  <2>4. QED
    BY <1>1, <2>2, <2>3
<1>4. QED
  BY <1>2, <1>3 DEF InOrder, new

LEMMA DeallocationInOrder ==
  ASSUME TypeOK, InOrder(GTSList), NEW d, NEW n, GTSDeallocation(d, n)
  PROVE  InOrder(GTSList')
<1>1. CASE Owns(GTSList, d)
  <2>1. PICK i \in DOMAIN GTSList : GTSList' = RemoveAt(GTSList, i)
    BY <1>1 DEF GTSDeallocation
  <2>2. GTSList \in Seq(Descriptor) /\ i \in 1 .. Len(GTSList)
    BY <2>1, LenProperties DEF TypeOK
  <2>3. QED
    BY <2>1, <2>2, RemoveAtInOrder
<1>2. CASE ~Owns(GTSList, d)
  BY <1>2 DEF GTSDeallocation
<1>3. QED
  BY <1>1, <1>2

(* The strengthening of GtsDisjoint.                                       *)
LEMMA InOrderAlways == Spec => []DisjointInv
<1> USE GtsAssumption
<1>0. InOrder(<<>>)
  BY EmptySeq DEF InOrder
<1>1. Init => DisjointInv
  BY <1>0 DEF Init, DisjointInv
<1>2. TypeOK /\ DisjointInv /\ [Next]_vars => DisjointInv'
  <2> SUFFICES ASSUME TypeOK, DisjointInv, [Next]_vars, ~wrapped'
               PROVE  InOrder(GTSList')
    BY DEF DisjointInv
  <2>0. GTSList \in Seq(Descriptor) /\ DOMAIN GTSList = 1 .. Len(GTSList)
    BY LenProperties DEF TypeOK
  <2>1. CASE SendOneBeacon
    BY <1>0, <2>1 DEF SendOneBeacon
  <2>2. ASSUME NEW d \in Devices, NEW n \in Lengths, Deallocate(d, n)
        PROVE  InOrder(GTSList')
    BY <2>2, DeallocationInOrder DEF Deallocate, DisjointInv
  <2>3. ASSUME NEW d \in Devices, NEW n \in Lengths, Allocate(d, n)
        PROVE  InOrder(GTSList')
    <3> DEFINE list == MovedDown(GTSList, d, n)
               x == [device |-> d, start |-> aNumSuperframeSlots - n,
                     length |-> n]
    <3>1. n \in 0 .. 15
      OBVIOUS
    <3>2. GTSList' = Append(list, x) /\ ~Owns(GTSList, d)
          /\ ~wrapped /\ ~Wraps(GTSList, d, n)
      BY <2>3 DEF Allocate
    <3>3. x \in Descriptor /\ x.start = aNumSuperframeSlots - n /\ x.length = n
      BY <3>1 DEF Descriptor, aNumSuperframeSlots
    <3>4. \A i \in 1 .. Len(GTSList) : Moves(GTSList, d, i)
      <4>1. Len(GTSList) \in Nat
        BY LenProperties DEF TypeOK
      <4>2. \A j \in 1 .. Len(GTSList) : GTSList[j].device # d
        BY <2>0, <3>2 DEF Owns
      <4>3. QED
        BY <4>1, <4>2 DEF Moves
    <3>5. InOrder(GTSList)
      BY <3>2 DEF DisjointInv
    <3>6. /\ list \in Seq(Descriptor) /\ Len(list) = Len(GTSList)
          /\ InOrder(list)
          /\ \A i \in 1 .. Len(GTSList) :
               list[i].start + list[i].length <= aNumSuperframeSlots - n
      BY <2>0, <3>1, <3>2, <3>4, <3>5, MovedDownProperties, MovedDownInOrder
    <3> HIDE DEF list, x
    <3>7. QED
      BY <3>1, <3>2, <3>3, <3>6, AppendInOrder
  <2>4. ASSUME NEW d \in Devices, NEW n \in Lengths, AllocateAgain(d, n)
        PROVE  InOrder(GTSList')
    <3>1. n \in 0 .. 15
      OBVIOUS
    <3>2. GTSList' = MovedDown(GTSList, d, n) /\ ~Wraps(GTSList, d, n)
          /\ InOrder(GTSList)
      BY <2>4 DEF AllocateAgain, DisjointInv
    <3>3. QED
      BY <2>0, <3>1, <3>2, MovedDownInOrder
  <2>5. ASSUME NEW d \in Devices, NEW n \in Lengths, DeallocationFires(d, n)
        PROVE  InOrder(GTSList')
    BY <2>5, DeallocationInOrder DEF DeallocationFires, DisjointInv
  <2>6. CASE UNCHANGED vars
    BY <2>6 DEF vars, DisjointInv
  <2>7. QED
    BY <2>1, <2>2, <2>3, <2>4, <2>5, <2>6 DEF Next, SendBeaconWithoutList
<1>3. QED
  BY <1>1, <1>2, TypeCorrect, PTL DEF Spec

(* No two devices are given the same slot by receivedGTSRequest and        *)
(* GTSDeallocation, in whatever order descriptors are added, moved and     *)
(* removed, until a start slot wraps around.                               *)
THEOREM GtsDisjointAlways == Spec => []GtsDisjoint
<1>1. TypeOK /\ DisjointInv => GtsDisjoint
  <2> SUFFICES ASSUME TypeOK, DisjointInv PROVE GtsDisjoint
    OBVIOUS
  <2>1. DOMAIN GTSList = 1 .. Len(GTSList)
    BY LenProperties DEF TypeOK
  <2>2. QED
    BY <2>1 DEF DisjointInv, InOrder, GtsDisjoint
<1>2. QED
  BY <1>1, TypeCorrect, InOrderAlways, PTL
-----------------------------------------------------------------------------
(* After first allocations only the slots taken are those the CAP gave up. *)
(* Before the first list the CAP counts one slot more than lies before     *)
(* them.                                                                   *)
CAPInv ==
  regular =>
    /\ CAPLength \in 0 .. 16 /\ (announced => CAPLength < 16)
    /\ announced \/ GTSList # <<>> => FinalCAPSlot = CAPLength
    /\ \A i \in 1 .. Len(GTSList) :
         /\ CAPLength <= GTSList[i].start
         /\ announced => CAPLength < GTSList[i].start

LEMMA CAPShrinks ==
  ASSUME NEW c \in 0 .. 16, NEW m \in 0 .. 15, c - m >= 0
  PROVE  /\ c - m \in 0 .. 16 /\ (c - m) % 256 = c - m
         /\ c - m <= aNumSuperframeSlots - m
         /\ c < 16 => c - m < 16 /\ c - m < aNumSuperframeSlots - m
         /\ \A k \in 0 .. 255 :
              c <= k => /\ ~(k < m) /\ c - m <= k - m
                        /\ c < k => c - m < k - m
  BY DEF aNumSuperframeSlots

(* Every GTS lies behind the final CAP slot that the beacon announces, for *)
(* any number of first allocations since the last beacon with a list; in   *)
(* the first list none lies before it, but the first one begins with it.   *)
THEOREM GtsBehindCAPAlways == Spec => []GtsBehindCAP
<1> USE GtsAssumption
<1>1. Init => CAPInv
  <2> SUFFICES ASSUME Init PROVE CAPInv
    OBVIOUS
  <2>1. Len(GTSList) = 0 /\ GTSList = <<>> /\ ~announced /\ CAPLength = 16
    BY EmptySeq DEF Init, aNumSuperframeSlots
  <2>2. QED
    BY <2>1 DEF CAPInv
<1>2. TypeOK /\ CAPInv /\ [Next]_vars => CAPInv'
  <2> SUFFICES ASSUME TypeOK, CAPInv, [Next]_vars, regular' PROVE CAPInv'
    BY DEF CAPInv
  <2>0. /\ GTSList \in Seq(Descriptor) /\ Len(GTSList) \in Nat
        /\ DOMAIN GTSList = 1 .. Len(GTSList)
        /\ \A i \in 1 .. Len(GTSList) : GTSList[i] \in Descriptor
    BY LenProperties, ElementOfSeq DEF TypeOK
  <2>1. CASE SendOneBeacon
    <3>1. Len(GTSList') = 0
      BY <2>1, EmptySeq DEF SendOneBeacon
    <3>2. CAPLength' = 15 /\ FinalCAPSlot' = 15
      BY <2>1 DEF SendOneBeacon
    <3>3. QED
      BY <3>1, <3>2 DEF CAPInv
  <2>2. ASSUME NEW d \in Devices, NEW n \in Lengths,
               Deallocate(d, n) \/ DeallocationFires(d, n)
        PROVE  CAPInv'
    <3>1. UNCHANGED <<GTSList, CAPLength, FinalCAPSlot, announced, regular>>
      BY <2>2 DEF Deallocate, DeallocationFires, GTSDeallocation
    <3>2. QED
      BY <3>1 DEF CAPInv
  <2>3. ASSUME NEW d \in Devices, NEW n \in Lengths, Allocate(d, n)
        PROVE  CAPInv'
    <3> DEFINE list == MovedDown(GTSList, d, n)
               x == [device |-> d, start |-> aNumSuperframeSlots - n,
                     length |-> n]
    <3>1. n \in 0 .. 15
      OBVIOUS
    <3>2. /\ GTSList' = Append(list, x) /\ ~Owns(GTSList, d)
          /\ CAPLength' = CAPLength - n /\ FinalCAPSlot' = CAPLength' % 256
          /\ announced' = announced /\ regular /\ CAPLength' >= 0
      BY <2>3 DEF Allocate
    <3>3. /\ CAPLength \in 0 .. 16 /\ (announced => CAPLength < 16)
          /\ \A i \in 1 .. Len(GTSList) :
               /\ CAPLength <= GTSList[i].start
               /\ announced => CAPLength < GTSList[i].start
      BY <3>2 DEF CAPInv
    <3>4. /\ CAPLength' \in 0 .. 16 /\ FinalCAPSlot' = CAPLength'
          /\ CAPLength' <= aNumSuperframeSlots - n
          /\ announced => CAPLength' < 16 /\ CAPLength' < aNumSuperframeSlots - n
          /\ \A k \in 0 .. 255 :
               CAPLength <= k =>
                 /\ ~(k < n) /\ CAPLength' <= k - n
                 /\ CAPLength < k => CAPLength' < k - n
      BY <3>1, <3>2, <3>3, CAPShrinks
    <3>5. x \in Descriptor /\ x.start = aNumSuperframeSlots - n
      BY <3>1 DEF Descriptor, aNumSuperframeSlots
    <3>6. /\ list \in Seq(Descriptor) /\ Len(list) = Len(GTSList)
          /\ \A i \in 1 .. Len(GTSList) :
               Moves(GTSList, d, i) =>
                 list[i] = [GTSList[i] EXCEPT !.start = (@ - n) % 256]
      BY <2>0, <3>1, MovedDownProperties
    <3> HIDE DEF list, x
    <3>7. ASSUME NEW i \in 1 .. Len(GTSList)
          PROVE  /\ CAPLength' <= list[i].start
                 /\ announced => CAPLength' < list[i].start
      <4>1. Moves(GTSList, d, i)
        BY <2>0, <3>2 DEF Owns, Moves
      <4>2. GTSList[i] \in Descriptor /\ GTSList[i].start \in 0 .. 255
        BY <2>0, DescriptorFields
      <4>3. /\ ~(GTSList[i].start < n) /\ CAPLength' <= GTSList[i].start - n
            /\ announced => CAPLength' < GTSList[i].start - n
        BY <3>3, <3>4, <4>2
      <4>4. (GTSList[i].start - n) % 256 = GTSList[i].start - n
        BY <3>1, <4>2, <4>3, NotBelow, MovedStart
      <4>5. list[i].start = (GTSList[i].start - n) % 256
        BY <3>6, <4>1, <4>2 DEF Descriptor
      <4>6. QED
        BY <4>3, <4>4, <4>5
    <3>8. /\ Len(GTSList') = Len(GTSList) + 1
          /\ \A i \in 1 .. Len(GTSList) : GTSList'[i] = list[i]
          /\ GTSList'[Len(GTSList) + 1] = x
      BY <3>2, <3>5, <3>6, AppendProperties
    <3>9. ASSUME NEW i \in 1 .. Len(GTSList')
          PROVE  /\ CAPLength' <= GTSList'[i].start
                 /\ announced => CAPLength' < GTSList'[i].start
      <4>1. CASE i \in 1 .. Len(GTSList)
        BY <3>7, <3>8, <4>1
      <4>2. CASE i = Len(GTSList) + 1
        BY <3>4, <3>5, <3>8, <4>2
      <4>3. QED
        BY <2>0, <3>8, <4>1, <4>2
    <3>10. QED
      BY <3>2, <3>4, <3>9 DEF CAPInv
  <2>4. ASSUME NEW d \in Devices, NEW n \in Lengths, AllocateAgain(d, n)
        PROVE  CAPInv'
    BY <2>4 DEF AllocateAgain
  <2>5. CASE UNCHANGED vars
    BY <2>5 DEF vars, CAPInv
  <2>6. QED
    BY <2>1, <2>2, <2>3, <2>4, <2>5 DEF Next, SendBeaconWithoutList
<1>3. TypeOK /\ CAPInv => GtsBehindCAP
  <2> SUFFICES ASSUME TypeOK, CAPInv PROVE GtsBehindCAP
    OBVIOUS
  <2>1. DOMAIN GTSList = 1 .. Len(GTSList)
    BY LenProperties DEF TypeOK
  <2>2. QED
    BY <2>1 DEF CAPInv, GtsBehindCAP
<1>4. QED
  BY <1>1, <1>2, <1>3, TypeCorrect, PTL DEF Spec
=============================================================================
