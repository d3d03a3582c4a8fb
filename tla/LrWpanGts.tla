------------------------------ MODULE LrWpanGts ------------------------------
(***************************************************************************)
(* The guaranteed time slots (GTS) that a PAN coordinator allocates, in    *)
(* model/lr-wpan-mac.cc: the list of descriptors that the next beacon      *)
(* announces, the length of the contention access period (CAP), and the    *)
(* deallocations scheduled for later.                                      *)
(*                                                                         *)
(* A superframe has 16 slots.  An allocation takes the last slots and      *)
(* moves the earlier ones down; each beacon announces the list and empties *)
(* it.  A scheduled deallocation names a device, not a descriptor, and     *)
(* outlives the list.                                                      *)
(*                                                                         *)
(* m_CAPLength is a uint64_t.  A value below zero here stands for that     *)
(* value plus 2^64, which every comparison of the code takes for a large   *)
(* number.                                                                 *)
(***************************************************************************)
EXTENDS Integers, Sequences, SequencesExt

CONSTANTS
  Devices,         \* the devices known to the coordinator
  Lengths,         \* the lengths requested: a field of four bits
  MaxTimers,       \* bound: deallocations scheduled, of a device and length
  MaxRequests      \* bound: requests between two beacons with a list

ASSUME GtsAssumption ==
  /\ Lengths \subseteq 0 .. 15
  /\ MaxTimers \in Nat
  /\ MaxRequests \in Nat

aNumSuperframeSlots == 16

(* 440 symbols in slots of 60, both scaled by the superframe order.        *)
LeavesMinimumCAP(slots) == slots < 0 \/ slots * 60 > 440

VARIABLES
  GTSList,        \* m_GTSList
  CAPLength,      \* m_CAPLength
  FinalCAPSlot,   \* m_FinalCAPSlot, a uint8_t
  deallocation,   \* the GTSDeallocation events scheduled by an allocation
  announced,      \* history: has a beacon announced a list yet?
  regular,        \* history: only first allocations since the last such beacon
  wrapped,        \* history: has a start slot gone below zero since then?
  requests        \* history: requests since then

vars == <<GTSList, CAPLength, FinalCAPSlot, deallocation, announced, regular,
          wrapped, requests>>

Descriptor == [device : Devices, start : 0 .. 255, length : 0 .. 15]

Init ==
  /\ GTSList = <<>>
  /\ CAPLength = aNumSuperframeSlots
  /\ FinalCAPSlot = 15
  /\ deallocation = [d \in Devices |-> [n \in Lengths |-> 0]]
  /\ announced = FALSE
  /\ regular = TRUE
  /\ wrapped = FALSE
  /\ requests = 0
-----------------------------------------------------------------------------
Owns(list, d) == \E i \in DOMAIN list : list[i].device = d

(* The loop over the descriptors moves each one down, and returns as soon  *)
(* as it meets one of the requesting device.                               *)
Moves(list, d, i) == \A j \in 1 .. i : list[j].device # d

IsFirst(list, d, i) == list[i].device = d /\ Moves(list, d, i - 1)

(* Mutants of MovedDown: wider start slots, and descriptors left in place. *)
MovedDownUnwrapped(list, d, n) ==
  [i \in DOMAIN list |->
     IF Moves(list, d, i) THEN [list[i] EXCEPT !.start = @ - n] ELSE list[i]]

NotMovedDown(list, d, n) == list

MovedDown(list, d, n) ==
  [i \in DOMAIN list |->
     IF Moves(list, d, i) THEN [list[i] EXCEPT !.start = (@ - n) % 256]
                          ELSE list[i]]

Wraps(list, d, n) ==
  \E i \in DOMAIN list : Moves(list, d, i) /\ list[i].start < n

(* GTSDeallocation.  The slots of the other descriptors stay where they    *)
(* are.                                                                    *)
GTSDeallocation(d, n) ==
  IF Owns(GTSList, d)
    THEN /\ \E i \in DOMAIN GTSList :
              IsFirst(GTSList, d, i) /\ GTSList' = RemoveAt(GTSList, i)
         /\ CAPLength' = CAPLength + n
         /\ FinalCAPSlot' = CAPLength' % 256
         /\ regular' = FALSE
    ELSE UNCHANGED <<GTSList, CAPLength, FinalCAPSlot, regular>>
-----------------------------------------------------------------------------
(* receivedGTSRequest, by its characteristics type and outcome.            *)

Request ==
  /\ requests < MaxRequests
  /\ requests' = requests + 1

Deallocate(d, n) ==
  /\ Request
  /\ GTSDeallocation(d, n)
  /\ UNCHANGED <<deallocation, announced, wrapped>>

Grantable(n) == LeavesMinimumCAP(CAPLength - n) /\ Len(GTSList) < 7

(* Mutant of Allocate: the GTS starts one slot too early.                  *)
AllocateTooEarly(d, n) ==
  /\ Request
  /\ Grantable(n) /\ ~Owns(GTSList, d)
  /\ deallocation[d][n] < MaxTimers
  /\ CAPLength' = CAPLength - n
  /\ GTSList' = Append(MovedDown(GTSList, d, n),
                       [device |-> d, start |-> aNumSuperframeSlots - n - 1,
                        length |-> n])
  /\ FinalCAPSlot' = CAPLength' % 256
  /\ deallocation' = [deallocation EXCEPT ![d][n] = @ + 1]
  /\ regular' = (regular /\ CAPLength' >= 0)
  /\ wrapped' = (wrapped \/ Wraps(GTSList, d, n))
  /\ UNCHANGED announced

Allocate(d, n) ==
  /\ Request
  /\ Grantable(n) /\ ~Owns(GTSList, d)
  /\ deallocation[d][n] < MaxTimers
  /\ CAPLength' = CAPLength - n
  /\ GTSList' = Append(MovedDown(GTSList, d, n),
                       [device |-> d, start |-> aNumSuperframeSlots - n,
                        length |-> n])
  /\ FinalCAPSlot' = CAPLength' % 256
  /\ deallocation' = [deallocation EXCEPT ![d][n] = @ + 1]
  /\ regular' = (regular /\ CAPLength' >= 0)
  /\ wrapped' = (wrapped \/ Wraps(GTSList, d, n))
  /\ UNCHANGED announced

(* A device that has a descriptor is not given another one, but by then    *)
(* the CAP is shorter and some of the descriptors have moved.              *)
AllocateAgain(d, n) ==
  /\ Request
  /\ Grantable(n) /\ Owns(GTSList, d)
  /\ CAPLength' = CAPLength - n
  /\ GTSList' = MovedDown(GTSList, d, n)
  /\ regular' = FALSE
  /\ wrapped' = (wrapped \/ Wraps(GTSList, d, n))
  /\ UNCHANGED <<FinalCAPSlot, deallocation, announced>>

(* A request that is denied changes nothing: the descriptor with start     *)
(* slot 0 that should say so to the device is not put into the list.       *)

(* The event an allocation scheduled, four beacon intervals later.         *)
DeallocationFires(d, n) ==
  /\ deallocation[d][n] > 0
  /\ deallocation' = [deallocation EXCEPT ![d][n] = @ - 1]
  /\ GTSDeallocation(d, n)
  /\ UNCHANGED <<announced, wrapped, requests>>

(* The list is announced, and forgotten; GTSDeallocationForZero then finds *)
(* nothing.  Without a list nothing is reset.                              *)
SendOneBeacon ==
  /\ GTSList # <<>>
  /\ GTSList' = <<>>
  /\ FinalCAPSlot' = 15
  /\ CAPLength' = 15
  /\ announced' = TRUE
  /\ regular' = TRUE
  /\ wrapped' = FALSE
  /\ requests' = 0
  /\ UNCHANGED deallocation

SendBeaconWithoutList == GTSList = <<>> /\ UNCHANGED vars

Next ==
  \/ SendOneBeacon
  \/ SendBeaconWithoutList
  \/ \E d \in Devices, n \in Lengths :
       \/ Deallocate(d, n)
       \/ Allocate(d, n)
       \/ AllocateAgain(d, n)
       \/ DeallocationFires(d, n)

Spec == Init /\ [][Next]_vars
-----------------------------------------------------------------------------
TypeOK ==
  /\ GTSList \in Seq(Descriptor)
  /\ CAPLength \in Int
  /\ FinalCAPSlot \in 0 .. 255
  /\ deallocation \in [Devices -> [Lengths -> Nat]]
  /\ announced \in BOOLEAN
  /\ regular \in BOOLEAN
  /\ wrapped \in BOOLEAN
  /\ requests \in 0 .. MaxRequests

(* No two devices are given the same slot, in whatever order descriptors   *)
(* were added, moved and removed, as long as they all lie in the           *)
(* superframe.                                                             *)
GtsDisjoint ==
  ~wrapped => \A i, j \in DOMAIN GTSList :
    i < j => GTSList[i].start + GTSList[i].length <= GTSList[j].start

(* The devices contend for the channel up to and including the final CAP   *)
(* slot, so every GTS should lie behind it.  After a beacon with a list    *)
(* allocations alone keep that; a deallocation, a second request of a      *)
(* device, or a request that finds no room may not.  They do not before    *)
(* the first such beacon: the CAP counts 16 slots then, not 15, and the    *)
(* final CAP slot is the first slot of the first GTS, but none behind.     *)
GtsBehindCAP ==
  regular =>
    /\ announced \/ GTSList # <<>> => FinalCAPSlot = CAPLength
    /\ \A i \in DOMAIN GTSList :
         IF announced THEN FinalCAPSlot < GTSList[i].start
                      ELSE FinalCAPSlot <= GTSList[i].start

(* What should hold: every GTS lies behind the final CAP slot, in the      *)
(* first list as in every other.  It does not.                             *)
FirstListBehindCAP ==
  regular => \A i \in DOMAIN GTSList : FinalCAPSlot < GTSList[i].start

(* lr-wpan-mac.cc on m_aMinCAPLength: the minimum number of symbols        *)
(* forming the CAP.                                                        *)
CAPKeepsMinimum == CAPLength * 60 >= 440
=============================================================================
