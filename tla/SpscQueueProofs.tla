-------------------------- MODULE SpscQueueProofs --------------------------
(***************************************************************************)
(* The safety of module SpscQueue for every capacity, and that the queue   *)
(* implements BoundedFifo.  The argument: the copies of the indices err on *)
(* the safe side, so the positions between consumerStart and producerEnd   *)
(* number at most Capacity and fall into different slots; each of those    *)
(* slots holds the value of its position and every other slot is empty.    *)
(***************************************************************************)
EXTENDS SpscQueue, Integers, Sequences, TLAPS

\* How far a thread's private position is ahead of the index it publishes.
PositionInv ==
  /\ producerEnd = IF ppc = "publish" THEN end + 1 ELSE end
  /\ consumerStart = IF cpc = "release" THEN start + 1 ELSE start

\* What the tests before a write and before a read established.
RoomInv ==
  /\ ppc \in {"write", "checkClosed"} => producerEnd < producerStart + Capacity
  /\ ppc = "publish" => producerEnd <= producerStart + Capacity
  /\ cpc = "read" => consumerStart < consumerEnd
  /\ producerEnd <= MaxPushes
  /\ ppc \notin {"idle", "publish"} => producerEnd < MaxPushes

\* The slots hold the values that are written and not yet read.
ContentInv ==
  /\ \A i \in consumerStart .. producerEnd - 1 : buffer[Slot(i)] = i
  /\ \A s \in 0 .. Capacity - 1 :
       buffer[s] # Empty =>
         /\ buffer[s] \in consumerStart .. producerEnd - 1
         /\ Slot(buffer[s]) = s

IInv ==
  /\ TypeOK
  /\ CopiesAreConservative
  /\ PositionInv
  /\ RoomInv
  /\ ContentInv
  /\ PoppedInOrder

-----------------------------------------------------------------------------
LEMMA SlotType == ASSUME NEW i \in Nat PROVE Slot(i) \in 0 .. Capacity - 1
  BY SpscAssumption DEF Slot

\* Positions less than Capacity apart use different slots.
LEMMA SlotDiffers ==
  ASSUME NEW i \in Nat, NEW j \in Nat, i < j, j < i + Capacity
  PROVE  Slot(i) # Slot(j)
  <1> DEFINE q(n) == n \div Capacity
  <1>1. \A n \in Nat : q(n) \in Nat /\ n = Capacity * q(n) + Slot(n)
    BY SpscAssumption DEF Slot
  <1> HIDE DEF q
  <1>2. SUFFICES ASSUME Slot(i) = Slot(j) PROVE FALSE
    OBVIOUS
  <1>3. /\ q(i) \in Nat /\ q(j) \in Nat
        /\ Capacity * q(j) - Capacity * q(i) = j - i
    BY <1>1, <1>2, SlotType, SpscAssumption
  <1>4. Capacity * (q(j) - q(i)) = j - i
    BY <1>3, SpscAssumption
  <1>5. PICK d \in Int : d = q(j) - q(i) /\ Capacity * d = j - i
    BY <1>3, <1>4
  <1>6. CASE d >= 1
    <2>1. Capacity * d >= Capacity
      BY <1>6, SpscAssumption
    <2>2. QED BY <2>1, <1>5, SpscAssumption
  <1>7. CASE d <= 0
    <2>1. Capacity * d <= 0
      BY <1>7, SpscAssumption
    <2>2. QED BY <2>1, <1>5, SpscAssumption
  <1>8. QED BY <1>5, <1>6, <1>7

-----------------------------------------------------------------------------
\* Every index and every slot in range, for the steps that only move indices.
IndexInv == CopiesAreConservative /\ PositionInv /\ RoomInv /\ PoppedInOrder

LEMMA InitInv == Init => IInv
  <1> SUFFICES ASSUME Init PROVE IInv
    OBVIOUS
  <1>1. TypeOK
    <2>1. /\ {start, end, producerEnd, producerStart, consumerStart, consumerEnd} \subseteq Nat
          /\ buffer \in [0 .. Capacity - 1 -> Nat \cup {Empty}]
      BY DEF Init
    <2>2. closed \in BOOLEAN
      BY DEF Init
    <2> QED BY <2>1, <2>2 DEF Init, TypeOK
  <1>2. CopiesAreConservative /\ PositionInv /\ RoomInv /\ PoppedInOrder
    BY SpscAssumption DEF Init, CopiesAreConservative, PositionInv, RoomInv, PoppedInOrder
  <1>3. ContentInv
    BY SpscAssumption DEF Init, ContentInv
  <1> QED BY <1>1, <1>2, <1>3 DEF IInv

\* A step that moves no position and touches no slot keeps the contents.
LEMMA ContentKept ==
  ASSUME ContentInv, UNCHANGED <<buffer, consumerStart, producerEnd>>
  PROVE  ContentInv'
  BY DEF ContentInv, Slot

LEMMA NextInv == IInv /\ [Next]_vars => IInv'
  <1> SUFFICES ASSUME IInv, [Next]_vars PROVE IInv'
    OBVIOUS
  <1> USE SpscAssumption
  <1>1. ASSUME NEW o \in {"TryPush", "Push"}, BeginPush(o) PROVE IInv'
    <2>1. ContentInv'
      BY <1>1, ContentKept DEF IInv, BeginPush, ProducerOnly, consumerVars
    <2>2. TypeOK'
      BY <1>1 DEF IInv, TypeOK, BeginPush, ProducerOnly, consumerVars, AfterFullTest, Full
    <2>3. IndexInv'
      BY <1>1 DEF IInv, TypeOK, IndexInv, CopiesAreConservative, PositionInv,
         RoomInv, PoppedInOrder, BeginPush, ProducerOnly, consumerVars, AfterFullTest, Full
    <2> QED BY <2>1, <2>2, <2>3 DEF IInv, IndexInv
  <1>2. CASE RefreshStart
    <2>1. ContentInv'
      BY <1>2, ContentKept DEF IInv, RefreshStart, ProducerOnly, consumerVars
    <2>2. TypeOK'
      BY <1>2 DEF IInv, TypeOK, RefreshStart, ProducerOnly, consumerVars, AfterFullTest, Full
    <2>3. IndexInv'
      <3>1. CopiesAreConservative'
        BY <1>2 DEF IInv, TypeOK, CopiesAreConservative, PositionInv, RoomInv,
           RefreshStart, ProducerOnly, consumerVars, AfterFullTest, Full
      <3>2. PositionInv'
        BY <1>2 DEF IInv, TypeOK, PositionInv, RefreshStart, ProducerOnly, consumerVars, AfterFullTest, Full
      <3>3. RoomInv'
        BY <1>2 DEF IInv, TypeOK, CopiesAreConservative, RoomInv,
           RefreshStart, ProducerOnly, consumerVars, AfterFullTest, Full
      <3>4. PoppedInOrder'
        BY <1>2 DEF IInv, PoppedInOrder, RefreshStart, ProducerOnly, consumerVars, AfterFullTest, Full
      <3> QED BY <3>1, <3>2, <3>3, <3>4 DEF IndexInv
    <2> QED BY <2>1, <2>2, <2>3 DEF IInv, IndexInv
  <1>3. CASE PushPollsClosed \/ TryPushChecksClosed
    <2>1. ContentInv'
      BY <1>3, ContentKept DEF IInv, PushPollsClosed, TryPushChecksClosed,
         ProducerOnly, consumerVars
    <2>2. TypeOK'
      BY <1>3 DEF IInv, TypeOK, PushPollsClosed, TryPushChecksClosed,
         ProducerOnly, consumerVars
    <2>3. IndexInv'
      BY <1>3 DEF IInv, TypeOK, IndexInv, CopiesAreConservative, PositionInv,
         RoomInv, PoppedInOrder, PushPollsClosed, TryPushChecksClosed,
         ProducerOnly, consumerVars
    <2> QED BY <2>1, <2>2, <2>3 DEF IInv, IndexInv
  <1>4. CASE Write
    <2>1. Slot(producerEnd) \in 0 .. Capacity - 1
      BY SlotType DEF IInv, TypeOK
    <2>2. TypeOK'
      BY <1>4, <2>1 DEF IInv, TypeOK, Write, ProducerOnly, consumerVars
    <2>3. IndexInv'
      <3>1. CopiesAreConservative'
        BY <1>4 DEF IInv, TypeOK, CopiesAreConservative, PositionInv, RoomInv,
           Write, ProducerOnly, consumerVars
      <3>2. PositionInv'
        BY <1>4 DEF IInv, TypeOK, PositionInv, Write, ProducerOnly, consumerVars
      <3>3. RoomInv'
        BY <1>4 DEF IInv, TypeOK, CopiesAreConservative, RoomInv,
           Write, ProducerOnly, consumerVars
      <3>4. PoppedInOrder'
        BY <1>4 DEF IInv, PoppedInOrder, Write, ProducerOnly, consumerVars
      <3> QED BY <3>1, <3>2, <3>3, <3>4 DEF IndexInv
    <2>4. /\ consumerStart \in Nat /\ producerEnd \in Nat
          /\ consumerStart <= producerEnd
          /\ producerEnd < consumerStart + Capacity
          /\ consumerStart' = consumerStart /\ producerEnd' = producerEnd + 1
          /\ buffer' = [buffer EXCEPT ![Slot(producerEnd)] = producerEnd]
          /\ buffer \in [0 .. Capacity - 1 -> Nat \cup {Empty}]
      BY <1>4 DEF IInv, TypeOK, CopiesAreConservative, RoomInv, Write,
         ProducerOnly, consumerVars
    <2>5. \A i \in consumerStart .. producerEnd - 1 :
             i \in Nat /\ Slot(i) \in 0 .. Capacity - 1 /\ Slot(i) # Slot(producerEnd)
      BY <2>4, SlotType, SlotDiffers
    <2>6. \A i \in consumerStart .. producerEnd : buffer'[Slot(i)] = i
      <3> SUFFICES ASSUME NEW i \in consumerStart .. producerEnd
                   PROVE  buffer'[Slot(i)] = i
        OBVIOUS
      <3>1. CASE i = producerEnd
        BY <3>1, <2>1, <2>4
      <3>2. CASE i # producerEnd
        BY <3>2, <2>1, <2>4, <2>5 DEF IInv, ContentInv
      <3> QED BY <3>1, <3>2
    <2>7. \A s \in 0 .. Capacity - 1 :
             buffer'[s] # Empty =>
               buffer'[s] \in consumerStart .. producerEnd /\ Slot(buffer'[s]) = s
      <3> SUFFICES ASSUME NEW s \in 0 .. Capacity - 1, buffer'[s] # Empty
                   PROVE  /\ buffer'[s] \in consumerStart .. producerEnd
                          /\ Slot(buffer'[s]) = s
        OBVIOUS
      <3>1. CASE s = Slot(producerEnd)
        BY <3>1, <2>4
      <3>2. CASE s # Slot(producerEnd)
        BY <3>2, <2>4 DEF IInv, ContentInv
      <3> QED BY <3>1, <3>2
    <2>8. \A n : Slot(n)' = Slot(n)
      BY DEF Slot
    <2>9. ContentInv'
      BY <2>4, <2>6, <2>7 DEF ContentInv, Slot
    <2> QED BY <2>2, <2>3, <2>9 DEF IInv, IndexInv
  <1>5. CASE Publish
    <2>1. ContentInv'
      BY <1>5, ContentKept DEF IInv, Publish, ProducerOnly, consumerVars
    <2>2. TypeOK'
      BY <1>5 DEF IInv, TypeOK, Publish, ProducerOnly, consumerVars
    <2>3. IndexInv'
      BY <1>5 DEF IInv, TypeOK, IndexInv, CopiesAreConservative, PositionInv,
         RoomInv, PoppedInOrder, Publish, ProducerOnly, consumerVars
    <2> QED BY <2>1, <2>2, <2>3 DEF IInv, IndexInv
  <1>6. ASSUME NEW o \in {"TryPop", "Pop"}, BeginPop(o) PROVE IInv'
    <2>1. ContentInv'
      BY <1>6, ContentKept DEF IInv, BeginPop, ConsumerOnly, producerVars
    <2>2. TypeOK'
      BY <1>6 DEF IInv, TypeOK, BeginPop, ConsumerOnly, producerVars
    <2>3. IndexInv'
      BY <1>6 DEF IInv, TypeOK, IndexInv, CopiesAreConservative, PositionInv,
         RoomInv, PoppedInOrder, BeginPop, ConsumerOnly, producerVars
    <2> QED BY <2>1, <2>2, <2>3 DEF IInv, IndexInv
  <1>7. CASE ReloadEnd
    <2>1. ContentInv'
      BY <1>7, ContentKept DEF IInv, ReloadEnd, ConsumerOnly, producerVars
    <2>2. TypeOK'
      BY <1>7 DEF IInv, TypeOK, ReloadEnd, ConsumerOnly, producerVars, AfterEmptyTest
    <2>3. IndexInv'
      BY <1>7 DEF IInv, TypeOK, IndexInv, CopiesAreConservative, PositionInv,
         RoomInv, PoppedInOrder, ReloadEnd, ConsumerOnly, producerVars, AfterEmptyTest
    <2> QED BY <2>1, <2>2, <2>3 DEF IInv, IndexInv
  <1>8. CASE PopPollsClosed
    <2>1. ContentInv'
      BY <1>8, ContentKept DEF IInv, PopPollsClosed, ConsumerOnly, producerVars
    <2>2. TypeOK'
      BY <1>8 DEF IInv, TypeOK, PopPollsClosed, ConsumerOnly, producerVars
    <2>3. IndexInv'
      BY <1>8 DEF IInv, TypeOK, IndexInv, CopiesAreConservative, PositionInv,
         RoomInv, PoppedInOrder, PopPollsClosed, ConsumerOnly, producerVars
    <2> QED BY <2>1, <2>2, <2>3 DEF IInv, IndexInv
  <1>9. CASE Read
    <2>1. Slot(consumerStart) \in 0 .. Capacity - 1
      BY SlotType DEF IInv, TypeOK
    <2>2. /\ consumerStart \in Nat /\ producerEnd \in Nat
          /\ consumerStart < producerEnd
          /\ producerEnd <= consumerStart + Capacity
          /\ consumerStart' = consumerStart + 1 /\ producerEnd' = producerEnd
          /\ buffer' = [buffer EXCEPT ![Slot(consumerStart)] = Empty]
          /\ buffer \in [0 .. Capacity - 1 -> Nat \cup {Empty}]
      BY <1>9 DEF IInv, TypeOK, CopiesAreConservative, RoomInv, Read,
         ConsumerOnly, producerVars
    <2>3. got' = consumerStart
      BY <1>9, <2>2 DEF IInv, ContentInv, Read
    <2>4. TypeOK'
      BY <1>9, <2>1, <2>3 DEF IInv, TypeOK, Read, ConsumerOnly, producerVars
    <2>5. IndexInv'
      BY <1>9, <2>3 DEF IInv, TypeOK, IndexInv, CopiesAreConservative,
         PositionInv, RoomInv, PoppedInOrder, Read, ConsumerOnly, producerVars
    <2>6. \A i \in consumerStart + 1 .. producerEnd - 1 :
             i \in Nat /\ Slot(i) \in 0 .. Capacity - 1 /\ Slot(i) # Slot(consumerStart)
      BY <2>2, SlotType, SlotDiffers
    <2>7. \A i \in consumerStart + 1 .. producerEnd - 1 : buffer'[Slot(i)] = i
      BY <2>1, <2>2, <2>6 DEF IInv, ContentInv
    <2>8. \A s \in 0 .. Capacity - 1 :
             buffer'[s] # Empty =>
               /\ buffer'[s] \in consumerStart + 1 .. producerEnd - 1
               /\ Slot(buffer'[s]) = s
      <3> SUFFICES ASSUME NEW s \in 0 .. Capacity - 1, buffer'[s] # Empty
                   PROVE  /\ buffer'[s] \in consumerStart + 1 .. producerEnd - 1
                          /\ Slot(buffer'[s]) = s
        OBVIOUS
      <3>1. s # Slot(consumerStart) /\ buffer'[s] = buffer[s]
        BY <2>2
      <3>2. buffer[s] \in consumerStart .. producerEnd - 1 /\ Slot(buffer[s]) = s
        BY <3>1 DEF IInv, ContentInv
      <3>3. buffer[s] # consumerStart
        BY <3>1, <3>2
      <3> QED BY <2>2, <3>1, <3>2, <3>3
    <2>9. ContentInv'
      BY <2>2, <2>7, <2>8 DEF ContentInv, Slot
    <2> QED BY <2>4, <2>5, <2>9 DEF IInv, IndexInv
  <1>10. CASE Release
    <2>1. ContentInv'
      BY <1>10, ContentKept DEF IInv, Release, ConsumerOnly, producerVars
    <2>2. TypeOK'
      BY <1>10 DEF IInv, TypeOK, Release, ConsumerOnly, producerVars
    <2>3. IndexInv'
      BY <1>10 DEF IInv, TypeOK, IndexInv, CopiesAreConservative, PositionInv,
         RoomInv, PoppedInOrder, Release, ConsumerOnly, producerVars
    <2> QED BY <2>1, <2>2, <2>3 DEF IInv, IndexInv
  <1>11. CASE Close \/ UNCHANGED vars
    <2>1. ContentInv'
      BY <1>11, ContentKept DEF IInv, Close, vars, producerVars, consumerVars
    <2>2. TypeOK'
      BY <1>11 DEF IInv, TypeOK, Close, vars, producerVars, consumerVars
    <2>3. IndexInv'
      BY <1>11 DEF IInv, TypeOK, IndexInv, CopiesAreConservative, PositionInv,
         RoomInv, PoppedInOrder, Close, vars, producerVars, consumerVars
    <2> QED BY <2>1, <2>2, <2>3 DEF IInv, IndexInv
  <1> QED
    BY <1>1, <1>2, <1>3, <1>4, <1>5, <1>6, <1>7, <1>8, <1>9, <1>10, <1>11
    DEF Next, ProducerStep, ConsumerStep

LEMMA Invariance == Spec => []IInv
  BY InitInv, NextInv, PTL DEF Spec

LEMMA ExclusionFollows == IInv => SlotsAreExclusive
  <1> SUFFICES ASSUME IInv PROVE SlotsAreExclusive
    OBVIOUS
  <1>1. /\ consumerStart \in Nat /\ producerEnd \in Nat
        /\ ppc = "write" => producerEnd < consumerStart + Capacity
        /\ consumerStart <= producerEnd
        /\ cpc = "read" => consumerStart < producerEnd
    BY SpscAssumption DEF IInv, TypeOK, CopiesAreConservative, RoomInv
  <1>2. ASSUME ppc = "write" PROVE buffer[Slot(producerEnd)] = Empty
    <2> SUFFICES ASSUME buffer[Slot(producerEnd)] # Empty PROVE FALSE
      OBVIOUS
    <2> DEFINE v == buffer[Slot(producerEnd)]
    <2>1. v \in consumerStart .. producerEnd - 1 /\ Slot(v) = Slot(producerEnd)
      BY <1>1, SlotType DEF IInv, ContentInv
    <2>2. v \in Nat /\ v < producerEnd /\ producerEnd < v + Capacity
      BY <1>1, <1>2, <2>1, SpscAssumption
    <2> HIDE DEF v
    <2> QED BY <1>1, <2>1, <2>2, SlotDiffers
  <1>3. ASSUME cpc = "read" PROVE buffer[Slot(consumerStart)] # Empty
    BY <1>1, <1>3, SpscAssumption DEF IInv, ContentInv
  <1>4. ASSUME ppc = "write", cpc = "read"
        PROVE  Slot(producerEnd) # Slot(consumerStart)
    BY <1>1, <1>4, SlotDiffers
  <1> QED BY <1>2, <1>3, <1>4 DEF SlotsAreExclusive

-----------------------------------------------------------------------------
\* Every variable has its type, for every capacity.
THEOREM TypeCorrect == Spec => []TypeOK
  BY Invariance, PTL DEF IInv

\* The copies the threads keep of each other's index are conservative, for
\* every capacity: what makes it safe to skip the load of the shared index.
THEOREM CopiesAreSafe == Spec => []CopiesAreConservative
  BY Invariance, PTL DEF IInv

\* The producer and the consumer never touch the same slot, and construct and
\* destroy the objects in the slots alternately, for every capacity.
THEOREM SlotExclusion == Spec => []SlotsAreExclusive
  BY Invariance, ExclusionFollows, PTL

\* What is popped is what was pushed, in the same order, for every capacity.
THEOREM OrderKept == Spec => []PoppedInOrder
  BY Invariance, PTL DEF IInv

-----------------------------------------------------------------------------
(* The refinement.                                                         *)

Items == [i \in 1 .. end - consumerStart |-> buffer[Slot(consumerStart + i - 1)]]

\* The values in the ring are the consecutive numbers from consumerStart.
ItemsInv ==
  /\ Items = [i \in 1 .. end - consumerStart |-> consumerStart + i - 1]
  /\ end \in Nat /\ consumerStart \in Nat
  /\ end - consumerStart \in Nat
  /\ Items \in Seq(Nat) /\ Len(Items) = end - consumerStart

LEMMA ItemsAre == IInv => ItemsInv
  <1> SUFFICES ASSUME IInv PROVE ItemsInv
    OBVIOUS
  <1>1. /\ end \in Nat /\ consumerStart \in Nat /\ producerEnd \in Nat
        /\ consumerStart <= end /\ end <= producerEnd
        /\ end - consumerStart \in Nat
    BY DEF IInv, TypeOK, CopiesAreConservative
  <1>2. \A i \in 1 .. end - consumerStart :
           buffer[Slot(consumerStart + i - 1)] = consumerStart + i - 1
    BY <1>1 DEF IInv, ContentInv
  <1>3. Items = [i \in 1 .. end - consumerStart |-> consumerStart + i - 1]
    BY <1>2 DEF Items
  <1>4. Items \in [1 .. end - consumerStart -> Nat]
    BY <1>1, <1>3
  <1> QED BY <1>1, <1>3, <1>4 DEF ItemsInv

LEMMA StepMaps == IInv /\ IInv' /\ [Next]_vars => [Fifo!FNext]_(Fifo!fvars)
  <1> SUFFICES ASSUME IInv, IInv', [Next]_vars
               PROVE  [Fifo!FNext]_(Fifo!fvars)
    OBVIOUS
  <1> USE SpscAssumption
  <1>a. ItemsInv /\ ItemsInv'
    BY ItemsAre, PTL
  <1>1. CASE UNCHANGED <<end, consumerStart, closed>>
    <2>1. UNCHANGED <<Items, closed>>
      BY <1>1, <1>a DEF ItemsInv
    <2> QED BY <2>1 DEF Fifo!fvars, Items
  <1>2. CASE Publish
    <2>1. /\ end' = end + 1 /\ UNCHANGED <<consumerStart, closed>>
          /\ end \in 0 .. MaxPushes - 1
          /\ end - consumerStart < Capacity
      BY <1>2 DEF Publish, ProducerOnly, consumerVars, IInv, TypeOK,
         CopiesAreConservative, PositionInv, RoomInv
    <2>2. Items' = Append(Items, end)
      BY <1>a, <2>1 DEF ItemsInv
    <2>3. Fifo!Put(end)
      BY <1>a, <2>1, <2>2 DEF ItemsInv, Fifo!Put, Items
    <2> QED BY <2>1, <2>3 DEF Fifo!FNext
  <1>3. CASE Read
    <2>1. /\ consumerStart' = consumerStart + 1 /\ UNCHANGED <<end, closed>>
          /\ consumerStart < end
      BY <1>3 DEF Read, ConsumerOnly, producerVars, IInv, TypeOK,
         CopiesAreConservative, RoomInv
    <2>2. Items # <<>> /\ Items' = Tail(Items)
      BY <1>a, <2>1 DEF ItemsInv
    <2>3. Fifo!Get
      BY <2>1, <2>2 DEF Fifo!Get, Items
    <2> QED BY <2>3 DEF Fifo!FNext
  <1>4. CASE Close
    <2>1. UNCHANGED Items
      BY <1>4, <1>a DEF ItemsInv, Close, producerVars, consumerVars
    <2>2. Fifo!Shut
      BY <1>4, <2>1 DEF Close, Fifo!Shut, Items
    <2> QED BY <2>2 DEF Fifo!FNext
  <1> QED
    BY <1>1, <1>2, <1>3, <1>4
    DEF Next, vars, producerVars, consumerVars, ProducerStep, ConsumerStep,
        ProducerOnly, ConsumerOnly, BeginPush, BeginPop, RefreshStart,
        PushPollsClosed, TryPushChecksClosed, Write, ReloadEnd, PopPollsClosed,
        Release

LEMMA InitMaps == Init => Fifo!FInit
  <1> SUFFICES ASSUME Init PROVE Fifo!FInit
    OBVIOUS
  <1>1. Items = <<>>
    BY DEF Init, Items
  <1> QED BY <1>1 DEF Init, Fifo!FInit, Items

\* SpscQueue implements BoundedFifo for every capacity: whatever the indices,
\* the copies and the slots do, its users see a queue.
THEOREM SpscQueueImplementsFifo == Spec => FifoSpec
  <1>1. Spec => []IInv
    BY Invariance
  <1>2. Spec => Fifo!FInit /\ [][Fifo!FNext]_(Fifo!fvars)
    BY <1>1, InitMaps, StepMaps, PTL DEF Spec
  <1> QED BY <1>2 DEF FifoSpec, Fifo!FSpec
=============================================================================
