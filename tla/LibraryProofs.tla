---------------------------- MODULE LibraryProofs ----------------------------
(***************************************************************************)
(* The containers and the contexts of the library, each for any sizes, any *)
(* threads and any tasks, in three parts; the concurrent queue has a       *)
(* module of its own.                                                      *)
(*                                                                         *)
(* The circle of module ReaderWriterQueue: every block strictly between    *)
(* the front block and the tail block is full, because the producer leaves *)
(* a block only when it is full and the consumer has not been there; so    *)
(* the number of the value in any slot has a closed form.                  *)
(*                                                                         *)
(* The links of module MpscQueue: there is one sequence of nodes, and three *)
(* cuts in it, which tell where every link and every list leads.           *)
(*                                                                         *)
(* The counts of module Carry: a step changes the sets of what refers to a *)
(* storage by one member each, and the count by as many.  Its maps: what a *)
(* storage wraps has a lower rank, so a lookup ends, and finds the same as *)
(* long as the storage lives.                                              *)
(***************************************************************************)
EXTENDS Library, SequenceTheorems, FiniteSetTheorems, WellFoundedInduction, TLAPS

-----------------------------------------------------------------------------
(* The concurrent queue, about which module ConcurrentQueueProofs is.       *)

\* Whatever the composition does, the queue's own specification allows: the
\* containers share no state, so what is proved of the queue alone holds
\* of it in the run that checks them all.
THEOREM LibraryRunsTheQueue == LibrarySpec => Spec
  <1>1. LibraryInit => Init
    BY DEF LibraryInit
  <1>2. [LibraryNext]_libraryVars => [Next]_cvars
    <2>1. ASSUME NEW t \in Threads, ConcurrentQueueStep(t) PROVE Next
      BY <2>1 DEF ConcurrentQueueStep, Next, TryEnqueue
    <2>2. CASE ReaderWriterQueueStep \/ MpscQueueStep \/ CarryStep
      BY <2>2 DEF ReaderWriterQueueStep, MpscQueueStep, CarryStep, Others
    <2>3. CASE UNCHANGED libraryVars
      BY <2>3 DEF libraryVars
    <2> QED BY <2>1, <2>2, <2>3 DEF LibraryNext
  <1> QED BY <1>1, <1>2, PTL DEF LibrarySpec, Spec

-----------------------------------------------------------------------------
(* The reader-writer queue.                                                 *)

Most == Slots - 1
Cells == 0 .. Slots - 1

\* How far a block is from the front block, and a slot from another one.
Ahead(b) == IF b >= frontBlock THEN b - frontBlock ELSE b - frontBlock + Ring
Gap(i, j) == IF j >= i THEN j - i ELSE j - i + Slots
Holds(b) == Gap(front[b], tail[b])
\* How many values come before those of a block.
Before(b) ==
  IF b = frontBlock THEN dequeued ELSE dequeued + Holds(frontBlock) + (Ahead(b) - 1) * Most

Following == RW!NextBlock(tailBlock)
NextFront == RW!NextBlock(frontBlock)

RingShape ==
  /\ front \in [RW!Block -> Cells] /\ tail \in [RW!Block -> Cells]
  /\ localFront \in [RW!Block -> Cells] /\ localTail \in [RW!Block -> Cells]
  /\ DOMAIN data = RW!Block /\ \A b \in RW!Block : DOMAIN data[b] = Cells
  /\ frontBlock \in RW!Block /\ tailBlock \in RW!Block
  /\ enqueued \in Nat /\ dequeued \in Nat /\ dequeuedThen \in Nat /\ enqueuedThen \in Nat

RingBlocks ==
  \A b \in RW!Block :
    /\ Ahead(b) < Ahead(tailBlock) /\ b # frontBlock => Holds(b) = Most
    /\ Ahead(b) > Ahead(tailBlock) =>
         Holds(b) = IF ppc = "advance" /\ b = Following THEN 1 ELSE 0

RingCount ==
  /\ enqueued = Before(tailBlock) + Holds(tailBlock)
  /\ tailBlock # frontBlock => Holds(tailBlock) > 0

RingProducer ==
  /\ Gap(localFront[tailBlock], tail[tailBlock]) >= Holds(tailBlock)
  /\ ppc \in {"write", "publish"} => Gap(localFront[tailBlock], tail[tailBlock]) < Most
  /\ ppc \in {"full", "next", "writeNext", "publishNext", "advance"} /\ tailBlock # frontBlock =>
       Holds(tailBlock) = Most
  /\ ppc \in {"next", "writeNext", "publishNext", "advance"} => Following # frontBlock
  /\ ppc \in {"writeNext", "publishNext", "advance"} => localFront[Following] = front[Following]
  /\ ppc = "publish" => data[tailBlock][tail[tailBlock]] = enqueued
  /\ ppc \in {"publishNext", "advance"} => data[Following][front[Following]] = enqueued
  /\ dequeuedThen <= dequeued
  /\ ppc = "failed" => enqueued - dequeuedThen >= Most * (Ring - 1)

RingConsumer ==
  /\ Gap(front[frontBlock], localTail[frontBlock]) <= Holds(frontBlock)
  /\ cpc \in {"read", "release"} => localTail[frontBlock] # front[frontBlock]
  /\ cpc \in {"again", "next", "advance"} => tailBlock # frontBlock
  /\ cpc \in {"next", "advance"} => Holds(frontBlock) = 0
  /\ cpc = "advance" => /\ localTail[NextFront] # front[NextFront]
                        /\ Gap(front[NextFront], localTail[NextFront]) <= Holds(NextFront)
  /\ enqueuedThen <= enqueued
  /\ cpc = "empty" /\ tailBlock = frontBlock => dequeued >= enqueuedThen
  /\ cpc = "failed" => dequeued >= enqueuedThen
  /\ cpc = "release" => got = dequeued

\* The values are in their order.
RingData ==
  \A b \in RW!Block, i \in Cells :
    /\ Ahead(b) <= Ahead(tailBlock) /\ Gap(front[b], i) < Holds(b)
    /\ ~(cpc = "release" /\ b = frontBlock /\ i = front[b])
    => data[b][i] = Before(b) + Gap(front[b], i)

RingInv == RingShape /\ RingBlocks /\ RingCount /\ RingProducer /\ RingConsumer /\ RingData

LEMMA Successor ==
  ASSUME NEW n \in Nat \ {0}, NEW i \in 0 .. n - 1
  PROVE  (i + 1) % n = IF i = n - 1 THEN 0 ELSE i + 1
  <1>1. CASE i = n - 1
    <2>1. n % n = 0
      OBVIOUS
    <2> QED BY <1>1, <2>1
  <1>2. CASE i # n - 1
    BY <1>2
  <1> QED BY <1>1, <1>2

LEMMA RingNext ==
  /\ Slots \in Nat /\ Slots > 1 /\ Ring \in Nat \ {0} /\ RW!Block = 0 .. Ring - 1
  /\ \A b \in RW!Block : /\ RW!NextBlock(b) = IF b = Ring - 1 THEN 0 ELSE b + 1
                         /\ RW!NextBlock(b) \in RW!Block
  /\ \A i \in Cells : /\ RW!NextSlot(i) = IF i = Slots - 1 THEN 0 ELSE i + 1
                      /\ RW!NextSlot(i) \in Cells
  <1>1. Slots \in Nat /\ Slots > 1 /\ Ring \in Nat \ {0}
    BY LibraryAssumption DEF RW!RwAssumption
  <1>2. ASSUME NEW b \in RW!Block PROVE RW!NextBlock(b) = IF b = Ring - 1 THEN 0 ELSE b + 1
    BY <1>1, <1>2, Successor DEF RW!Block, RW!NextBlock
  <1>3. ASSUME NEW i \in Cells PROVE RW!NextSlot(i) = IF i = Slots - 1 THEN 0 ELSE i + 1
    BY <1>1, <1>3, Successor DEF Cells, RW!NextSlot
  <1> QED BY <1>1, <1>2, <1>3 DEF RW!Block, Cells

\* What the arithmetic of the rings needs.
LEMMA Times == \A n \in Int : n * Most = (n - 1) * Most + Most /\ n * Most \in Int
  BY RingNext DEF Most

LEMMA RingInit == RW!Init => RingInv
  <1> SUFFICES ASSUME RW!Init PROVE RingInv
    OBVIOUS
  <1>1. RingShape
    BY RingNext DEF RW!Init, RingShape, Cells
  <1>2. \A b \in RW!Block : Holds(b) = 0
    BY RingNext DEF RW!Init, Holds, Gap
  <1>3. /\ frontBlock = 0 /\ tailBlock = 0 /\ ppc = "idle" /\ cpc = "idle"
        /\ enqueued = 0 /\ dequeued = 0 /\ dequeuedThen = 0 /\ enqueuedThen = 0
        /\ front[0] = 0 /\ tail[0] = 0 /\ localFront[0] = 0 /\ localTail[0] = 0
    BY RingNext DEF RW!Init
  <1>4. RingBlocks
    BY <1>2, <1>3, RingNext DEF RingBlocks, Ahead
  <1>5. RingCount /\ RingProducer /\ RingConsumer
    BY <1>2, <1>3, RingNext DEF RingCount, RingProducer, RingConsumer, Before, Gap
  <1>6. RingData
    <2>1. \A b \in RW!Block, i \in Cells : ~(Gap(front[b], i) < Holds(b))
      BY <1>2, RingNext DEF RW!Init, Gap, Cells
    <2> QED BY <2>1 DEF RingData
  <1> QED BY <1>1, <1>4, <1>5, <1>6 DEF RingInv

LEMMA GapFacts ==
  ASSUME NEW i \in Cells, NEW j \in Cells
  PROVE  /\ Gap(i, j) \in 0 .. Most
         /\ Gap(i, j) = 0 <=> i = j
         /\ Gap(i, RW!NextSlot(j)) = IF Gap(i, j) = Most THEN 0 ELSE Gap(i, j) + 1
         /\ Gap(RW!NextSlot(i), j) = IF Gap(i, j) = 0 THEN Most ELSE Gap(i, j) - 1
         /\ RW!NextSlot(j) = i <=> Gap(i, j) = Most
         /\ Slots > 1 /\ Most \in Nat \ {0}
         /\ \A k \in Cells : Gap(i, j) = Gap(i, k) => j = k
  <1>1. /\ RW!NextSlot(i) = IF i = Slots - 1 THEN 0 ELSE i + 1
        /\ RW!NextSlot(j) = IF j = Slots - 1 THEN 0 ELSE j + 1
        /\ Slots \in Nat /\ Slots > 1 /\ i \in 0 .. Slots - 1 /\ j \in 0 .. Slots - 1
    BY RingNext DEF Cells
  <1>3. Gap(i, j) \in 0 .. Most /\ (Gap(i, j) = 0 <=> i = j)
    BY <1>1 DEF Gap, Most
  <1>4. Gap(i, RW!NextSlot(j)) = IF Gap(i, j) = Most THEN 0 ELSE Gap(i, j) + 1
    BY <1>1 DEF Gap, Most
  <1>5. Gap(RW!NextSlot(i), j) = IF Gap(i, j) = 0 THEN Most ELSE Gap(i, j) - 1
    BY <1>1 DEF Gap, Most
  <1>6. \A k \in Cells : Gap(i, j) = Gap(i, k) => j = k
    BY <1>1 DEF Gap, Cells
  <1>7. (RW!NextSlot(j) = i <=> Gap(i, j) = Most) /\ Most \in Nat \ {0}
    BY <1>1 DEF Gap, Most
  <1> QED BY <1>1, <1>3, <1>4, <1>5, <1>6, <1>7

LEMMA RingFacts ==
  ASSUME RingShape, NEW b \in RW!Block
  PROVE  /\ Ahead(b) \in 0 .. Ring - 1 /\ (Ahead(b) = 0 <=> b = frontBlock)
         /\ Holds(b) \in 0 .. Most /\ (Holds(b) = 0 <=> front[b] = tail[b])
         /\ Before(b) \in Int
         /\ RW!NextBlock(b) \in RW!Block
         /\ RW!NextBlock(b) # frontBlock => Ahead(RW!NextBlock(b)) = Ahead(b) + 1
         /\ RW!NextBlock(b) = frontBlock => Ahead(b) = Ring - 1
         /\ \A c \in RW!Block : Ahead(b) = Ahead(c) => b = c
  <1>1. /\ RW!NextBlock(b) = IF b = Ring - 1 THEN 0 ELSE b + 1
        /\ RW!Block = 0 .. Ring - 1 /\ Ring \in Nat \ {0} /\ Slots \in Nat /\ Slots > 1
        /\ frontBlock \in RW!Block /\ front[b] \in Cells /\ tail[b] \in Cells
        /\ front[frontBlock] \in Cells /\ tail[frontBlock] \in Cells /\ dequeued \in Nat
    BY RingNext DEF RingShape
  <1>2. Ahead(b) \in 0 .. Ring - 1 /\ (Ahead(b) = 0 <=> b = frontBlock)
    BY <1>1 DEF Ahead
  <1>3. Holds(b) \in 0 .. Most /\ (Holds(b) = 0 <=> front[b] = tail[b]) /\ Holds(frontBlock) \in 0 .. Most
    BY <1>1, GapFacts DEF Holds
  <1>4. Before(b) \in Int
    <2>1. Ahead(b) - 1 \in Int /\ Holds(frontBlock) \in Int
      BY <1>1, <1>2, <1>3 DEF Most
    <2>2. (Ahead(b) - 1) * Most \in Int
      BY <2>1, Times
    <2> QED BY <1>1, <2>1, <2>2 DEF Before
  <1>5. /\ RW!NextBlock(b) # frontBlock => Ahead(RW!NextBlock(b)) = Ahead(b) + 1
        /\ RW!NextBlock(b) = frontBlock => Ahead(b) = Ring - 1
        /\ \A c \in RW!Block : Ahead(b) = Ahead(c) => b = c
        /\ RW!NextBlock(b) \in RW!Block
    BY <1>1 DEF Ahead
  <1> QED BY <1>2, <1>3, <1>4, <1>5

LEMMA RingQuiet ==
  ASSUME UNCHANGED <<front, tail, frontBlock, tailBlock, dequeued>>
  PROVE  /\ \A b : Ahead(b)' = Ahead(b) /\ Holds(b)' = Holds(b) /\ Before(b)' = Before(b)
         /\ Following' = Following /\ NextFront' = NextFront
  BY DEF Ahead, Holds, Gap, Before, Following, NextFront, RW!NextBlock

\* A step of one side that moves no value.
LEMMA RingStill ==
  ASSUME RingInv, UNCHANGED <<front, tail, data, frontBlock, tailBlock, enqueued, dequeued>>,
         ppc' = "advance" <=> ppc = "advance", cpc' = "release" <=> cpc = "release"
  PROVE  RingBlocks' /\ RingCount' /\ RingData'
  BY RingQuiet DEF RingInv, RingBlocks, RingCount, RingData, Gap

LEMMA BeginEnqueueKeeps == ASSUME RingInv, RW!BeginEnqueue PROVE RingInv'
  <1>1. /\ ppc = "idle" /\ dequeuedThen' = dequeued
        /\ ppc' = IF RW!NextSlot(tail[tailBlock]) # localFront[tailBlock] THEN "write" ELSE "refresh"
        /\ UNCHANGED <<front, tail, localFront, localTail, data, frontBlock, tailBlock, cpc,
                        enqueued, dequeued, got, enqueuedThen>>
    BY DEF RW!BeginEnqueue, RW!Room, RW!consumerVars
  <1>2. RingBlocks' /\ RingCount' /\ RingData'
    BY <1>1, RingStill
  <1>3. RingShape'
    BY <1>1 DEF RingInv, RingShape
  <1>4. RingConsumer'
    BY <1>1, RingQuiet DEF RingInv, RingConsumer, Gap
  <1>5. ppc' = "write" => Gap(localFront[tailBlock], tail[tailBlock]) < Most
    <2>1. localFront[tailBlock] \in Cells /\ tail[tailBlock] \in Cells
      BY DEF RingInv, RingShape
    <2>2. /\ Gap(localFront[tailBlock], tail[tailBlock]) \in 0 .. Most
          /\ RW!NextSlot(tail[tailBlock]) = localFront[tailBlock] <=>
               Gap(localFront[tailBlock], tail[tailBlock]) = Most
          /\ Most \in Nat
      BY <2>1, GapFacts
    <2> QED BY <1>1, <2>2
  <1>6. RingProducer'
    BY <1>1, <1>5, RingQuiet DEF RingInv, RingShape, RingProducer, Gap
  <1> QED BY <1>2, <1>3, <1>4, <1>6 DEF RingInv

LEMMA RefreshFrontKeeps == ASSUME RingInv, RW!RefreshFront PROVE RingInv'
  <1>1. /\ ppc = "refresh" /\ localFront' = [localFront EXCEPT ![tailBlock] = front[tailBlock]]
        /\ ppc' = IF RW!NextSlot(tail[tailBlock]) # front[tailBlock] THEN "write" ELSE "full"
        /\ UNCHANGED <<front, tail, localTail, data, frontBlock, tailBlock, cpc,
                        enqueued, dequeued, dequeuedThen, got, enqueuedThen>>
    BY DEF RW!RefreshFront, RW!Room, RW!consumerVars
  <1>2. RingBlocks' /\ RingCount' /\ RingData'
    BY <1>1, RingStill
  <1>3. RingShape'
    BY <1>1 DEF RingInv, RingShape
  <1>4. RingConsumer'
    BY <1>1, RingQuiet DEF RingInv, RingConsumer, Gap
  <1>5. /\ ppc' = "write" => Holds(tailBlock) < Most
        /\ ppc' = "full" => Holds(tailBlock) = Most
        /\ Gap(localFront'[tailBlock], tail[tailBlock]) = Holds(tailBlock)
        /\ Holds(tailBlock) \in 0 .. Most
    <2>1. localFront'[tailBlock] = front[tailBlock]
      BY <1>1 DEF RingInv, RingShape
    <2>2. front[tailBlock] \in Cells /\ tail[tailBlock] \in Cells
      BY DEF RingInv, RingShape
    <2>3. /\ Holds(tailBlock) \in 0 .. Most /\ Most \in Nat
          /\ RW!NextSlot(tail[tailBlock]) = front[tailBlock] <=> Holds(tailBlock) = Most
      BY <2>2, GapFacts DEF Holds
    <2> QED BY <1>1, <2>1, <2>3 DEF Holds
  <1>6. RingProducer'
    BY <1>1, <1>5, RingQuiet DEF RingInv, RingShape, RingProducer, Gap, Most
  <1> QED BY <1>2, <1>3, <1>4, <1>6 DEF RingInv

LEMMA FullKeeps == ASSUME RingInv, RW!Full PROVE RingInv'
  <1>1. /\ ppc = "full" /\ ppc' = IF Following # frontBlock THEN "next" ELSE "failed"
        /\ UNCHANGED <<front, tail, localFront, localTail, data, frontBlock, tailBlock, cpc,
                        enqueued, dequeued, dequeuedThen, got, enqueuedThen>>
    BY DEF RW!Full, RW!consumerVars, Following
  <1>2. RingBlocks' /\ RingCount' /\ RingData'
    BY <1>1, RingStill
  <1>3. RingShape'
    BY <1>1 DEF RingInv, RingShape
  <1>4. RingConsumer'
    BY <1>1, RingQuiet DEF RingInv, RingConsumer, Gap
  <1>5. ppc' = "failed" => enqueued - dequeued >= Most * (Ring - 1)
    <2> SUFFICES ASSUME Following = frontBlock PROVE enqueued - dequeued >= Most * (Ring - 1)
      BY <1>1
    <2>1. Ahead(tailBlock) = Ring - 1 /\ Ahead(tailBlock) \in 0 .. Ring - 1
      BY RingFacts DEF RingInv, RingShape, Following
    <2>2. /\ enqueued = Before(tailBlock) + Holds(tailBlock)
          /\ Holds(frontBlock) \in 0 .. Most /\ Holds(tailBlock) \in 0 .. Most
          /\ Slots \in Nat /\ Slots > 1 /\ Ring \in Nat \ {0} /\ dequeued \in Nat
      BY RingFacts, RingNext DEF RingInv, RingShape, RingCount
    <2>3. CASE tailBlock = frontBlock
      <3>1. Ring - 1 = 0
        BY <2>1, <2>3, RingFacts DEF RingInv, RingShape
      <3>2. Most * (Ring - 1) = 0
        BY <2>2, <3>1 DEF Most
      <3> QED BY <2>2, <2>3, <3>2 DEF Before, Most
    <2>4. CASE tailBlock # frontBlock
      <3>1. Holds(tailBlock) = Most
        BY <1>1, <2>4 DEF RingInv, RingProducer
      <3>2. enqueued = dequeued + Holds(frontBlock) + (Ring - 1 - 1) * Most + Most
        BY <2>1, <2>2, <2>4, <3>1 DEF Before
      <3>3. (Ring - 1) * Most = (Ring - 1 - 1) * Most + Most /\ (Ring - 1) * Most \in Int
        BY <2>2, Times
      <3>4. (Ring - 1) * Most = Most * (Ring - 1)
        BY <2>2 DEF Most
      <3>5. (Ring - 1 - 1) * Most \in Int
        BY <2>2, Times
      <3> QED BY <2>2, <3>2, <3>3, <3>4, <3>5 DEF Most
    <2> QED BY <2>3, <2>4
  <1>6. Most * (Ring - 1) \in Int
    BY RingNext DEF Most
  <1>7. RingProducer'
    BY <1>1, <1>5, <1>6, RingQuiet DEF RingInv, RingShape, RingProducer, Gap
  <1> QED BY <1>2, <1>3, <1>4, <1>7 DEF RingInv

LEMMA EnqueueFailsKeeps == ASSUME RingInv, RW!EnqueueFails PROVE RingInv'
  <1>1. /\ ppc = "failed" /\ ppc' = "idle"
        /\ UNCHANGED <<front, tail, localFront, localTail, data, frontBlock, tailBlock, cpc,
                        enqueued, dequeued, dequeuedThen, got, enqueuedThen>>
    BY DEF RW!EnqueueFails, RW!consumerVars
  <1>2. RingBlocks' /\ RingCount' /\ RingData'
    BY <1>1, RingStill
  <1>3. RingShape' /\ RingConsumer' /\ RingProducer'
    BY <1>1, RingQuiet DEF RingInv, RingShape, RingConsumer, RingProducer, Gap
  <1> QED BY <1>2, <1>3 DEF RingInv

LEMMA ReadNextFrontKeeps == ASSUME RingInv, RW!ReadNextFront PROVE RingInv'
  <1>1. /\ ppc = "next" /\ ppc' = "writeNext"
        /\ localFront' = [localFront EXCEPT ![Following] = front[Following]]
        /\ UNCHANGED <<front, tail, localTail, data, frontBlock, tailBlock, cpc,
                        enqueued, dequeued, dequeuedThen, got, enqueuedThen>>
    BY DEF RW!ReadNextFront, RW!consumerVars, Following
  <1>2. RingBlocks' /\ RingCount' /\ RingData'
    BY <1>1, RingStill
  <1>3. Following \in RW!Block /\ Following # tailBlock
    <2>1. Following \in RW!Block /\ Following # frontBlock
      BY <1>1, RingNext DEF RingInv, RingShape, RingProducer, Following
    <2>2. Ahead(Following) = Ahead(tailBlock) + 1 /\ Ahead(tailBlock) \in 0 .. Ring - 1
      BY <2>1, RingFacts DEF RingInv, RingShape, Following
    <2> QED BY <2>1, <2>2, RingNext
  <1>4. RingShape' /\ RingConsumer'
    BY <1>1, <1>3, RingQuiet DEF RingInv, RingShape, RingConsumer, Gap
  <1>5. RingProducer'
    BY <1>1, <1>3, RingQuiet DEF RingInv, RingShape, RingProducer, Gap
  <1> QED BY <1>2, <1>4, <1>5 DEF RingInv

\* A value is written to a slot that holds none.
LEMMA Written ==
  ASSUME RingInv, NEW b \in RW!Block, data' = [data EXCEPT ![b][tail[b]] = enqueued],
         UNCHANGED <<front, tail, frontBlock, tailBlock, dequeued, cpc>>
  PROVE  /\ RingData' /\ data'[b][tail[b]] = enqueued
         /\ DOMAIN data' = RW!Block /\ \A c \in RW!Block : DOMAIN data'[c] = Cells
  <1>1. /\ DOMAIN data = RW!Block /\ \A c \in RW!Block : DOMAIN data[c] = Cells
        /\ tail[b] \in Cells /\ front[b] \in Cells
    BY DEF RingInv, RingShape
  <1>2. /\ DOMAIN data' = RW!Block /\ \A c \in RW!Block : DOMAIN data'[c] = Cells
        /\ data'[b][tail[b]] = enqueued
        /\ \A c \in RW!Block, i \in Cells : ~(c = b /\ i = tail[b]) => data'[c][i] = data[c][i]
    BY <1>1
  <1>3. ASSUME NEW c \in RW!Block, NEW i \in Cells, Gap(front[c], i) < Holds(c)
        PROVE  data'[c][i] = data[c][i]
    <2>1. Holds(c) \in 0 .. Most
      BY RingFacts DEF RingInv
    <2>2. i # tail[c]
      BY <1>3, <2>1 DEF Holds
    <2> QED BY <1>2, <2>2
  <1>4. RingData'
    BY <1>3, RingQuiet DEF RingInv, RingData, Gap
  <1> QED BY <1>2, <1>4

LEMMA WriteKeeps == ASSUME RingInv, RW!Write PROVE RingInv'
  <1>1. /\ ppc = "write" /\ ppc' = "publish"
        /\ data' = [data EXCEPT ![tailBlock][tail[tailBlock]] = enqueued]
        /\ UNCHANGED <<front, tail, localFront, localTail, frontBlock, tailBlock, cpc,
                        enqueued, dequeued, dequeuedThen, got, enqueuedThen>>
    BY DEF RW!Write, RW!consumerVars
  <1>2. tailBlock \in RW!Block
    BY DEF RingInv, RingShape
  <1>3. /\ RingData' /\ data'[tailBlock][tail[tailBlock]] = enqueued
        /\ DOMAIN data' = RW!Block /\ \A c \in RW!Block : DOMAIN data'[c] = Cells
    BY <1>1, <1>2, Written
  <1>4. RingBlocks' /\ RingCount'
    BY <1>1, RingQuiet DEF RingInv, RingBlocks, RingCount
  <1>5. RingShape' /\ RingConsumer' /\ RingProducer'
    BY <1>1, <1>3, RingQuiet DEF RingInv, RingShape, RingConsumer, RingProducer, Gap
  <1> QED BY <1>3, <1>4, <1>5 DEF RingInv

\* The block after the tail block, when the producer enters it.
LEMMA Entered ==
  ASSUME RingInv, ppc \in {"next", "writeNext", "publishNext", "advance"}
  PROVE  /\ Following \in RW!Block /\ Following # tailBlock /\ Following # frontBlock
         /\ Ahead(Following) = Ahead(tailBlock) + 1 /\ Ahead(tailBlock) \in 0 .. Ring - 1
         /\ ppc # "advance" => Holds(Following) = 0 /\ tail[Following] = front[Following]
         /\ ppc = "advance" => Holds(Following) = 1
  <1>1. Following \in RW!Block /\ Following # frontBlock /\ tailBlock \in RW!Block
    BY RingNext DEF RingInv, RingShape, RingProducer, Following
  <1>2. Ahead(Following) = Ahead(tailBlock) + 1 /\ Ahead(tailBlock) \in 0 .. Ring - 1
    BY <1>1, RingFacts DEF RingInv, Following
  <1>3. Following # tailBlock /\ Ahead(Following) > Ahead(tailBlock)
    BY <1>2, RingNext
  <1>4. Holds(Following) = IF ppc = "advance" THEN 1 ELSE 0
    BY <1>1, <1>3 DEF RingInv, RingBlocks
  <1>5. Holds(Following) = 0 <=> front[Following] = tail[Following]
    BY <1>1, RingFacts DEF RingInv
  <1> QED BY <1>1, <1>2, <1>3, <1>4, <1>5

LEMMA WriteNextKeeps == ASSUME RingInv, RW!WriteNext PROVE RingInv'
  <1>1. /\ ppc = "writeNext" /\ ppc' = "publishNext"
        /\ data' = [data EXCEPT ![Following][tail[Following]] = enqueued]
        /\ UNCHANGED <<front, tail, localFront, localTail, frontBlock, tailBlock, cpc,
                        enqueued, dequeued, dequeuedThen, got, enqueuedThen>>
    BY DEF RW!WriteNext, RW!consumerVars, Following
  <1>2. Following \in RW!Block /\ tail[Following] = front[Following]
    BY <1>1, Entered
  <1>3. /\ RingData' /\ data'[Following][front[Following]] = enqueued
        /\ DOMAIN data' = RW!Block /\ \A c \in RW!Block : DOMAIN data'[c] = Cells
    BY <1>1, <1>2, Written
  <1>4. RingBlocks' /\ RingCount'
    BY <1>1, RingQuiet DEF RingInv, RingBlocks, RingCount
  <1>5. RingShape' /\ RingConsumer' /\ RingProducer'
    BY <1>1, <1>3, RingQuiet DEF RingInv, RingShape, RingConsumer, RingProducer, Gap
  <1> QED BY <1>3, <1>4, <1>5 DEF RingInv

\* A tail moves on by a slot.
LEMMA TailMoves ==
  ASSUME RingInv, NEW b \in RW!Block, Holds(b) < Most,
         tail' = [tail EXCEPT ![b] = RW!NextSlot(tail[b])],
         UNCHANGED <<front, frontBlock, tailBlock>>
  PROVE  /\ Holds(b)' = Holds(b) + 1 /\ Holds(b) \in Nat
         /\ \A c \in RW!Block \ {b} : Holds(c)' = Holds(c)
         /\ \A c \in RW!Block : Ahead(c)' = Ahead(c)
         /\ Following' = Following /\ NextFront' = NextFront
         /\ tail' \in [RW!Block -> Cells] /\ tail'[b] = RW!NextSlot(tail[b])
  <1>1. front[b] \in Cells /\ tail[b] \in Cells /\ tail \in [RW!Block -> Cells]
    BY DEF RingInv, RingShape
  <1>2. /\ tail'[b] = RW!NextSlot(tail[b]) /\ \A c \in RW!Block \ {b} : tail'[c] = tail[c]
        /\ tail' \in [RW!Block -> Cells]
    BY <1>1, RingNext
  <1>3. /\ Gap(front[b], RW!NextSlot(tail[b])) = IF Holds(b) = Most THEN 0 ELSE Holds(b) + 1
        /\ Holds(b) \in 0 .. Most /\ Most \in Nat
    BY <1>1, GapFacts DEF Holds
  <1>4. Holds(b)' = Holds(b) + 1 /\ \A c \in RW!Block \ {b} : Holds(c)' = Holds(c)
    BY <1>2, <1>3 DEF Holds, Gap
  <1>5. /\ \A c \in RW!Block : Ahead(c)' = Ahead(c)
        /\ Following' = Following /\ NextFront' = NextFront
    BY DEF Ahead, Following, NextFront, RW!NextBlock
  <1> QED BY <1>2, <1>3, <1>4, <1>5


LEMMA PublishKeeps == ASSUME RingInv, RW!Publish PROVE RingInv'
  <1>1. PICK b, f : b = tailBlock /\ f = frontBlock
    OBVIOUS
  <1>2. /\ ppc = "publish" /\ ppc' = "idle" /\ enqueued' = enqueued + 1
        /\ tail' = [tail EXCEPT ![b] = RW!NextSlot(tail[b])]
        /\ tailBlock' = b /\ frontBlock' = f
        /\ UNCHANGED <<front, localFront, localTail, data, frontBlock, tailBlock, cpc,
                        dequeued, dequeuedThen, got, enqueuedThen>>
    BY <1>1 DEF RW!Publish, RW!consumerVars
  <1>3. /\ f \in RW!Block /\ b \in RW!Block
        /\ front[b] \in Cells /\ tail[b] \in Cells /\ localFront[b] \in Cells
        /\ enqueued \in Nat
    BY <1>1 DEF RingInv, RingShape
  <1>4. /\ Gap(localFront[b], tail[b]) \in 0 .. Most /\ Gap(localFront[b], tail[b]) < Most
        /\ Holds(b) <= Gap(localFront[b], tail[b])
        /\ Holds(b) \in 0 .. Most /\ Most \in Nat /\ Holds(b) < Most
    <2>1. /\ Gap(localFront[b], tail[b]) \in 0 .. Most /\ Gap(localFront[b], tail[b]) < Most
          /\ Holds(b) <= Gap(localFront[b], tail[b])
          /\ Holds(b) \in 0 .. Most /\ Most \in Nat
      BY <1>1, <1>2, <1>3, GapFacts, RingFacts DEF RingInv, RingProducer
    <2> QED BY <2>1
  <1>5. /\ Holds(b)' = Holds(b) + 1
        /\ \A c \in RW!Block \ {b} : Holds(c)' = Holds(c)
        /\ \A c \in RW!Block : Ahead(c)' = Ahead(c)
        /\ Following' = Following /\ NextFront' = NextFront
        /\ tail' \in [RW!Block -> Cells] /\ tail'[b] = RW!NextSlot(tail[b])
    BY <1>2, <1>3, <1>4, TailMoves
  <1>6. \A c \in RW!Block : Holds(c) \in Nat /\ Holds(c)' \in Nat /\ Holds(c)' >= Holds(c) /\ Before(c) \in Int
    <2> SUFFICES ASSUME NEW c \in RW!Block
                 PROVE  Holds(c) \in Nat /\ Holds(c)' \in Nat /\ Holds(c)' >= Holds(c) /\ Before(c) \in Int
      OBVIOUS
    <2>1. Holds(c) \in 0 .. Most /\ Before(c) \in Int
      BY RingFacts DEF RingInv
    <2>2. CASE c = b
      BY <1>4, <1>5, <2>1, <2>2
    <2>3. CASE c # b
      BY <1>5, <2>1, <2>3
    <2> QED BY <2>2, <2>3
  <1>7. /\ Ahead(b) \in Nat
        /\ \A c \in RW!Block : Ahead(c) <= Ahead(b) => Before(c)' = Before(c)
    <2>1. Ahead(b) \in Nat
      BY <1>3, RingFacts DEF RingInv
    <2> SUFFICES ASSUME NEW c \in RW!Block, Ahead(c) <= Ahead(b) PROVE Before(c)' = Before(c)
      BY <2>1
    <2>2. CASE c = f
      BY <1>1, <1>2, <2>2 DEF Before
    <2>3. CASE c # f
      <3>1. Ahead(c) \in 0 .. Ring - 1 /\ Ahead(c) # 0 /\ (Ahead(b) = 0 <=> b = f)
        BY <1>1, <1>3, <2>3, RingFacts DEF RingInv
      <3>2. f # b
        BY <2>1, <3>1, RingNext
      <3>3. Holds(f)' = Holds(f) /\ Ahead(c)' = Ahead(c)
        BY <1>3, <1>5, <3>2
      <3>4. Before(c) = dequeued + Holds(f) + (Ahead(c) - 1) * Most
        BY <1>1, <2>3 DEF Before
      <3>5. Before(c)' = dequeued + Holds(f)' + (Ahead(c)' - 1) * Most
        BY <1>1, <1>2, <2>3 DEF Before, Most
      <3> QED BY <3>3, <3>4, <3>5
    <2> QED BY <2>2, <2>3
  <1>8. enqueued = Before(b) + Holds(b) /\ Before(b)' = Before(b)
    BY <1>1, <1>3, <1>7 DEF RingInv, RingCount
  <1>9. RingBlocks'
    <2>1. \A c \in RW!Block : Ahead(c) < Ahead(b) \/ Ahead(c) > Ahead(b) => c # b
      BY <1>7
    <2> QED BY <1>1, <1>2, <1>3, <1>5, <2>1 DEF RingInv, RingBlocks
  <1>10. RingCount'
    BY <1>1, <1>2, <1>3, <1>4, <1>5, <1>6, <1>8 DEF RingCount
  <1>11. RingData'
    <2> SUFFICES ASSUME NEW c \in RW!Block, NEW i \in Cells,
                        Ahead(c) <= Ahead(b), Gap(front[c], i) < Holds(c)',
                        ~(cpc = "release" /\ c = f /\ i = front[c])
                 PROVE  data[c][i] = Before(c)' + Gap(front[c], i)
      BY <1>1, <1>2, <1>3, <1>5 DEF RingData, Gap
    <2>1. /\ Before(c)' = Before(c) /\ front[c] \in Cells /\ Gap(front[c], i) \in 0 .. Most
          /\ Holds(c) \in Nat
      BY <1>6, <1>7, GapFacts DEF RingInv, RingShape
    <2>2. CASE Gap(front[c], i) < Holds(c)
      BY <1>1, <2>1, <2>2 DEF RingInv, RingData
    <2>3. CASE ~(Gap(front[c], i) < Holds(c))
      <3>1. c = b
        BY <1>5, <2>3
      <3>2. Gap(front[b], i) = Holds(b)
        BY <1>4, <1>5, <2>1, <2>3, <3>1
      <3>3. i = tail[b]
        BY <1>3, <3>2, GapFacts DEF Holds
      <3>4. data[b][i] = enqueued
        BY <1>1, <1>2, <3>3 DEF RingInv, RingProducer
      <3> QED BY <1>8, <2>1, <3>1, <3>2, <3>4
    <2> QED BY <2>2, <2>3
  <1>12. Gap(localFront[b], tail'[b]) = Gap(localFront[b], tail[b]) + 1
    BY <1>3, <1>4, <1>5, GapFacts
  <1>13. RingProducer'
    BY <1>1, <1>2, <1>4, <1>5, <1>12 DEF RingInv, RingProducer, Gap
  <1>14. RingConsumer'
    <2>1. \A c \in RW!Block : Gap(front[c], localTail[c]) \in Nat
      BY GapFacts DEF RingInv, RingShape
    <2>2. Gap(front[f], localTail[f]) <= Holds(f)'
      BY <1>1, <1>3, <1>6, <2>1 DEF RingInv, RingConsumer
    <2>3. ASSUME cpc = "advance" PROVE Gap(front[NextFront], localTail[NextFront]) <= Holds(NextFront)'
      <3>1. PICK n \in RW!Block : n = NextFront
        BY RingNext DEF RingInv, RingShape, NextFront
      <3>2. Gap(front[n], localTail[n]) <= Holds(n)
        BY <2>3, <3>1 DEF RingInv, RingConsumer
      <3>3. Gap(front[n], localTail[n]) <= Holds(n)'
        BY <1>6, <2>1, <3>1, <3>2
      <3> QED BY <1>5, <3>1, <3>3
    <2>4. cpc \in {"next", "advance"} => Holds(f)' = 0
      BY <1>1, <1>3, <1>5 DEF RingInv, RingConsumer
    <2>5. enqueuedThen <= enqueued + 1
      BY <1>3 DEF RingInv, RingShape, RingConsumer
    <2> QED BY <1>1, <1>2, <1>5, <2>2, <2>3, <2>4, <2>5 DEF RingInv, RingConsumer, Gap
  <1>15. RingShape'
    BY <1>2, <1>3, <1>5 DEF RingInv, RingShape
  <1> QED BY <1>9, <1>10, <1>11, <1>13, <1>14, <1>15 DEF RingInv

LEMMA PublishNextKeeps == ASSUME RingInv, RW!PublishNext PROVE RingInv'
  <1>1. PICK b, n, f : b = tailBlock /\ n = Following /\ f = frontBlock
    OBVIOUS
  <1>2. /\ ppc = "publishNext" /\ ppc' = "advance"
        /\ tail' = [tail EXCEPT ![n] = RW!NextSlot(tail[n])]
        /\ UNCHANGED <<front, localFront, localTail, data, frontBlock, tailBlock, cpc,
                        enqueued, dequeued, dequeuedThen, got, enqueuedThen>>
    BY <1>1 DEF RW!PublishNext, RW!consumerVars, Following
  <1>3. /\ n \in RW!Block /\ n # b /\ n # f /\ b \in RW!Block /\ f \in RW!Block
        /\ Ahead(n) = Ahead(b) + 1 /\ Ahead(b) \in 0 .. Ring - 1
        /\ Holds(n) = 0 /\ tail[n] = front[n] /\ Most \in Nat \ {0}
    BY <1>1, <1>2, Entered, RingNext DEF RingInv, RingShape, Most
  <1>4. /\ Holds(n)' = 1
        /\ \A c \in RW!Block \ {n} : Holds(c)' = Holds(c)
        /\ \A c \in RW!Block : Ahead(c)' = Ahead(c)
        /\ Following' = Following /\ NextFront' = NextFront
        /\ tail' \in [RW!Block -> Cells]
    <2>1. Holds(n) < Most
      BY <1>3
    <2>2. /\ Holds(n)' = Holds(n) + 1
          /\ \A c \in RW!Block \ {n} : Holds(c)' = Holds(c)
          /\ \A c \in RW!Block : Ahead(c)' = Ahead(c)
          /\ Following' = Following /\ NextFront' = NextFront
          /\ tail' \in [RW!Block -> Cells]
      BY <1>2, <1>3, <2>1, TailMoves
    <2>3. Holds(n) + 1 = 1
      BY <1>3
    <2> QED BY <2>2, <2>3
  <1>5. \A c \in RW!Block : Before(c)' = Before(c)
    <2> SUFFICES ASSUME NEW c \in RW!Block PROVE Before(c)' = Before(c)
      OBVIOUS
    <2>1. Holds(f)' = Holds(f) /\ Ahead(c)' = Ahead(c)
      BY <1>3, <1>4
    <2>2. CASE c = f
      BY <1>1, <1>2, <2>2 DEF Before
    <2>3. CASE c # f
      <3>1. Before(c) = dequeued + Holds(f) + (Ahead(c) - 1) * Most
        BY <1>1, <2>3 DEF Before
      <3>2. Before(c)' = dequeued + Holds(f)' + (Ahead(c)' - 1) * Most
        BY <1>1, <1>2, <2>3 DEF Before, Most
      <3> QED BY <2>1, <3>1, <3>2
    <2> QED BY <2>2, <2>3
  <1>6. RingBlocks'
    <2>1. \A c \in RW!Block : Ahead(c) < Ahead(b) => c # n
      BY <1>3, RingNext
    <2> QED BY <1>1, <1>2, <1>3, <1>4, <2>1 DEF RingInv, RingBlocks
  <1>7. RingCount'
    BY <1>1, <1>2, <1>3, <1>4, <1>5 DEF RingInv, RingCount
  <1>8. RingData'
    <2>1. \A c \in RW!Block : Ahead(c) <= Ahead(b) => c # n
      BY <1>3, RingNext
    <2> QED BY <1>1, <1>2, <1>3, <1>4, <1>5, <2>1 DEF RingInv, RingData, Gap
  <1>9. RingProducer'
    <2>1. tail'[b] = tail[b] /\ Holds(b)' = Holds(b)
      BY <1>2, <1>3, <1>4
    <2> QED BY <1>1, <1>2, <1>3, <1>4, <2>1 DEF RingInv, RingProducer, Gap
  <1>10. RingConsumer'
    <2>1. ASSUME cpc = "advance" PROVE Gap(front[NextFront], localTail[NextFront]) <= Holds(NextFront)'
      <3>1. PICK m \in RW!Block : m = NextFront
        BY RingNext DEF RingInv, RingShape, NextFront
      <3>2. Gap(front[m], localTail[m]) <= Holds(m) /\ b # f
        BY <1>1, <2>1, <3>1 DEF RingInv, RingConsumer
      <3>3. m # n
        <4>1. Ahead(f) = 0 /\ Ahead(b) \in Nat /\ Ahead(b) # 0
          BY <1>1, <1>3, <3>2, RingFacts DEF RingInv
        <4>2. m # f => Ahead(m) = 1
          BY <1>1, <1>3, <3>1, <4>1, RingFacts DEF RingInv, NextFront
        <4> QED BY <1>3, <4>1, <4>2
      <3> QED BY <1>4, <3>1, <3>2, <3>3
    <2>2. Holds(f)' = Holds(f)
      BY <1>3, <1>4
    <2> QED BY <1>1, <1>2, <1>4, <2>1, <2>2 DEF RingInv, RingConsumer, Gap
  <1>11. RingShape'
    BY <1>2, <1>4 DEF RingInv, RingShape
  <1> QED BY <1>6, <1>7, <1>8, <1>9, <1>10, <1>11 DEF RingInv

LEMMA AdvanceTailKeeps == ASSUME RingInv, RW!AdvanceTail PROVE RingInv'
  <1>1. PICK b, n, f : b = tailBlock /\ n = Following /\ f = frontBlock
    OBVIOUS
  <1>2. /\ ppc = "advance" /\ ppc' = "idle" /\ tailBlock' = n /\ enqueued' = enqueued + 1
        /\ UNCHANGED <<front, tail, localFront, localTail, data, frontBlock, cpc,
                        dequeued, dequeuedThen, got, enqueuedThen>>
    BY <1>1 DEF RW!AdvanceTail, RW!consumerVars, Following
  <1>3. /\ n \in RW!Block /\ n # b /\ n # f /\ b \in RW!Block /\ f \in RW!Block
        /\ Ahead(n) = Ahead(b) + 1 /\ Ahead(b) \in 0 .. Ring - 1
        /\ Holds(n) = 1 /\ Most \in Nat \ {0} /\ enqueued \in Nat /\ dequeued \in Nat
    BY <1>1, <1>2, Entered, RingNext DEF RingInv, RingShape, Most
  <1>4. /\ \A c : Ahead(c)' = Ahead(c) /\ Holds(c)' = Holds(c) /\ Before(c)' = Before(c)
        /\ NextFront' = NextFront
    BY <1>2 DEF Ahead, Holds, Gap, Before, NextFront, RW!NextBlock
  <1>5. \A c \in RW!Block : Ahead(c) \in 0 .. Ring - 1 /\ (Ahead(c) = Ahead(n) => c = n)
    BY <1>3, RingFacts DEF RingInv
  <1>6. RingBlocks'
    <2> SUFFICES ASSUME NEW c \in RW!Block
                 PROVE  /\ Ahead(c) < Ahead(n) /\ c # f => Holds(c) = Most
                        /\ Ahead(c) > Ahead(n) => Holds(c) = 0
      BY <1>1, <1>2, <1>4 DEF RingBlocks
    <2>1. /\ Ahead(c) < Ahead(b) /\ c # f => Holds(c) = Most
          /\ Ahead(c) > Ahead(b) /\ c # n => Holds(c) = 0
      BY <1>1, <1>2 DEF RingInv, RingBlocks
    <2>2. Ahead(c) < Ahead(n) => Ahead(c) < Ahead(b) \/ c = b
      <3>1. Ahead(c) \in Nat /\ (Ahead(b) = Ahead(c) => b = c)
        BY <1>3, RingFacts DEF RingInv
      <3>2. Ahead(b) \in Nat /\ Ahead(n) = Ahead(b) + 1
        BY <1>3
      <3> QED BY <3>1, <3>2
    <2>3. b # f => Holds(b) = Most
      BY <1>1, <1>2 DEF RingInv, RingProducer
    <2>4. Ahead(c) > Ahead(n) => Ahead(c) > Ahead(b) /\ c # n
      <3>1. Ahead(c) \in Nat /\ Ahead(b) \in Nat /\ Ahead(n) = Ahead(b) + 1
        BY <1>3, <1>5
      <3> QED BY <3>1
    <2> QED BY <2>1, <2>2, <2>3, <2>4
  <1>7. Before(n) = enqueued
    <2>1. Before(n) = dequeued + Holds(f) + Ahead(b) * Most
      BY <1>1, <1>3, RingNext DEF Before
    <2>2. enqueued = Before(b) + Holds(b) /\ Holds(f) \in Int /\ Holds(b) \in Int
      BY <1>1, <1>3, RingFacts DEF RingInv, RingCount, Most
    <2>3. CASE b = f
      <3>1. Ahead(b) = 0
        BY <1>1, <1>3, <2>3, RingFacts DEF RingInv
      <3>2. Ahead(b) * Most = 0
        BY <1>3, <3>1
      <3> QED BY <1>1, <1>3, <2>1, <2>2, <2>3, <3>2 DEF Before
    <2>4. CASE b # f
      <3>1. Before(b) = dequeued + Holds(f) + (Ahead(b) - 1) * Most /\ Holds(b) = Most
        BY <1>1, <1>2, <2>4 DEF Before, RingInv, RingProducer
      <3>2. Ahead(b) * Most = (Ahead(b) - 1) * Most + Most /\ Ahead(b) * Most \in Int
        BY <1>3, Times
      <3>3. (Ahead(b) - 1) * Most \in Int
        BY <1>3, Times
      <3> QED BY <1>3, <2>1, <2>2, <3>1, <3>2, <3>3
    <2> QED BY <2>3, <2>4
  <1>8. RingCount'
    BY <1>1, <1>2, <1>3, <1>4, <1>7 DEF RingCount
  <1>9. RingData'
    <2> SUFFICES ASSUME NEW c \in RW!Block, NEW i \in Cells, Ahead(c) <= Ahead(n),
                        Gap(front[c], i) < Holds(c), ~(cpc = "release" /\ c = f /\ i = front[c])
                 PROVE  data[c][i] = Before(c) + Gap(front[c], i)
      BY <1>1, <1>2, <1>4 DEF RingData, Gap
    <2>1. CASE c = n
      <3>1. Gap(front[c], i) \in 0 .. Most /\ (Gap(front[c], i) = 0 <=> front[c] = i)
        BY GapFacts DEF RingInv, RingShape
      <3>2. Gap(front[c], i) = 0 /\ i = front[n]
        BY <1>3, <2>1, <3>1
      <3>3. data[n][front[n]] = enqueued
        BY <1>1, <1>2 DEF RingInv, RingProducer
      <3> QED BY <1>3, <1>7, <2>1, <3>2, <3>3
    <2>2. CASE c # n
      <3>1. Ahead(c) <= Ahead(b)
        BY <1>3, <1>5, <2>2, RingNext
      <3> QED BY <1>1, <3>1 DEF RingInv, RingData
    <2> QED BY <2>1, <2>2
  <1>10. RingProducer'
    <2>1. localFront[n] = front[n] /\ Gap(localFront[n], tail[n]) = Holds(n)
      BY <1>1, <1>2 DEF RingInv, RingProducer, Holds
    <2>2. dequeuedThen <= dequeued
      BY DEF RingInv, RingProducer
    <2> QED BY <1>1, <1>2, <1>3, <1>4, <2>1, <2>2 DEF RingProducer, Gap
  <1>11. RingConsumer'
    <2>1. enqueuedThen <= enqueued + 1
      BY <1>3 DEF RingInv, RingShape, RingConsumer
    <2> QED BY <1>1, <1>2, <1>3, <1>4, <2>1 DEF RingInv, RingConsumer, Gap
  <1>12. RingShape'
    BY <1>2, <1>3 DEF RingInv, RingShape
  <1> QED BY <1>6, <1>8, <1>9, <1>10, <1>11, <1>12 DEF RingInv

LEMMA BeginDequeueKeeps == ASSUME RingInv, RW!BeginDequeue PROVE RingInv'
  <1>1. /\ cpc = "idle" /\ enqueuedThen' = enqueued
        /\ cpc' = IF front[frontBlock] # localTail[frontBlock] THEN "read" ELSE "refresh"
        /\ UNCHANGED <<front, tail, localFront, localTail, data, frontBlock, tailBlock, ppc,
                        enqueued, dequeued, dequeuedThen, got>>
    BY DEF RW!BeginDequeue, RW!ConsumerOnly
  <1>2. RingBlocks' /\ RingCount' /\ RingData'
    BY <1>1, RingStill
  <1>3. RingShape' /\ RingProducer'
    BY <1>1, RingQuiet DEF RingInv, RingShape, RingProducer, Gap
  <1>4. enqueued <= enqueued
    BY DEF RingInv, RingShape
  <1>5. RingConsumer'
    BY <1>1, <1>4, RingQuiet DEF RingInv, RingConsumer, Gap
  <1> QED BY <1>2, <1>3, <1>5 DEF RingInv

LEMMA RefreshTailKeeps == ASSUME RingInv, RW!RefreshTail PROVE RingInv'
  <1>1. PICK f : f = frontBlock
    OBVIOUS
  <1>2. /\ cpc \in {"refresh", "again"}
        /\ localTail' = [localTail EXCEPT ![f] = tail[f]]
        /\ cpc' = IF front[f] # tail[f] THEN "read" ELSE IF cpc = "refresh" THEN "empty" ELSE "next"
        /\ UNCHANGED <<front, tail, localFront, data, frontBlock, tailBlock, ppc,
                        enqueued, dequeued, dequeuedThen, got, enqueuedThen>>
    BY <1>1 DEF RW!RefreshTail, RW!ConsumerOnly
  <1>3. RingBlocks' /\ RingCount' /\ RingData'
    BY <1>2, RingStill
  <1>4. RingShape' /\ RingProducer'
    BY <1>1, <1>2, RingQuiet DEF RingInv, RingShape, RingProducer, Gap
  <1>5. /\ localTail'[f] = tail[f] /\ Holds(f) \in 0 .. Most /\ (Holds(f) = 0 <=> front[f] = tail[f])
        /\ Most \in Nat
    <2>1. f \in RW!Block /\ RingShape /\ localTail \in [RW!Block -> Cells]
      BY <1>1 DEF RingInv, RingShape
    <2>2. Holds(f) \in 0 .. Most /\ (Holds(f) = 0 <=> front[f] = tail[f])
      BY <2>1, RingFacts
    <2>3. localTail'[f] = tail[f]
      BY <1>2, <2>1
    <2> QED BY <2>2, <2>3, RingNext DEF Most
  <1>6. cpc' = "empty" /\ tailBlock = f => dequeued >= enqueuedThen
    <2> SUFFICES ASSUME cpc' = "empty", tailBlock = f PROVE dequeued >= enqueuedThen
      OBVIOUS
    <2>1. Holds(f) = 0
      BY <1>2, <1>5
    <2>2. enqueued = dequeued + 0
      BY <1>1, <2>1 DEF RingInv, RingCount, Before
    <2> QED BY <2>2 DEF RingInv, RingShape, RingConsumer
  <1>7. Gap(front[f], localTail'[f]) <= Holds(f)
    BY <1>5 DEF Holds
  <1>8. RingConsumer'
    BY <1>1, <1>2, <1>5, <1>6, <1>7, RingQuiet DEF RingInv, RingConsumer, Gap
  <1> QED BY <1>3, <1>4, <1>8 DEF RingInv

LEMMA EmptyKeeps == ASSUME RingInv, RW!Empty \/ RW!DequeueFails PROVE RingInv'
  <1>1. /\ \/ cpc = "empty" /\ cpc' = IF frontBlock # tailBlock THEN "again" ELSE "failed"
           \/ cpc = "failed" /\ cpc' = "idle"
        /\ UNCHANGED <<front, tail, localFront, localTail, data, frontBlock, tailBlock, ppc,
                        enqueued, dequeued, dequeuedThen, got, enqueuedThen>>
    BY DEF RW!Empty, RW!DequeueFails, RW!ConsumerOnly
  <1>2. RingBlocks' /\ RingCount' /\ RingData'
    BY <1>1, RingStill
  <1>3. RingShape' /\ RingProducer'
    BY <1>1, RingQuiet DEF RingInv, RingShape, RingProducer, Gap
  <1>4. RingConsumer'
    BY <1>1, RingQuiet DEF RingInv, RingConsumer, Gap
  <1> QED BY <1>2, <1>3, <1>4 DEF RingInv

\* The block after the front block, when the consumer leaves that.
LEMMA Leaving ==
  ASSUME RingInv, cpc \in {"next", "advance"}
  PROVE  /\ NextFront \in RW!Block /\ NextFront # frontBlock /\ frontBlock \in RW!Block
         /\ tailBlock \in RW!Block /\ tailBlock # frontBlock
         /\ Ahead(NextFront) = 1 /\ Ahead(tailBlock) \in 1 .. Ring - 1
         /\ Holds(NextFront) \in 1 .. Most
         /\ NextFront # tailBlock => Holds(NextFront) = Most
         /\ Holds(frontBlock) = 0
  <1>1. /\ tailBlock # frontBlock /\ tailBlock \in RW!Block /\ frontBlock \in RW!Block
        /\ NextFront \in RW!Block /\ Holds(frontBlock) = 0 /\ Ring \in Nat \ {0} /\ Most \in Nat \ {0}
    BY RingNext DEF RingInv, RingShape, RingConsumer, NextFront, Most
  <1>2. Ahead(frontBlock) = 0 /\ Ahead(tailBlock) \in 0 .. Ring - 1 /\ Ahead(tailBlock) # 0
    BY <1>1, RingFacts DEF RingInv
  <1>3. NextFront # frontBlock /\ Ahead(NextFront) = 1
    BY <1>1, <1>2, RingFacts DEF RingInv, NextFront
  <1>4. NextFront # tailBlock => Holds(NextFront) = Most
    <2> SUFFICES ASSUME NextFront # tailBlock PROVE Holds(NextFront) = Most
      OBVIOUS
    <2>1. Ahead(NextFront) # Ahead(tailBlock)
      BY <1>1, RingFacts DEF RingInv
    <2>2. Ahead(NextFront) < Ahead(tailBlock)
      BY <1>1, <1>2, <1>3, <2>1
    <2> QED BY <1>1, <1>3, <2>2 DEF RingInv, RingBlocks
  <1>5. Holds(NextFront) \in 0 .. Most /\ Holds(NextFront) > 0
    <2>1. Holds(NextFront) \in 0 .. Most
      BY <1>1, RingFacts DEF RingInv
    <2>2. CASE NextFront = tailBlock
      BY <1>1, <2>1, <2>2 DEF RingInv, RingCount
    <2>3. CASE NextFront # tailBlock
      BY <1>1, <1>4, <2>1, <2>3
    <2> QED BY <2>1, <2>2, <2>3
  <1> QED BY <1>1, <1>2, <1>3, <1>4, <1>5

LEMMA ReadNextTailKeeps == ASSUME RingInv, RW!ReadNextTail PROVE RingInv'
  <1>1. PICK f, n : f = frontBlock /\ n = NextFront
    OBVIOUS
  <1>2. /\ cpc = "next" /\ cpc' = "advance" /\ localTail' = [localTail EXCEPT ![n] = tail[n]]
        /\ UNCHANGED <<front, tail, localFront, data, frontBlock, tailBlock, ppc,
                        enqueued, dequeued, dequeuedThen, got, enqueuedThen>>
    BY <1>1 DEF RW!ReadNextTail, RW!ConsumerOnly, NextFront
  <1>3. RingBlocks' /\ RingCount' /\ RingData'
    BY <1>2, RingStill
  <1>4. /\ n \in RW!Block /\ n # f /\ f \in RW!Block /\ Holds(n) \in 1 .. Most /\ Holds(f) = 0
        /\ tailBlock # f /\ Most \in Nat
    BY <1>1, <1>2, Leaving, RingNext DEF Most
  <1>5. RingShape' /\ RingProducer'
    BY <1>1, <1>2, RingQuiet DEF RingInv, RingShape, RingProducer, Gap
  <1>6. localTail'[n] = tail[n] /\ localTail'[f] = localTail[f] /\ (Holds(n) = 0 <=> front[n] = tail[n])
    BY <1>2, <1>4, RingFacts DEF RingInv, RingShape
  <1>7. localTail'[n] # front[n] /\ Gap(front[n], localTail'[n]) <= Holds(n)
    BY <1>4, <1>6 DEF Holds
  <1>8. RingConsumer'
    BY <1>1, <1>2, <1>4, <1>6, <1>7, RingQuiet DEF RingInv, RingConsumer, Gap
  <1> QED BY <1>3, <1>5, <1>8 DEF RingInv

LEMMA ReadKeeps == ASSUME RingInv, RW!Read PROVE RingInv'
  <1>1. PICK f : f = frontBlock
    OBVIOUS
  <1>2. /\ cpc = "read" /\ cpc' = "release" /\ got' = data[f][front[f]]
        /\ data' = [data EXCEPT ![f][front[f]] = Free]
        /\ UNCHANGED <<front, tail, localFront, localTail, frontBlock, tailBlock, ppc,
                        enqueued, dequeued, dequeuedThen, enqueuedThen>>
    BY <1>1 DEF RW!Read, RW!ConsumerOnly
  <1>3. /\ f \in RW!Block /\ tailBlock \in RW!Block /\ front[f] \in Cells
        /\ DOMAIN data = RW!Block /\ \A c \in RW!Block : DOMAIN data[c] = Cells
        /\ localTail[f] \in Cells /\ dequeued \in Nat
    BY <1>1 DEF RingInv, RingShape
  <1>4. /\ DOMAIN data' = RW!Block /\ \A c \in RW!Block : DOMAIN data'[c] = Cells
        /\ \A c \in RW!Block, i \in Cells : ~(c = f /\ i = front[f]) => data'[c][i] = data[c][i]
    BY <1>2, <1>3
  <1>5. RingBlocks' /\ RingCount'
    BY <1>2, RingQuiet DEF RingInv, RingBlocks, RingCount
  <1>6. RingData'
    BY <1>1, <1>2, <1>4, RingQuiet DEF RingInv, RingData, Gap
  <1>7. Holds(f) > 0 /\ Gap(front[f], front[f]) = 0
    <2>1. /\ Gap(front[f], localTail[f]) \in 0 .. Most /\ Gap(front[f], localTail[f]) # 0
          /\ Gap(front[f], front[f]) = 0
      BY <1>1, <1>2, <1>3, GapFacts DEF RingInv, RingConsumer
    <2>2. Gap(front[f], localTail[f]) <= Holds(f) /\ Holds(f) \in 0 .. Most
      BY <1>1, <1>3, RingFacts DEF RingInv, RingConsumer
    <2> QED BY <2>1, <2>2
  <1>8. got' = dequeued
    <2>1. Ahead(f) <= Ahead(tailBlock)
      BY <1>1, <1>3, RingFacts, RingNext DEF RingInv
    <2>2. data[f][front[f]] = Before(f) + Gap(front[f], front[f])
      BY <1>2, <1>3, <1>7, <2>1 DEF RingInv, RingData
    <2> QED BY <1>1, <1>2, <1>3, <1>7, <2>2 DEF Before
  <1>9. RingConsumer'
    BY <1>1, <1>2, <1>8, RingQuiet DEF RingInv, RingConsumer, Gap
  <1>10. RingProducer'
    <2>1. ASSUME ppc = "publish" PROVE ~(tailBlock = f /\ tail[tailBlock] = front[f])
      <3>1. Holds(tailBlock) = 0 <=> front[tailBlock] = tail[tailBlock]
        BY <1>3, RingFacts DEF RingInv
      <3> QED BY <1>7, <3>1
    <2>2. ppc \in {"publishNext", "advance"} => Following # f /\ Following \in RW!Block
      BY <1>1, Entered
    <2>3. tail[tailBlock] \in Cells /\ front[Following] \in Cells
      BY RingNext DEF RingInv, RingShape, Following
    <2>4. /\ ppc = "publish" => data'[tailBlock][tail[tailBlock]] = enqueued
          /\ ppc \in {"publishNext", "advance"} => data'[Following][front[Following]] = enqueued
      BY <1>3, <1>4, <2>1, <2>2, <2>3 DEF RingInv, RingProducer
    <2> QED BY <1>2, <2>4, RingQuiet DEF RingInv, RingProducer, Gap
  <1>11. RingShape'
    BY <1>2, <1>4 DEF RingInv, RingShape
  <1> QED BY <1>5, <1>6, <1>9, <1>10, <1>11 DEF RingInv

LEMMA AdvanceFrontKeeps == ASSUME RingInv, RW!AdvanceFront PROVE RingInv'
  <1>1. PICK b, f, n : b = tailBlock /\ f = frontBlock /\ n = NextFront
    OBVIOUS
  <1>2. /\ cpc = "advance" /\ cpc' = "read" /\ frontBlock' = n
        /\ UNCHANGED <<front, tail, localFront, localTail, data, tailBlock, ppc,
                        enqueued, dequeued, dequeuedThen, got, enqueuedThen>>
    BY <1>1 DEF RW!AdvanceFront, RW!ConsumerOnly, NextFront
  <1>3. /\ n \in RW!Block /\ n # f /\ f \in RW!Block /\ b \in RW!Block /\ b # f
        /\ Ahead(n) = 1 /\ Ahead(b) \in 1 .. Ring - 1 /\ Holds(n) \in 1 .. Most
        /\ n # b => Holds(n) = Most
        /\ Holds(f) = 0 /\ Most \in Nat \ {0} /\ Ring \in Nat \ {0} /\ dequeued \in Nat
    BY <1>1, <1>2, Leaving, RingNext DEF Most, RingInv, RingShape
  <1>4. /\ \A c : Holds(c)' = Holds(c)
        /\ Following' = Following
    BY <1>2 DEF Holds, Gap, Following, RW!NextBlock
  <1>5. \A c \in RW!Block : Ahead(c)' = IF c = f THEN Ring - 1 ELSE Ahead(c) - 1
    <2>1. n = IF f = Ring - 1 THEN 0 ELSE f + 1
      BY <1>1, <1>3, RingNext DEF NextFront
    <2> SUFFICES ASSUME NEW c \in RW!Block
                 PROVE  Ahead(c)' = IF c = f THEN Ring - 1 ELSE Ahead(c) - 1
      OBVIOUS
    <2>2. Ahead(c) = IF c >= f THEN c - f ELSE c - f + Ring
      BY <1>1 DEF Ahead
    <2>3. Ahead(c)' = IF c >= n THEN c - n ELSE c - n + Ring
      BY <1>2 DEF Ahead
    <2>4. c \in 0 .. Ring - 1 /\ f \in 0 .. Ring - 1
      BY <1>3, RingNext
    <2> QED BY <1>3, <2>1, <2>2, <2>3, <2>4
  <1>6. \A c \in RW!Block : /\ Ahead(c) \in 0 .. Ring - 1 /\ (Ahead(c) = 0 <=> c = f)
                            /\ (Ahead(c) = 1 => c = n)
    BY <1>1, <1>3, RingFacts DEF RingInv
  <1>7. Ahead(b)' = Ahead(b) - 1
    BY <1>3, <1>5
  <1>8. ASSUME NEW c \in RW!Block, Ahead(c)' <= Ahead(b)'
        PROVE  c # f /\ Ahead(c) <= Ahead(b) /\ Before(c)' = Before(c)
    <2>1. c # f /\ Ahead(c) <= Ahead(b) /\ Ahead(c) \in Nat
      BY <1>3, <1>5, <1>6, <1>7, <1>8
    <2>2. Before(c) = dequeued + 0 + (Ahead(c) - 1) * Most
      BY <1>1, <1>3, <2>1 DEF Before
    <2>3. CASE c = n
      <3>1. Before(c)' = dequeued
        BY <1>2, <2>3 DEF Before
      <3>2. (Ahead(c) - 1) * Most = 0
        BY <1>3, <2>3
      <3> QED BY <1>3, <2>1, <2>2, <3>1, <3>2
    <2>4. CASE c # n
      <3>1. Ahead(c) - 1 > 0 /\ Ahead(c)' = Ahead(c) - 1
        BY <1>5, <1>6, <1>8, <2>1, <2>4
      <3>2. Before(c)' = dequeued + Holds(n) + (Ahead(c) - 1 - 1) * Most
        BY <1>2, <1>4, <2>4, <3>1 DEF Before, Most
      <3>3. n # b
        BY <1>3, <2>1, <3>1
      <3>4. (Ahead(c) - 1) * Most = (Ahead(c) - 1 - 1) * Most + Most
        BY <2>1, Times
      <3>5. (Ahead(c) - 1 - 1) * Most \in Int
        BY <2>1, Times
      <3> QED BY <1>3, <2>1, <2>2, <3>2, <3>3, <3>4, <3>5
    <2> QED BY <2>3, <2>4
  <1>9. RingBlocks'
    <2> SUFFICES ASSUME NEW c \in RW!Block
                 PROVE  /\ Ahead(c)' < Ahead(b)' /\ c # n => Holds(c) = Most
                        /\ Ahead(c)' > Ahead(b)' =>
                             Holds(c) = IF ppc = "advance" /\ c = Following THEN 1 ELSE 0
      BY <1>1, <1>2, <1>4 DEF RingBlocks
    <2>1. /\ Ahead(c) < Ahead(b) /\ c # f => Holds(c) = Most
          /\ Ahead(c) > Ahead(b) => Holds(c) = IF ppc = "advance" /\ c = Following THEN 1 ELSE 0
      BY <1>1 DEF RingInv, RingBlocks
    <2>2. CASE c = f
      <3>1. Ahead(c)' = Ring - 1 /\ ~(Ahead(c)' < Ahead(b)')
        BY <1>3, <1>5, <1>7, <2>2
      <3>2. ppc = "advance" => Following # f
        BY <1>1, Entered
      <3> QED BY <1>3, <2>2, <3>1, <3>2
    <2>3. CASE c # f
      <3>1. Ahead(c)' = Ahead(c) - 1 /\ Ahead(c) \in Nat /\ Ahead(b) \in Nat
        BY <1>3, <1>5, <1>6, <2>3
      <3>2. /\ Ahead(c)' < Ahead(b)' => Ahead(c) < Ahead(b)
            /\ Ahead(c)' > Ahead(b)' => Ahead(c) > Ahead(b)
        BY <1>7, <3>1
      <3> QED BY <2>1, <2>3, <3>2
    <2> QED BY <2>2, <2>3
  <1>10. RingCount'
    <2>1. Before(b)' = Before(b)
      BY <1>3, <1>7, <1>8
    <2>2. enqueued = Before(b) + Holds(b) /\ Holds(b) > 0
      BY <1>1, <1>3 DEF RingInv, RingCount
    <2> QED BY <1>1, <1>2, <1>4, <2>1, <2>2 DEF RingCount
  <1>11. RingData'
    <2> SUFFICES ASSUME NEW c \in RW!Block, NEW i \in Cells, Ahead(c)' <= Ahead(b)',
                        Gap(front[c], i) < Holds(c)
                 PROVE  data[c][i] = Before(c)' + Gap(front[c], i)
      BY <1>1, <1>2, <1>4 DEF RingData, Gap
    <2> QED BY <1>1, <1>2, <1>8 DEF RingInv, RingData
  <1>12. RingProducer'
    <2>1. ppc \in {"next", "writeNext", "publishNext", "advance"} => Following # n
      <3> SUFFICES ASSUME ppc \in {"next", "writeNext", "publishNext", "advance"}, Following = n
                   PROVE  FALSE
        OBVIOUS
      <3>1. Ahead(n) = Ahead(b) + 1
        BY <1>1, Entered
      <3> QED BY <1>3, <3>1
    <2> QED BY <1>1, <1>2, <1>3, <1>4, <2>1 DEF RingInv, RingProducer, Gap
  <1>13. RingConsumer'
    BY <1>1, <1>2, <1>4 DEF RingInv, RingConsumer, Gap
  <1>14. RingShape'
    BY <1>2, <1>3 DEF RingInv, RingShape
  <1> QED BY <1>9, <1>10, <1>11, <1>12, <1>13, <1>14 DEF RingInv

LEMMA ReleaseSlotKeeps == ASSUME RingInv, RW!Release PROVE RingInv'
  <1>1. PICK b, f : b = tailBlock /\ f = frontBlock
    OBVIOUS
  <1>2. /\ cpc = "release" /\ cpc' = "idle" /\ dequeued' = dequeued + 1
        /\ front' = [front EXCEPT ![f] = RW!NextSlot(front[f])]
        /\ frontBlock' = f /\ tailBlock' = b
        /\ UNCHANGED <<tail, localFront, localTail, data, frontBlock, tailBlock, ppc,
                        enqueued, dequeuedThen, enqueuedThen>>
    BY <1>1 DEF RW!Release, RW!ConsumerOnly
  <1>3. /\ f \in RW!Block /\ b \in RW!Block /\ front[f] \in Cells /\ tail[f] \in Cells
        /\ localTail[f] \in Cells /\ front \in [RW!Block -> Cells]
        /\ dequeued \in Nat /\ enqueued \in Nat /\ dequeuedThen \in Nat /\ enqueuedThen \in Nat
        /\ Most \in Nat
    BY <1>1, RingNext DEF RingInv, RingShape, Most
  <1>4. /\ front'[f] = RW!NextSlot(front[f]) /\ \A c \in RW!Block \ {f} : front'[c] = front[c]
        /\ front' \in [RW!Block -> Cells]
    BY <1>2, <1>3, RingNext
  <1>5. /\ Gap(front[f], localTail[f]) \in 1 .. Most
        /\ Gap(front[f], localTail[f]) <= Holds(f) /\ Holds(f) \in 1 .. Most
    <2>1. Gap(front[f], localTail[f]) \in 0 .. Most /\ Gap(front[f], localTail[f]) # 0
      BY <1>1, <1>2, <1>3, GapFacts DEF RingInv, RingConsumer
    <2>2. Gap(front[f], localTail[f]) <= Holds(f) /\ Holds(f) \in 0 .. Most
      BY <1>1, <1>3, RingFacts DEF RingInv, RingConsumer
    <2> QED BY <1>3, <2>1, <2>2
  <1>6. /\ Holds(f)' = Holds(f) - 1 /\ \A c \in RW!Block \ {f} : Holds(c)' = Holds(c)
        /\ \A c : Ahead(c)' = Ahead(c)
        /\ Following' = Following /\ NextFront' = NextFront
    <2>1. Gap(RW!NextSlot(front[f]), tail[f]) = IF Holds(f) = 0 THEN Most ELSE Holds(f) - 1
      BY <1>3, GapFacts DEF Holds
    <2>2. Holds(f)' = Gap(front'[f], tail[f])
      BY <1>2 DEF Holds, Gap
    <2>3. \A c \in RW!Block \ {f} : Holds(c)' = Holds(c)
      BY <1>2, <1>4 DEF Holds, Gap
    <2>4. /\ \A c : Ahead(c)' = Ahead(c)
          /\ Following' = Following /\ NextFront' = NextFront
      BY <1>2 DEF Ahead, Following, NextFront, RW!NextBlock
    <2> QED BY <1>4, <1>5, <2>1, <2>2, <2>3, <2>4
  <1>7. \A c \in RW!Block : Before(c) \in Int /\ Before(c)' = IF c = f THEN Before(c) + 1 ELSE Before(c)
    <2> SUFFICES ASSUME NEW c \in RW!Block
                 PROVE  Before(c) \in Int /\ Before(c)' = IF c = f THEN Before(c) + 1 ELSE Before(c)
      OBVIOUS
    <2>1. Before(c) \in Int /\ Ahead(c) \in 0 .. Ring - 1
      BY RingFacts DEF RingInv
    <2>2. CASE c = f
      BY <1>1, <1>2, <2>1, <2>2 DEF Before
    <2>3. CASE c # f
      <3>1. Before(c) = dequeued + Holds(f) + (Ahead(c) - 1) * Most
        BY <1>1, <2>3 DEF Before
      <3>2. Before(c)' = dequeued + 1 + (Holds(f) - 1) + (Ahead(c) - 1) * Most
        BY <1>1, <1>2, <1>6, <2>3 DEF Before, Most
      <3>3. (Ahead(c) - 1) * Most \in Int
        BY <2>1, Times, RingNext
      <3> QED BY <1>3, <1>5, <2>1, <2>3, <3>1, <3>2, <3>3
    <2> QED BY <2>2, <2>3
  <1>8. \A c \in RW!Block : Ahead(c) \in 0 .. Ring - 1 /\ (Ahead(c) = 0 <=> c = f)
    BY <1>1, RingFacts DEF RingInv
  <1>9. RingBlocks'
    <2> SUFFICES ASSUME NEW c \in RW!Block
                 PROVE  /\ Ahead(c) < Ahead(b) /\ c # f => Holds(c)' = Most
                        /\ Ahead(c) > Ahead(b) =>
                             Holds(c)' = IF ppc = "advance" /\ c = Following THEN 1 ELSE 0
      BY <1>1, <1>2, <1>6 DEF RingBlocks, Most
    <2>1. /\ Ahead(c) < Ahead(b) /\ c # f => Holds(c) = Most
          /\ Ahead(c) > Ahead(b) => Holds(c) = IF ppc = "advance" /\ c = Following THEN 1 ELSE 0
      BY <1>1 DEF RingInv, RingBlocks
    <2>2. Ahead(c) > Ahead(b) => c # f
      <3>1. Ahead(b) \in Nat /\ (c = f => Ahead(c) = 0)
        BY <1>3, <1>8
      <3> QED BY <3>1
    <2> QED BY <1>6, <2>1, <2>2
  <1>10. RingCount'
    <2>1. enqueued = Before(b) + Holds(b) /\ (b # f => Holds(b) > 0)
      BY <1>1 DEF RingInv, RingCount
    <2>2. enqueued = Before(b)' + Holds(b)' /\ (b # f => Holds(b)' > 0)
      <3>1. CASE b = f
        BY <1>3, <1>5, <1>6, <1>7, <2>1, <3>1
      <3>2. CASE b # f
        BY <1>3, <1>6, <1>7, <2>1, <3>2
      <3> QED BY <3>1, <3>2
    <2> QED BY <1>2, <2>2 DEF RingCount
  <1>11. RingData'
    <2> SUFFICES ASSUME NEW c \in RW!Block, NEW i \in Cells, Ahead(c) <= Ahead(b),
                        Gap(front'[c], i) < Holds(c)'
                 PROVE  data[c][i] = Before(c)' + Gap(front'[c], i)
      BY <1>1, <1>2, <1>6 DEF RingData, Gap
    <2>1. CASE c = f
      <3>1. /\ Gap(RW!NextSlot(front[f]), i) = IF Gap(front[f], i) = 0 THEN Most ELSE Gap(front[f], i) - 1
            /\ Gap(front[f], i) \in 0 .. Most /\ (Gap(front[f], i) = 0 <=> front[f] = i)
        BY <1>3, GapFacts
      <3>2. Gap(front[f], i) # 0 /\ Gap(front[f], i) < Holds(f)
        BY <1>3, <1>4, <1>5, <1>6, <2>1, <3>1
      <3>3. data[f][i] = Before(f) + Gap(front[f], i)
        BY <1>1, <1>3, <2>1, <3>1, <3>2 DEF RingInv, RingData
      <3> QED BY <1>3, <1>4, <1>7, <2>1, <3>1, <3>2, <3>3
    <2>2. CASE c # f
      <3>1. front'[c] = front[c] /\ Holds(c)' = Holds(c) /\ Before(c)' = Before(c)
        BY <1>4, <1>6, <1>7, <2>2
      <3> QED BY <1>1, <2>2, <3>1 DEF RingInv, RingData
    <2> QED BY <2>1, <2>2
  <1>12. RingProducer'
    <2>1. Gap(localFront[b], tail[b]) >= Holds(b)'
      <3>1. Gap(localFront[b], tail[b]) >= Holds(b) /\ Gap(localFront[b], tail[b]) \in 0 .. Most
        BY <1>1, <1>3, GapFacts DEF RingInv, RingShape, RingProducer
      <3>2. CASE b = f
        BY <1>5, <1>6, <3>1, <3>2
      <3>3. CASE b # f
        BY <1>3, <1>6, <3>1, <3>3
      <3> QED BY <3>2, <3>3
    <2>2. ppc \in {"full", "next", "writeNext", "publishNext", "advance"} /\ b # f => Holds(b)' = Most
      BY <1>1, <1>3, <1>6 DEF RingInv, RingProducer
    <2>3. ppc \in {"next", "writeNext", "publishNext", "advance"} =>
            Following # f /\ Following \in RW!Block /\ front'[Following] = front[Following]
      BY <1>1, <1>4, Entered
    <2>4. dequeuedThen <= dequeued + 1
      BY <1>3 DEF RingInv, RingProducer
    <2> QED BY <1>1, <1>2, <1>6, <2>1, <2>2, <2>3, <2>4 DEF RingInv, RingProducer, Gap
  <1>13. RingConsumer'
    <2>1. Gap(front'[f], localTail[f]) = Gap(front[f], localTail[f]) - 1
      BY <1>3, <1>4, <1>5, GapFacts
    <2>2. Gap(front'[f], localTail[f]) <= Holds(f)'
      BY <1>5, <1>6, <2>1
    <2>3. enqueuedThen <= enqueued
      BY DEF RingInv, RingConsumer
    <2> QED BY <1>1, <1>2, <2>2, <2>3 DEF RingConsumer, Gap
  <1>14. RingShape'
    BY <1>2, <1>3, <1>4 DEF RingInv, RingShape
  <1> QED BY <1>9, <1>10, <1>11, <1>12, <1>13, <1>14 DEF RingInv

LEMMA RingStep == RingInv /\ [RW!Next]_rwVars => RingInv'
  <1> SUFFICES ASSUME RingInv, [RW!Next]_rwVars PROVE RingInv'
    OBVIOUS
  <1>1. CASE RW!TryEnqueue
    BY <1>1, BeginEnqueueKeeps, RefreshFrontKeeps, WriteKeeps, PublishKeeps, FullKeeps,
       EnqueueFailsKeeps, ReadNextFrontKeeps, WriteNextKeeps, PublishNextKeeps, AdvanceTailKeeps
       DEF RW!TryEnqueue
  <1>2. CASE RW!TryDequeue
    BY <1>2, BeginDequeueKeeps, RefreshTailKeeps, EmptyKeeps, ReadNextTailKeeps, AdvanceFrontKeeps,
       ReadKeeps, ReleaseSlotKeeps
       DEF RW!TryDequeue
  <1>3. CASE UNCHANGED rwVars
    <2>1. UNCHANGED <<front, tail, localFront, localTail, data, frontBlock, tailBlock, ppc, cpc,
                      enqueued, dequeued, got, dequeuedThen, enqueuedThen>>
      BY <1>3 DEF rwVars
    <2>2. RingBlocks' /\ RingCount' /\ RingData'
      BY <2>1, RingStill
    <2>3. RingShape' /\ RingProducer' /\ RingConsumer'
      BY <2>1, RingQuiet DEF RingInv, RingShape, RingProducer, RingConsumer, Gap
    <2> QED BY <2>2, <2>3 DEF RingInv
  <1> QED BY <1>1, <1>2, <1>3 DEF RW!Next

LEMMA RingAlways == LibrarySpec => []RingInv
  <1>1. LibraryInit => RingInv
    BY RingInit DEF LibraryInit
  <1>2. RingInv /\ [LibraryNext]_libraryVars => RingInv'
    <2>1. [LibraryNext]_libraryVars => [RW!Next]_rwVars
      BY DEF LibraryNext, libraryVars, ConcurrentQueueStep, ReaderWriterQueueStep, MpscQueueStep,
             CarryStep, Others
    <2> QED BY <2>1, RingStep
  <1> QED BY <1>1, <1>2, PTL DEF LibrarySpec

\* The reader-writer queue fails to take only when all was taken that was there
\* before, and fails to put only when it was as full as the constructor promises,
\* for any number and size of blocks (moodycamel_readerwriter_queue.hpp).
THEOREM RingFailsOnlyWhenDue == LibrarySpec => []FailsOnlyWhenDue
  <1>1. RingInv => FailsOnlyWhenDue
    <2>1. RingInv => RW!FailsOnlyWhenDue
      BY DEF RingInv, RingProducer, RingConsumer, RW!FailsOnlyWhenDue, Most
    <2> QED BY <2>1 DEF FailsOnlyWhenDue
  <1> QED BY <1>1, RingAlways, PTL

\* Of the values that the consumer moves out, the n-th is the n-th that the producer
\* put in.
TakesInOrder == cpc = "release" => got = dequeued

\* The reader-writer queue yields its values in their order, none lost and none
\* twice, for any number and size of blocks (moodycamel_readerwriter_queue.hpp).
THEOREM RingTakesInOrder == LibrarySpec => []TakesInOrder
  <1>1. RingInv => TakesInOrder
    BY DEF RingInv, RingConsumer, TakesInOrder
  <1> QED BY <1>1, RingAlways, PTL

-----------------------------------------------------------------------------
(* The reader-writer queue is a bounded FIFO.                               *)

LEMMA Around ==
  ASSUME NEW m \in Nat \ {0}, NEW x \in 0 .. m + m - 1
  PROVE  x % m = IF x < m THEN x ELSE x - m
  <1>1. CASE x < m
    BY <1>1
  <1>2. CASE x >= m
    <2>1. x - m \in 0 .. m - 1 /\ x = m * 1 + (x - m)
      BY <1>2
    <2> QED BY <2>1, <1>2
  <1> QED BY <1>1, <1>2

LEMMA Division ==
  ASSUME NEW m \in Nat \ {0}, NEW x \in Nat
  PROVE  x % m \in 0 .. m - 1 /\ x = m * (x \div m) + (x % m) /\ x \div m \in Nat
  OBVIOUS

LEMMA Monotone ==
  ASSUME NEW m \in Nat, NEW a \in Nat, NEW b \in Nat, a <= b
  PROVE  m * a <= m * b /\ m * a \in Nat /\ m * b \in Nat
  OBVIOUS

LEMMA SlotAt ==
  ASSUME NEW i \in Cells, NEW n \in 0 .. Most
  PROVE  (i + n) % Slots \in Cells /\ Gap(i, (i + n) % Slots) = n
  <1>1. /\ Slots \in Nat \ {0} /\ i \in 0 .. Slots - 1 /\ n \in 0 .. Slots - 1
        /\ i + n \in 0 .. Slots + Slots - 1
    BY RingNext DEF Cells, Most
  <1>2. PICK x \in Int : x = i + n
    BY <1>1
  <1>3. x \in 0 .. Slots + Slots - 1 /\ x % Slots = IF x < Slots THEN x ELSE x - Slots
    BY <1>1, <1>2, Around
  <1>4. (i + n) % Slots = IF i + n < Slots THEN i + n ELSE i + n - Slots
    BY <1>1, <1>2, <1>3
  <1> QED BY <1>1, <1>4 DEF Gap, Cells

LEMMA HoldsFact == ASSUME RingShape PROVE RW!InFrontBlock = Holds(frontBlock)
  <1>1. front[frontBlock] \in Cells /\ tail[frontBlock] \in Cells
    BY DEF RingShape
  <1>2. /\ front[frontBlock] \in 0 .. Slots - 1 /\ tail[frontBlock] \in 0 .. Slots - 1
        /\ Slots \in Nat \ {0}
    BY <1>1, RingNext DEF Cells
  <1>3. PICK x : x = tail[frontBlock] + Slots - front[frontBlock]
    OBVIOUS
  <1>4. x \in 0 .. Slots + Slots - 1
    BY <1>2, <1>3
  <1>5. x % Slots = IF x < Slots THEN x ELSE x - Slots
    BY <1>2, <1>4, Around
  <1>6. RW!InFrontBlock = x % Slots
    BY <1>3 DEF RW!InFrontBlock
  <1> QED BY <1>2, <1>3, <1>5, <1>6 DEF Holds, Gap

\* The value of the n-th slot behind the one in front.
LEMMA ItemFact ==
  ASSUME RingInv, NEW n \in Nat, n < enqueued - dequeued, ~(cpc = "release" /\ n = 0)
  PROVE  RW!Item(n) = dequeued + n
  <1> DEFINE H == Holds(frontBlock)  A == Ahead(tailBlock)
  <1>1. /\ RingShape /\ frontBlock \in RW!Block /\ tailBlock \in RW!Block
        /\ dequeued \in Nat /\ enqueued \in Nat
        /\ Slots \in Nat /\ Slots > 1 /\ Ring \in Nat \ {0} /\ RW!Block = 0 .. Ring - 1
        /\ Most \in Nat \ {0} /\ Most = Slots - 1
    BY RingNext DEF RingInv, RingShape, Most
  <1>2. /\ H \in 0 .. Most /\ A \in 0 .. Ring - 1 /\ (A = 0 <=> tailBlock = frontBlock)
        /\ Holds(tailBlock) \in 0 .. Most
    BY <1>1, RingFacts
  <1>3. RW!InFrontBlock = H
    BY <1>1, HoldsFact
  <1>4. CASE n < H
    <2> DEFINE i == (front[frontBlock] + n) % Slots
    <2>1. RW!Item(n) = data[frontBlock][i]
      BY <1>1, <1>2, <1>3, <1>4 DEF RW!Item, RW!InBlock
    <2>2. front[frontBlock] \in Cells /\ n \in 0 .. Most
      BY <1>1, <1>2, <1>4 DEF RingShape
    <2>3. i \in Cells /\ Gap(front[frontBlock], i) = n
      BY <2>2, SlotAt
    <2>4. n # 0 => i # front[frontBlock]
      BY <2>2, <2>3, GapFacts
    <2>5. Ahead(frontBlock) = 0 /\ Before(frontBlock) = dequeued
      BY <1>1, RingFacts DEF Before
    <2>6. data[frontBlock][i] = Before(frontBlock) + Gap(front[frontBlock], i)
      BY <1>1, <1>2, <1>4, <2>3, <2>4, <2>5 DEF RingInv, RingData
    <2> QED BY <2>1, <2>3, <2>5, <2>6
  <1>5. CASE n >= H
    <2> DEFINE k == n - H  q == k \div Most  r == k % Most
    <2>1. k \in Nat
      BY <1>1, <1>2, <1>5
    <2>2. r \in 0 .. Most - 1 /\ k = Most * q + r /\ q \in Nat
      BY <2>1, <1>1, Division
    <2> HIDE DEF q, r
    <2>3. enqueued = Before(tailBlock) + Holds(tailBlock)
      BY DEF RingInv, RingCount
    <2>4. tailBlock # frontBlock
      BY <1>1, <1>2, <1>5, <2>3 DEF Before
    <2>5. A \in 1 .. Ring - 1 /\ A - 1 \in Nat
      BY <1>1, <1>2, <2>4
    <2>6. k < (A - 1) * Most + Holds(tailBlock)
      <3>1. Before(tailBlock) = dequeued + H + (A - 1) * Most
        BY <2>4 DEF Before
      <3>2. PICK z \in Int : z = (A - 1) * Most
        BY <2>5, <1>1
      <3>3. enqueued = dequeued + H + z + Holds(tailBlock)
        BY <2>3, <3>1, <3>2
      <3>4. PICK h \in Int, g \in Int : h = H /\ g = Holds(tailBlock)
        BY <1>1, <1>2
      <3>5. enqueued = dequeued + h + z + g
        BY <3>3, <3>4
      <3>6. n - h < z + g
        BY <1>1, <3>5
      <3> QED BY <3>2, <3>4, <3>6
    <2>7. (A - 1) * Most = Most * (A - 1) /\ Most * (A - 1) \in Nat /\ Most * A = Most * (A - 1) + Most
      BY <1>1, <2>5
    <2>8. q <= A - 1
      <3> SUFFICES ASSUME q >= A PROVE FALSE
        BY <2>2, <2>5
      <3>1. A \in Nat /\ Most \in Nat /\ q \in Nat /\ A <= q
        BY <1>1, <2>2, <2>5
      <3>2. Most * A <= Most * q
        BY <3>1, Monotone
      <3>3. PICK x \in Nat : x = Most * (A - 1)
        BY <2>7
      <3>4. k < x + Holds(tailBlock) /\ x + Most <= Most * q
        BY <2>6, <2>7, <3>2, <3>3
      <3>5. PICK y \in Nat : y = Most * q
        BY <3>1
      <3>6. k = y + r /\ x + Most <= y
        BY <2>2, <3>4, <3>5
      <3>7. PICK g \in Int : g = Holds(tailBlock) /\ g <= Most
        BY <1>1, <1>2
      <3>8. y + r < x + g
        BY <3>4, <3>6, <3>7
      <3> QED BY <1>1, <2>2, <3>3, <3>5, <3>6, <3>7, <3>8
    <2>9. q = A - 1 => r < Holds(tailBlock)
      <3>1. PICK x \in Nat : x = Most * (A - 1)
        BY <2>7
      <3>2. k < x + Holds(tailBlock)
        BY <2>6, <2>7, <3>1
      <3>3. q = A - 1 => k = x + r
        BY <2>2, <3>1
      <3> QED BY <1>2, <2>1, <2>2, <3>1, <3>2, <3>3
    <2> DEFINE b == (frontBlock + 1 + q) % Ring
    <2>10. /\ b = IF frontBlock + 1 + q < Ring THEN frontBlock + 1 + q ELSE frontBlock + 1 + q - Ring
           /\ b \in RW!Block
      <3>1. frontBlock + 1 + q \in 0 .. Ring + Ring - 1
        BY <1>1, <2>2, <2>5, <2>8
      <3>2. PICK x \in Int : x = frontBlock + 1 + q
        BY <3>1
      <3>3. x % Ring = IF x < Ring THEN x ELSE x - Ring
        BY <1>1, <3>1, <3>2, Around
      <3>4. b = IF frontBlock + 1 + q < Ring THEN frontBlock + 1 + q ELSE frontBlock + 1 + q - Ring
        BY <1>1, <2>2, <3>2, <3>3 DEF b
      <3> QED BY <1>1, <2>2, <2>5, <2>8, <3>4
    <2> HIDE DEF b
    <2>11. Ahead(b) = q + 1 /\ b # frontBlock
      BY <1>1, <2>2, <2>5, <2>8, <2>10 DEF Ahead
    <2>12. q = A - 1 => b = tailBlock
      <3>1. q = A - 1 => Ahead(b) = Ahead(tailBlock)
        BY <2>2, <2>5, <2>11
      <3> QED BY <1>1, <2>10, <3>1, RingFacts
    <2>13. r < Holds(b)
      <3>1. CASE q = A - 1
        BY <3>1, <2>9, <2>12
      <3>2. CASE q < A - 1
        <4>1. Ahead(b) < Ahead(tailBlock)
          BY <3>2, <2>2, <2>5, <2>11
        <4>2. Holds(b) = Most
          BY <4>1, <2>10, <2>11 DEF RingInv, RingBlocks
        <4> QED BY <4>2, <2>2, <1>1
      <3> QED BY <3>1, <3>2, <2>2, <2>5, <2>8
    <2> DEFINE i == (front[b] + r) % Slots
    <2>14. front[b] \in Cells /\ r \in 0 .. Most
      BY <1>1, <2>2, <2>10 DEF RingShape
    <2>15. i \in Cells /\ Gap(front[b], i) = r
      BY <2>14, SlotAt
    <2>16. RW!Item(n) = data[b][i]
      <3>1. RW!Item(n) = RW!InBlock((frontBlock + 1 + (k \div (Slots - 1))) % Ring, k % (Slots - 1))
        BY <1>1, <1>2, <1>3, <1>5 DEF RW!Item
      <3> QED BY <3>1, <1>1 DEF RW!InBlock, b, q, r
    <2>17. data[b][i] = Before(b) + Gap(front[b], i)
      <3>1. Ahead(b) <= Ahead(tailBlock)
        BY <2>2, <2>5, <2>8, <2>11
      <3> QED BY <3>1, <2>10, <2>11, <2>13, <2>15 DEF RingInv, RingData
    <2>18. Before(b) = dequeued + H + q * Most
      BY <2>11, <2>2 DEF Before
    <2>19. q * Most = Most * q /\ Most * q \in Nat
      BY <1>1, <2>2
    <2>20. PICK x \in Nat : x = Most * q
      BY <2>19
    <2>21. PICK h \in Int : h = H
      BY <1>1, <1>2
    <2>22. RW!Item(n) = dequeued + h + x + r /\ n - h = x + r
      <3>1. RW!Item(n) = Before(b) + r
        BY <2>15, <2>16, <2>17
      <3>2. Before(b) = dequeued + h + x
        BY <2>18, <2>19, <2>20, <2>21
      <3>3. n - h = x + r
        BY <2>2, <2>20, <2>21
      <3> QED BY <3>1, <3>2, <3>3
    <2> QED BY <1>1, <2>2, <2>20, <2>21, <2>22
  <1> QED BY <1>1, <1>2, <1>4, <1>5

\* The number of the first value in the queue.
First == IF cpc = "release" THEN dequeued + 1 ELSE dequeued

LEMMA FirstFact ==
  ASSUME RingInv
  PROVE  /\ First \in Nat /\ enqueued \in Nat /\ First <= enqueued
         /\ cpc = "read" => First < enqueued
  <1>1. /\ RingShape /\ frontBlock \in RW!Block /\ tailBlock \in RW!Block
        /\ dequeued \in Nat /\ enqueued \in Nat /\ Most \in Nat \ {0}
        /\ front[frontBlock] \in Cells /\ localTail[frontBlock] \in Cells
    BY RingNext DEF RingInv, RingShape, Most
  <1>2. /\ Holds(frontBlock) \in Nat /\ Holds(tailBlock) \in Nat
        /\ Ahead(tailBlock) \in Nat /\ (Ahead(tailBlock) = 0 <=> tailBlock = frontBlock)
    BY <1>1, RingFacts DEF Most
  <1>3. enqueued >= dequeued + Holds(frontBlock)
    <2>1. enqueued = Before(tailBlock) + Holds(tailBlock)
      BY DEF RingInv, RingCount
    <2>2. CASE tailBlock = frontBlock
      BY <1>1, <1>2, <2>1, <2>2 DEF Before
    <2>3. CASE tailBlock # frontBlock
      <3>1. Ahead(tailBlock) - 1 \in Nat
        BY <1>2, <2>3
      <3>2. PICK z \in Nat : z = (Ahead(tailBlock) - 1) * Most
        BY <1>1, <3>1
      <3>3. enqueued = dequeued + Holds(frontBlock) + z + Holds(tailBlock)
        BY <2>1, <2>3, <3>2 DEF Before
      <3> QED BY <1>1, <1>2, <3>2, <3>3
    <2> QED BY <2>2, <2>3
  <1>4. cpc \in {"read", "release"} => Holds(frontBlock) > 0
    <2>1. /\ Gap(front[frontBlock], localTail[frontBlock]) <= Holds(frontBlock)
          /\ cpc \in {"read", "release"} => localTail[frontBlock] # front[frontBlock]
      BY DEF RingInv, RingConsumer
    <2>2. /\ Gap(front[frontBlock], localTail[frontBlock]) \in Nat
          /\ Gap(front[frontBlock], localTail[frontBlock]) = 0 <=>
               front[frontBlock] = localTail[frontBlock]
      BY <1>1, GapFacts DEF Most
    <2> QED BY <1>2, <2>1, <2>2
  <1> QED BY <1>1, <1>2, <1>3, <1>4 DEF First

\* What the circle holds, in the order of the circle, is what was enqueued, in order.
ItemsInv == RW!Items = [k \in 1 .. enqueued - First |-> First + k - 1]

LEMMA ItemsFact == RingInv => ItemsInv
  <1> SUFFICES ASSUME RingInv PROVE ItemsInv
    OBVIOUS
  <1> DEFINE moved == IF cpc = "release" THEN 1 ELSE 0
  <1>1. dequeued \in Nat /\ enqueued \in Nat /\ moved \in {0, 1} /\ First = dequeued + moved
    BY DEF RingInv, RingShape, First
  <1>2. RW!Items = [k \in 1 .. enqueued - dequeued - moved |-> RW!Item(k + moved - 1)]
    BY DEF RW!Items
  <1>3. ASSUME NEW k \in 1 .. enqueued - First
        PROVE  RW!Item(k + moved - 1) = First + k - 1
    <2>1. PICK n : n = k + moved - 1
      OBVIOUS
    <2>2. n \in Nat /\ n < enqueued - dequeued /\ ~(cpc = "release" /\ n = 0)
      BY <1>1, <1>3, <2>1
    <2>3. RW!Item(n) = dequeued + n
      BY <2>2, ItemFact
    <2> QED BY <1>1, <1>3, <2>1, <2>3
  <1>4. enqueued - dequeued - moved = enqueued - First
    BY <1>1
  <1> HIDE DEF moved
  <1> QED BY <1>2, <1>3, <1>4 DEF ItemsInv

\* A producer that is about to store the tail, or the tail block, has room.
LEMMA ItemsRoom ==
  ASSUME RingInv, ppc \in {"publish", "advance"}
  PROVE  enqueued - First < Ring * (Slots - 1)
  <1> DEFINE A == Ahead(tailBlock)  H == Holds(frontBlock)  T == Holds(tailBlock)
  <1>1. /\ RingShape /\ frontBlock \in RW!Block /\ tailBlock \in RW!Block
        /\ dequeued \in Nat /\ enqueued \in Nat /\ Most \in Nat \ {0} /\ Ring \in Nat \ {0}
        /\ Most = Slots - 1
    BY RingNext DEF RingInv, RingShape, Most
  <1>2. /\ H \in 0 .. Most /\ T \in 0 .. Most
        /\ A \in 0 .. Ring - 1 /\ (A = 0 <=> tailBlock = frontBlock)
    BY <1>1, RingFacts
  <1>3. ppc = "publish" => T < Most
    <2>1. /\ Gap(localFront[tailBlock], tail[tailBlock]) >= T
          /\ ppc = "publish" => Gap(localFront[tailBlock], tail[tailBlock]) < Most
      BY DEF RingInv, RingProducer
    <2>2. localFront[tailBlock] \in Cells /\ tail[tailBlock] \in Cells
      BY <1>1 DEF RingShape
    <2>3. Gap(localFront[tailBlock], tail[tailBlock]) \in 0 .. Most
      BY <2>2, GapFacts
    <2> QED BY <1>1, <1>2, <2>1, <2>3
  <1>4. ppc = "advance" => A + 1 <= Ring - 1
    <2>1. ppc = "advance" => RW!NextBlock(tailBlock) # frontBlock
      BY DEF RingInv, RingProducer, Following
    <2>2. RW!NextBlock(tailBlock) \in RW!Block
      BY <1>1, RingFacts
    <2>3. Ahead(RW!NextBlock(tailBlock)) \in 0 .. Ring - 1
      BY <1>1, <2>2, RingFacts
    <2>4. RW!NextBlock(tailBlock) # frontBlock => Ahead(RW!NextBlock(tailBlock)) = A + 1
      BY <1>1, RingFacts
    <2> QED BY <1>1, <1>2, <2>1, <2>3, <2>4
  <1>5. enqueued = Before(tailBlock) + T
    BY DEF RingInv, RingCount
  <1>6. First \in Nat /\ First >= dequeued
    BY <1>1 DEF First
  <1>7. PICK m \in Nat : m = Most * A
    BY <1>1, <1>2
  <1>8. Most * (A + 1) = m + Most
    BY <1>1, <1>2, <1>7
  <1>9. enqueued - dequeued <= m + T
    <2>1. CASE tailBlock = frontBlock
      BY <1>1, <1>2, <1>5, <1>7, <2>1 DEF Before
    <2>2. CASE tailBlock # frontBlock
      <3>1. (A - 1) * Most = m - Most
        BY <1>1, <1>2, <1>7
      <3>2. enqueued = dequeued + H + (m - Most) + T
        BY <1>5, <2>2, <3>1 DEF Before
      <3> QED BY <1>1, <1>2, <1>7, <3>2
    <2> QED BY <2>1, <2>2
  <1>10. Ring * (Slots - 1) = Most * Ring /\ Most * Ring \in Nat
    BY <1>1
  <1>11. CASE ppc = "publish"
    <2>1. A + 1 \in Nat /\ A + 1 <= Ring /\ Most \in Nat /\ Ring \in Nat
      BY <1>1, <1>2
    <2>2. Most * (A + 1) <= Most * Ring
      BY <2>1, Monotone
    <2>3. m + Most <= Most * Ring
      BY <1>8, <2>2
    <2> QED BY <1>1, <1>2, <1>3, <1>6, <1>9, <1>10, <1>11, <2>3
  <1>12. CASE ppc = "advance"
    <2>1. A + 2 \in Nat /\ A + 2 <= Ring /\ Most \in Nat /\ Ring \in Nat
      BY <1>1, <1>2, <1>4, <1>12
    <2>2. Most * (A + 2) <= Most * Ring
      BY <2>1, Monotone
    <2>3. Most * (A + 2) = m + Most + Most
      BY <1>1, <1>2, <1>7
    <2>4. m + Most + Most <= Most * Ring
      BY <2>2, <2>3
    <2>5. PICK w \in Nat : w = Most * Ring
      BY <1>10
    <2>6. m + Most + Most <= w /\ Ring * (Slots - 1) = w
      BY <1>10, <2>4, <2>5
    <2>7. m \in Nat
      BY <1>7
    <2>8. enqueued - dequeued <= m + Most
      BY <1>1, <1>2, <1>9, <2>7
    <2>9. enqueued - First <= enqueued - dequeued
      BY <1>1, <1>6
    <2>10. enqueued - First < m + Most + Most
      <3>1. Most \in Nat \ {0} /\ enqueued \in Nat /\ dequeued \in Nat
        BY <1>1
      <3> QED BY <3>1, <1>6, <2>7, <2>8, <2>9
    <2>11. enqueued - First < w
      BY <1>1, <1>6, <2>5, <2>6, <2>7, <2>10
    <2> QED BY <2>6, <2>11
  <1> QED BY <1>11, <1>12

\* The bound of the model: nobody begins to enqueue beyond it.
RingBound == enqueued <= MaxValues /\ (ppc # "idle" => enqueued < MaxValues)

LEMMA RingBoundAlways == LibrarySpec => [](RingInv /\ RingBound)
  <1>1. LibraryInit => RingBound
    BY LibraryAssumption DEF LibraryInit, RW!Init, RingBound, RW!RwAssumption
  <1>2. RingInv /\ RingBound /\ [LibraryNext]_libraryVars => RingBound'
    <2> SUFFICES ASSUME RingInv, RingBound, [LibraryNext]_libraryVars PROVE RingBound'
      OBVIOUS
    <2>1. enqueued \in Nat /\ MaxValues \in Nat
      BY LibraryAssumption DEF RingInv, RingShape, RW!RwAssumption
    <2>2. CASE RW!TryEnqueue
      BY <2>1, <2>2 DEF RingBound, RW!TryEnqueue, RW!BeginEnqueue, RW!RefreshFront, RW!Write, RW!Publish,
         RW!Full, RW!EnqueueFails, RW!ReadNextFront, RW!WriteNext, RW!PublishNext, RW!AdvanceTail
    <2>3. CASE RW!TryDequeue \/ UNCHANGED rwVars
      BY <2>3 DEF RingBound, rwVars, RW!TryDequeue, RW!ConsumerOnly, RW!BeginDequeue, RW!RefreshTail,
         RW!Empty, RW!DequeueFails, RW!ReadNextTail, RW!AdvanceFront, RW!Read, RW!Release
    <2>4. [RW!Next]_rwVars
      BY DEF LibraryNext, libraryVars, ConcurrentQueueStep, ReaderWriterQueueStep, MpscQueueStep,
             CarryStep, Others
    <2> QED BY <2>2, <2>3, <2>4 DEF RW!Next
  <1> QED BY <1>1, <1>2, RingAlways, PTL DEF LibrarySpec

\* How each step moves the ends of the queue.
LEMMA RingEnds ==
  ASSUME RingInv, RW!Next
  PROVE  \/ UNCHANGED <<enqueued, First>>
         \/ ppc \in {"publish", "advance"} /\ enqueued' = enqueued + 1 /\ UNCHANGED First
         \/ cpc = "read" /\ First' = First + 1 /\ UNCHANGED enqueued
  <1>1. dequeued \in Nat /\ enqueued \in Nat
    BY DEF RingInv, RingShape
  <1>2. CASE RW!TryEnqueue
    BY <1>1, <1>2 DEF First, RW!TryEnqueue, RW!BeginEnqueue, RW!RefreshFront, RW!Write, RW!Publish,
       RW!Full, RW!EnqueueFails, RW!ReadNextFront, RW!WriteNext, RW!PublishNext, RW!AdvanceTail, RW!consumerVars
  <1>3. CASE RW!TryDequeue
    BY <1>1, <1>3 DEF First, RW!TryDequeue, RW!ConsumerOnly, RW!BeginDequeue, RW!RefreshTail,
       RW!Empty, RW!DequeueFails, RW!ReadNextTail, RW!AdvanceFront, RW!Read, RW!Release
  <1> QED BY <1>2, <1>3 DEF RW!Next

\* What a step does to the queue.
LEMMA RingStepMaps ==
  ASSUME RingInv, RingInv', RingBound, RW!Next
  PROVE  RW!Fifo!FStep
  <1>1. /\ RW!Items = [k \in 1 .. enqueued - First |-> First + k - 1]
        /\ RW!Items' = [k \in 1 .. enqueued' - First' |-> First' + k - 1]
    <2>1. ItemsInv /\ ItemsInv'
      BY ItemsFact, PTL
    <2> QED BY <2>1 DEF ItemsInv
  <1>2. /\ First \in Nat /\ enqueued \in Nat /\ First <= enqueued
        /\ cpc = "read" => First < enqueued
    BY FirstFact
  <1>3. RW!Items \in [1 .. enqueued - First -> Nat] /\ enqueued - First \in Nat
    BY <1>1, <1>2
  <1>4. RW!Items \in Seq(Nat) /\ Len(RW!Items) = enqueued - First
    BY <1>3
  <1>5. CASE UNCHANGED <<enqueued, First>>
    <2>1. UNCHANGED RW!Items
      BY <1>1, <1>5
    <2> QED BY <2>1 DEF RW!Fifo!FStep, RW!Fifo!fvars
  <1>6. CASE ppc \in {"publish", "advance"} /\ enqueued' = enqueued + 1 /\ UNCHANGED First
    <2>1. RW!Items' = Append(RW!Items, enqueued)
      BY <1>1, <1>2, <1>4, <1>6
    <2>2. Len(RW!Items) < Ring * (Slots - 1)
      BY <1>4, <1>6, ItemsRoom
    <2>3. enqueued \in 0 .. MaxValues
      BY <1>2, LibraryAssumption DEF RingBound, RW!RwAssumption
    <2>4. RW!Fifo!Put(enqueued)
      BY <2>1, <2>2 DEF RW!Fifo!Put
    <2> QED BY <2>3, <2>4 DEF RW!Fifo!FStep, RW!Fifo!FNext
  <1>7. CASE cpc = "read" /\ First' = First + 1 /\ UNCHANGED enqueued
    <2>1. First < enqueued /\ enqueued' - First' = enqueued - First - 1
      BY <1>2, <1>7
    <2>2. RW!Items # <<>> /\ RW!Items' = Tail(RW!Items)
      <3>1. PICK s \in Seq(Nat) : s = RW!Items
        BY <1>4
      <3>2. /\ Len(s) = enqueued - First /\ s # <<>>
            /\ \A k \in 1 .. enqueued - First : s[k] = First + k - 1
        BY <1>1, <1>2, <1>4, <2>1, <3>1
      <3>3. /\ Tail(s) \in Seq(Nat) /\ Len(Tail(s)) = enqueued - First - 1
            /\ \A k \in 1 .. enqueued - First - 1 : Tail(s)[k] = First + k
        BY <1>2, <2>1, <3>2
      <3>4. PICK t : t = RW!Items'
        OBVIOUS
      <3>5. t = [k \in 1 .. enqueued - First - 1 |-> First + k]
        BY <1>1, <1>2, <1>7, <2>1, <3>4
      <3>6. /\ t \in Seq(Nat) /\ Len(t) = enqueued - First - 1
            /\ \A k \in 1 .. enqueued - First - 1 : t[k] = First + k
        BY <1>2, <2>1, <3>5
      <3>7. t = Tail(s)
        BY <3>3, <3>6
      <3> QED BY <3>1, <3>2, <3>4, <3>7
    <2>3. RW!Fifo!Get
      BY <2>2 DEF RW!Fifo!Get
    <2> QED BY <2>3 DEF RW!Fifo!FStep, RW!Fifo!FNext
  <1> QED BY <1>5, <1>6, <1>7, RingEnds

\* The reader-writer queue implements BoundedFifo for any number and size of blocks:
\* whatever the copies of indices and the circle of blocks do, its two users see a
\* queue (moodycamel_readerwriter_queue.hpp).
THEOREM RingImplementsFifo == LibrarySpec => FifoSpec
  <1>1. LibraryInit => RW!Fifo!FInit
    <2> SUFFICES ASSUME RW!Init PROVE RW!Fifo!FInit
      BY DEF LibraryInit
    <2>1. enqueued = 0 /\ dequeued = 0 /\ cpc = "idle"
      BY DEF RW!Init
    <2>2. RW!Items = <<>>
      BY <2>1 DEF RW!Items
    <2> QED BY <2>2 DEF RW!Fifo!FInit
  <1>2. /\ RingInv /\ RingInv' /\ RingBound /\ [LibraryNext]_libraryVars
        => [playing = "ReaderWriterQueue" => RW!Fifo!FStep]_rwVars
    <2> SUFFICES ASSUME RingInv, RingInv', RingBound, [LibraryNext]_libraryVars,
                        playing = "ReaderWriterQueue", rwVars' # rwVars
                 PROVE  RW!Fifo!FStep
      OBVIOUS
    <2>1. RW!Next
      BY DEF LibraryNext, libraryVars, ConcurrentQueueStep, ReaderWriterQueueStep, MpscQueueStep,
             CarryStep, Others
    <2> QED BY <2>1, RingStepMaps
  <1> QED BY <1>1, <1>2, RingBoundAlways, PTL DEF LibrarySpec, FifoSpec

-----------------------------------------------------------------------------
(* The MPSC queue.                                                          *)

LEMMA MpscSets ==
  /\ IsFiniteSet(Nodes) /\ Nobody \notin Nodes
  /\ MQ!Cardinality(Nodes) = Cardinality(Nodes) /\ Cardinality(Nodes) \in Nat
  <1>1. MQ!IsFiniteSet(Nodes) = IsFiniteSet(Nodes)
    BY DEF MQ!IsFiniteSet, IsFiniteSet
  <1>2. MQ!Cardinality(Nodes) = Cardinality(Nodes)
    BY DEF MQ!Cardinality, Cardinality
  <1> QED BY <1>1, <1>2, LibraryAssumption, FS_CardinalityType DEF MQ!MpscAssumption

Distinct(q) == \A x, y \in 1 .. Len(q) : q[x] = q[y] => x = y

\* The nodes in the order in which they were put, and how they are linked: the first
\* i are acquired, those up to j are left of the stack that is being turned round,
\* those up to k are turned round, the others are on the stack.
Linked(q, i, j, k) ==
  /\ q \in Seq(Nodes) /\ i \in Nat /\ j \in Nat /\ k \in Nat
  /\ i <= j /\ j <= k /\ k <= Len(q)
  /\ Distinct(q)
  /\ \A x \in 1 .. Len(q) :
       /\ q[x] \notin idle /\ \A p \in Producers : node[p] # q[x]
       /\ x < i => next[q[x]] = q[x + 1]
       /\ i < x /\ x <= j => next[q[x]] = IF x = i + 1 THEN Nobody ELSE q[x - 1]
       /\ j < x /\ x < k => next[q[x]] = q[x + 1]
       /\ k < x => next[q[x]] = IF x = k + 1 THEN Nobody ELSE q[x - 1]
  /\ acq = IF i = 0 THEN MQ!Empty ELSE [head |-> q[1], tail |-> q[i]]
  /\ popped = IF j = i THEN Nobody ELSE q[j]
  /\ res = IF k = j THEN MQ!Empty ELSE [head |-> q[j + 1], tail |-> q[k]]
  /\ head = IF k = Len(q) THEN Nobody ELSE q[Len(q)]
  /\ taking # "relink" => i = j /\ j = k
  /\ taking = "relink" => i = 0

\* A node that is about to be exchanged for the head points to the head that was read.
MpscShape ==
  /\ next \in [Nodes -> Nodes \cup {Nobody}]
  /\ idle \subseteq Nodes
  /\ putting \in [Producers -> {"idle", "link", "exchange"}]
  /\ node \in [Producers -> Nodes \cup {Nobody}]
  /\ seen \in [Producers -> Nodes \cup {Nobody}]
  /\ head \in Nodes \cup {Nobody}
  /\ \A p \in Producers :
       /\ putting[p] # "idle" => node[p] \in Nodes
       /\ putting[p] = "exchange" => next[node[p]] = seen[p]
       /\ node[p] \notin idle
  /\ \A p, o \in Producers : node[p] = node[o] /\ node[p] # Nobody => p = o

-----------------------------------------------------------------------------
(* The chains of links are the parts of the queue.                          *)

LEMMA LeastNumber ==
  ASSUME NEW T, T \subseteq Nat, T # {}
  PROVE  \E x \in T : \A y \in T : x <= y
  <1>1. \E x \in T : \A y \in T : ~ (<<y, x>> \in OpToRel(<, Nat))
    BY NatLessThanWellFounded, WFMin
  <1>2. \E x \in T : \A y \in T : ~(y < x)
    BY <1>1 DEF OpToRel
  <1> QED BY <1>2

\* A chain of links is any sequence that begins where it does and follows the links.
FollowsLinks(s, from, to) ==
  /\ s \in Seq(Nodes) /\ Len(s) <= Cardinality(Nodes)
  /\ from = IF s = <<>> THEN Nobody ELSE s[1]
  /\ \A x \in 1 .. Len(s) - 1 : s[x] # to /\ next[s[x]] = s[x + 1]
  /\ s # <<>> => s[Len(s)] = to \/ next[s[Len(s)]] = Nobody

LEMMA ChainIs ==
  ASSUME NEW from, NEW to, NEW s, FollowsLinks(s, from, to)
  PROVE  MQ!Chain(from, to) = s
  <1> USE DEF FollowsLinks
  <1> DEFINE N == MQ!Cardinality(Nodes) + 1
             Follows(r) == r = [k \in 1 .. N |->
                                  IF k = 1 THEN from
                                  ELSE IF r[k - 1] \in {Nobody, to} THEN Nobody ELSE next[r[k - 1]]]
             g == [k \in 1 .. N |-> IF k <= Len(s) THEN s[k] ELSE Nobody]
             Ends(n, r) == \A k \in 1 .. N : r[k] # Nobody <=> k <= n
             reach == CHOOSE r : Follows(r)
             length == CHOOSE n \in 0 .. N : Ends(n, reach)
  <1>1. /\ N \in Nat /\ Len(s) \in Nat /\ Len(s) < N /\ Nobody \notin Nodes
        /\ \A k \in 1 .. Len(s) : s[k] \in Nodes
    BY MpscSets
  <1>2. Follows(g)
    <2> HIDE DEF N
    <2> SUFFICES ASSUME NEW k \in 1 .. N
                 PROVE  g[k] = IF k = 1 THEN from
                               ELSE IF g[k - 1] \in {Nobody, to} THEN Nobody ELSE next[g[k - 1]]
      OBVIOUS
    <2>1. CASE k = 1
      BY <1>1, <2>1
    <2>2. CASE k # 1 /\ k <= Len(s)
      <3>1. k - 1 \in 1 .. Len(s) - 1 /\ k - 1 \in 1 .. N /\ k - 1 <= Len(s)
        BY <1>1, <2>2
      <3>2. g[k - 1] = s[k - 1] /\ g[k] = s[k] /\ s[k - 1] \in Nodes
        BY <1>1, <2>2, <3>1
      <3>3. s[k - 1] # to /\ next[s[k - 1]] = s[(k - 1) + 1] /\ (k - 1) + 1 = k
        BY <3>1
      <3> QED BY <1>1, <2>2, <3>2, <3>3
    <2>3. CASE k # 1 /\ k = Len(s) + 1
      <3>1. k - 1 = Len(s) /\ k - 1 \in 1 .. N /\ s # <<>>
        BY <1>1, <2>3
      <3>2. g[k - 1] = s[Len(s)] /\ g[k] = Nobody
        BY <1>1, <2>3, <3>1
      <3> QED BY <2>3, <3>1, <3>2
    <2>4. CASE k # 1 /\ k > Len(s) + 1
      <3>1. k - 1 \in 1 .. N /\ ~(k - 1 <= Len(s)) /\ ~(k <= Len(s))
        BY <1>1, <2>4
      <3>2. g[k - 1] = Nobody /\ g[k] = Nobody
        BY <3>1
      <3> QED BY <2>4, <3>2
    <2> QED BY <1>1, <2>1, <2>2, <2>3, <2>4
  <1>3. ASSUME NEW f, Follows(f) PROVE f = g
    <2> HIDE DEF N
    <2>1. /\ DOMAIN f = 1 .. N /\ DOMAIN g = 1 .. N
          /\ f = [k \in 1 .. N |-> f[k]] /\ g = [k \in 1 .. N |-> g[k]]
      BY <1>3
    <2> DEFINE T == {k \in 1 .. N : f[k] # g[k]}
    <2>2. SUFFICES ASSUME T # {} PROVE FALSE
      BY <2>1
    <2>3. T \subseteq Nat
      OBVIOUS
    <2>4. PICK m \in T : \A y \in T : m <= y
      BY <2>2, <2>3, LeastNumber
    <2>5. m # 1
      BY <1>1, <1>2, <1>3, <2>4
    <2>6. m - 1 \in 1 .. N /\ m - 1 \notin T
      BY <1>1, <2>4, <2>5
    <2>7. f[m - 1] = g[m - 1]
      BY <2>6
    <2>8. /\ f[m] = IF f[m - 1] \in {Nobody, to} THEN Nobody ELSE next[f[m - 1]]
          /\ g[m] = IF g[m - 1] \in {Nobody, to} THEN Nobody ELSE next[g[m - 1]]
      <3> HIDE DEF g
      <3> QED BY <1>2, <1>3, <2>4, <2>5
    <2> QED BY <2>4, <2>7, <2>8
  <1>4. reach = g
    <2> HIDE DEF g, Follows
    <2> QED BY <1>2, <1>3
  <1>5. Len(s) \in 0 .. N /\ Ends(Len(s), g) /\ \A n \in 0 .. N : Ends(n, g) => n = Len(s)
    <2> HIDE DEF N
    <2>1. \A k \in 1 .. N : g[k] # Nobody <=> k <= Len(s)
      BY <1>1
    <2>2. ASSUME NEW n \in 0 .. N, Ends(n, g) PROVE n = Len(s)
      <3> HIDE DEF g
      <3>1. n > Len(s) => n \in 1 .. N /\ ~(n <= Len(s))
        BY <1>1
      <3>2. n < Len(s) => Len(s) \in 1 .. N /\ ~(Len(s) <= n)
        BY <1>1
      <3> QED BY <1>1, <2>1, <2>2, <3>1, <3>2
    <2> QED BY <1>1, <2>1, <2>2
  <1>6. length = Len(s)
    <2> HIDE DEF g, Ends, N, reach
    <2> QED BY <1>4, <1>5
  <1>7. MQ!Chain(from, to) = [k \in 1 .. length |-> reach[k]]
    BY DEF MQ!Chain
  <1>8. [k \in 1 .. Len(s) |-> g[k]] = s
    BY <1>1
  <1> HIDE DEF reach, length, g
  <1> QED BY <1>4, <1>6, <1>7, <1>8

\* The members of q after the first a, up to the b-th, in their order or turned round.
Slice(q, a, b) == [x \in 1 .. b - a |-> q[a + x]]
Turned(q, a, b) == [x \in 1 .. b - a |-> q[b + 1 - x]]

LEMMA SliceFacts ==
  ASSUME NEW q \in Seq(Nodes), NEW a \in Nat, NEW b \in Nat, a <= b, b <= Len(q)
  PROVE  /\ Slice(q, a, b) \in Seq(Nodes) /\ Len(Slice(q, a, b)) = b - a
         /\ Turned(q, a, b) \in Seq(Nodes) /\ Len(Turned(q, a, b)) = b - a
         /\ MQ!Reverse(Turned(q, a, b)) = Slice(q, a, b)
  <1>1. \A x \in 1 .. b - a : q[a + x] \in Nodes /\ q[b + 1 - x] \in Nodes
    BY DEF Slice
  <1>2. Slice(q, a, b) \in Seq(Nodes) /\ Len(Slice(q, a, b)) = b - a
    BY <1>1 DEF Slice
  <1>3. Turned(q, a, b) \in Seq(Nodes) /\ Len(Turned(q, a, b)) = b - a
    BY <1>1 DEF Turned
  <1>4. ASSUME NEW x \in 1 .. b - a
        PROVE  Turned(q, a, b)[(b - a - x) + 1] = q[a + x]
    <2>1. (b - a - x) + 1 \in 1 .. b - a /\ b + 1 - ((b - a - x) + 1) = a + x
      OBVIOUS
    <2> QED BY <2>1 DEF Turned
  <1>5. MQ!Reverse(Turned(q, a, b)) = Slice(q, a, b)
    BY <1>3, <1>4 DEF MQ!Reverse, Slice
  <1> QED BY <1>2, <1>3, <1>5

LEMMA SlicesJoin ==
  ASSUME NEW q \in Seq(Nodes), NEW a \in Nat, NEW b \in Nat, NEW c \in Nat,
         a <= b, b <= c, c <= Len(q)
  PROVE  Slice(q, a, b) \o Slice(q, b, c) = Slice(q, a, c)
  <1> DEFINE A == Slice(q, a, b)  B == Slice(q, b, c)  C == Slice(q, a, c)
  <1>1. /\ A \in Seq(Nodes) /\ Len(A) = b - a /\ \A x \in 1 .. b - a : A[x] = q[a + x]
        /\ B \in Seq(Nodes) /\ Len(B) = c - b /\ \A x \in 1 .. c - b : B[x] = q[b + x]
        /\ C \in Seq(Nodes) /\ Len(C) = c - a /\ \A x \in 1 .. c - a : C[x] = q[a + x]
    <2>1. a <= c /\ b <= Len(q)
      OBVIOUS
    <2>2. A \in Seq(Nodes) /\ Len(A) = b - a /\ \A x \in 1 .. b - a : A[x] = q[a + x]
      <3>1. A \in Seq(Nodes) /\ Len(A) = b - a
        BY <2>1, SliceFacts
      <3> QED BY <3>1 DEF Slice
    <2>3. B \in Seq(Nodes) /\ Len(B) = c - b /\ \A x \in 1 .. c - b : B[x] = q[b + x]
      <3>1. B \in Seq(Nodes) /\ Len(B) = c - b
        BY <2>1, SliceFacts
      <3> QED BY <3>1 DEF Slice
    <2>4. C \in Seq(Nodes) /\ Len(C) = c - a /\ \A x \in 1 .. c - a : C[x] = q[a + x]
      <3>1. C \in Seq(Nodes) /\ Len(C) = c - a
        BY <2>1, SliceFacts
      <3> QED BY <3>1 DEF Slice
    <2> QED BY <2>2, <2>3, <2>4
  <1> HIDE DEF A, B, C
  <1>2. A \o B \in Seq(Nodes) /\ Len(A \o B) = c - a
    <2>1. Len(A \o B) = Len(A) + Len(B) /\ A \o B \in Seq(Nodes)
      BY <1>1, ConcatProperties
    <2> QED BY <1>1, <2>1
  <1>3. ASSUME NEW x \in 1 .. c - a PROVE (A \o B)[x] = q[a + x]
    <2>1. CASE x <= b - a
      <3>1. x \in 1 .. b - a /\ x \in 1 .. Len(A)
        BY <1>1, <2>1
      <3>2. A \in Seq(Nodes) /\ B \in Seq(Nodes) /\ A[x] = q[a + x]
        BY <1>1, <3>1
      <3>3. (A \o B)[x] = A[x]
        BY <3>1, <3>2, ConcatProperties
      <3> QED BY <3>2, <3>3
    <2>2. CASE x > b - a
      <3>1. x - (b - a) \in 1 .. c - b /\ b + (x - (b - a)) = a + x
        BY <2>2
      <3>2. (A \o B)[x] = B[x - (b - a)]
        <4>1. x \in 1 .. Len(A) + Len(B) /\ ~(x <= Len(A)) /\ Len(A) = b - a
          BY <1>1, <2>2
        <4>2. (A \o B)[x] = B[x - Len(A)]
          BY <1>1, <4>1, ConcatProperties
        <4> QED BY <4>1, <4>2
      <3> QED BY <1>1, <3>1, <3>2
    <2>3. x <= b - a \/ x > b - a
      OBVIOUS
    <2> QED BY <2>1, <2>2, <2>3
  <1>4. \A x \in 1 .. Len(C) : (A \o B)[x] = C[x]
    BY <1>1, <1>3
  <1>5. A \o B = C
    <2>1. PICK D : D = A \o B
      OBVIOUS
    <2>2. /\ D \in Seq(Nodes) /\ C \in Seq(Nodes) /\ Len(D) = Len(C)
          /\ \A x \in 1 .. Len(C) : D[x] = C[x]
      BY <1>1, <1>2, <1>4, <2>1
    <2>3. D = C
      BY <2>2
    <2> QED BY <2>1, <2>3
  <1> QED BY <1>5 DEF A, B, C

LEMMA Counted ==
  ASSUME NEW q \in Seq(Nodes), Distinct(q)
  PROVE  /\ Len(q) <= Cardinality(Nodes)
         /\ \A n \in Nodes : (\A x \in 1 .. Len(q) : q[x] # n) => Len(q) < Cardinality(Nodes)
  <1>1. q \in Injection(1 .. Len(q), Nodes)
    BY DEF Distinct, Injection, IsInjective
  <1>2. /\ Cardinality(1 .. Len(q)) <= Cardinality(Nodes)
        /\ Cardinality(1 .. Len(q)) = Cardinality(Nodes) => q \in Surjection(1 .. Len(q), Nodes)
    BY <1>1, MpscSets, FS_Injection
  <1>3. Cardinality(1 .. Len(q)) = Len(q)
    <2>1. Len(q) \in Nat
      OBVIOUS
    <2>2. PICK n \in Nat : n = Len(q)
      BY <2>1
    <2>3. Cardinality(1 .. n) = IF 1 > n THEN 0 ELSE n - 1 + 1
      BY FS_Interval
    <2> QED BY <2>2, <2>3
  <1>4. \A n \in Nodes : (\A x \in 1 .. Len(q) : q[x] # n) => q \notin Surjection(1 .. Len(q), Nodes)
    BY DEF Surjection
  <1> QED BY <1>2, <1>3, <1>4, MpscSets

\* The queue that the links make is q.
LEMMA MpscItems ==
  ASSUME NEW q, NEW i, NEW j, NEW k, Linked(q, i, j, k)
  PROVE  MQ!Items = q
  <1>1. /\ q \in Seq(Nodes) /\ i \in Nat /\ j \in Nat /\ k \in Nat
        /\ i <= j /\ j <= k /\ k <= Len(q) /\ Len(q) \in Nat /\ Distinct(q)
        /\ \A x \in 1 .. Len(q) : q[x] \in Nodes /\ q[x] # Nobody
    BY MpscSets DEF Linked
  <1>2. Len(q) <= Cardinality(Nodes) /\ Cardinality(Nodes) \in Nat
    BY <1>1, Counted, MpscSets
  <1>3. MQ!Chain(acq.head, acq.tail) = Slice(q, 0, i)
    <2> DEFINE s == Slice(q, 0, i)
    <2>1. s \in Seq(Nodes) /\ Len(s) = i /\ \A x \in 1 .. i : s[x] = q[x]
      BY <1>1, SliceFacts DEF Slice
    <2> SUFFICES MQ!Chain(acq.head, acq.tail) = s
      OBVIOUS
    <2> HIDE DEF s
    <2>2. CASE i = 0
      <3>1. acq.head = Nobody /\ s = <<>>
        BY <2>1, <2>2 DEF Linked, MQ!Empty
      <3>2. FollowsLinks(s, acq.head, acq.tail)
        BY <1>1, <1>2, <2>1, <2>2, <3>1 DEF FollowsLinks
      <3> QED BY <3>2, ChainIs
    <2>3. CASE i # 0
      <3>1. acq.head = s[1] /\ acq.tail = s[i] /\ s # <<>> /\ acq.tail = q[i]
        BY <1>1, <2>1, <2>3 DEF Linked
      <3>2. ASSUME NEW x \in 1 .. i - 1 PROVE s[x] # acq.tail /\ next[s[x]] = s[x + 1]
        <4>1. x \in 1 .. Len(q) /\ i \in 1 .. Len(q) /\ x # i /\ x \in 1 .. i /\ x + 1 \in 1 .. i
          BY <1>1, <2>3, <3>2
        <4>2. next[q[x]] = q[x + 1] /\ q[x] # q[i]
          BY <1>1, <4>1, <3>2 DEF Linked, Distinct
        <4> QED BY <2>1, <3>1, <4>1, <4>2
      <3>3. FollowsLinks(s, acq.head, acq.tail)
        BY <1>1, <1>2, <2>1, <3>1, <3>2 DEF FollowsLinks
      <3> QED BY <3>3, ChainIs
    <2> QED BY <2>2, <2>3
  <1>4. MQ!Chain(res.head, res.tail) = Slice(q, j, k)
    <2> DEFINE s == Slice(q, j, k)
    <2>1. s \in Seq(Nodes) /\ Len(s) = k - j /\ \A x \in 1 .. k - j : s[x] = q[j + x]
      BY <1>1, SliceFacts DEF Slice
    <2> SUFFICES MQ!Chain(res.head, res.tail) = s
      OBVIOUS
    <2> HIDE DEF s
    <2>2. CASE k = j
      <3>1. res.head = Nobody /\ s = <<>>
        BY <1>1, <2>1, <2>2 DEF Linked, MQ!Empty
      <3>2. FollowsLinks(s, res.head, res.tail)
        BY <1>1, <1>2, <2>1, <2>2, <3>1 DEF FollowsLinks
      <3> QED BY <3>2, ChainIs
    <2>3. CASE k # j
      <3>1. res.head = q[j + 1] /\ res.tail = q[k] /\ k - j \in Nat \ {0}
        BY <1>1, <2>3 DEF Linked
      <3>2. s # <<>> /\ res.head = s[1] /\ res.tail = s[k - j]
        <4>1. j + (k - j) = k /\ 1 \in 1 .. k - j /\ k - j \in 1 .. k - j
          BY <1>1, <3>1
        <4> QED BY <2>1, <3>1, <4>1
      <3>3. ASSUME NEW x \in 1 .. (k - j) - 1 PROVE s[x] # res.tail /\ next[s[x]] = s[x + 1]
        <4>1. /\ j + x \in 1 .. Len(q) /\ k \in 1 .. Len(q) /\ j + x # k /\ j < j + x /\ j + x < k
              /\ x \in 1 .. k - j /\ x + 1 \in 1 .. k - j /\ j + (x + 1) = (j + x) + 1
          <5>1. j \in Nat /\ k \in Nat /\ Len(q) \in Nat /\ k <= Len(q)
            BY <1>1
          <5> QED BY <5>1
        <4>2. next[q[j + x]] = q[(j + x) + 1] /\ q[j + x] # q[k]
          BY <1>1, <4>1 DEF Linked, Distinct
        <4> QED BY <2>1, <3>1, <4>1, <4>2
      <3>4. FollowsLinks(s, res.head, res.tail)
        BY <1>1, <1>2, <2>1, <3>1, <3>2, <3>3 DEF FollowsLinks
      <3> QED BY <3>4, ChainIs
    <2> QED BY <2>2, <2>3
  <1>5. ASSUME NEW a \in Nat, NEW b \in Nat, a <= b, b <= Len(q), NEW top,
               top = IF b = a THEN Nobody ELSE q[b],
               \A x \in a + 1 .. b : next[q[x]] = IF x = a + 1 THEN Nobody ELSE q[x - 1]
        PROVE  MQ!Chain(top, Nobody) = Turned(q, a, b)
    <2> DEFINE s == Turned(q, a, b)
    <2>1. s \in Seq(Nodes) /\ Len(s) = b - a /\ \A x \in 1 .. b - a : s[x] = q[b + 1 - x]
      <3>1. q \in Seq(Nodes) /\ b <= Len(q)
        BY <1>1, <1>5
      <3>2. s \in Seq(Nodes) /\ Len(s) = b - a
        BY <1>5, <3>1, SliceFacts
      <3>3. \A x \in 1 .. b - a : s[x] = q[b + 1 - x]
        BY DEF Turned
      <3> QED BY <3>2, <3>3
    <2> SUFFICES MQ!Chain(top, Nobody) = s
      OBVIOUS
    <2> HIDE DEF s
    <2>2. CASE b = a
      <3>1. top = Nobody /\ s = <<>> /\ Len(s) <= Cardinality(Nodes)
        BY <1>1, <1>2, <1>5, <2>1, <2>2
      <3>2. FollowsLinks(s, top, Nobody)
        BY <1>1, <2>1, <2>2, <3>1 DEF FollowsLinks
      <3> QED BY <3>2, ChainIs
    <2>3. CASE b # a
      <3>1. b - a \in Nat \ {0} /\ Len(s) <= Cardinality(Nodes)
        BY <1>1, <1>2, <1>5, <2>1, <2>3
      <3>2. s # <<>> /\ top = s[1] /\ s[b - a] = q[a + 1]
        <4>1. b + 1 - 1 = b /\ b + 1 - (b - a) = a + 1 /\ 1 \in 1 .. b - a /\ b - a \in 1 .. b - a
          BY <3>1
        <4> QED BY <1>5, <2>1, <2>3, <4>1
      <3>3. next[s[Len(s)]] = Nobody
        BY <1>5, <2>1, <3>1, <3>2
      <3>4. ASSUME NEW x \in 1 .. (b - a) - 1 PROVE s[x] # Nobody /\ next[s[x]] = s[x + 1]
        <4>1. /\ b + 1 - x \in a + 1 .. b /\ b + 1 - x # a + 1 /\ b + 1 - x \in 1 .. Len(q)
              /\ x \in 1 .. b - a /\ x + 1 \in 1 .. b - a /\ b + 1 - (x + 1) = (b + 1 - x) - 1
          <5>1. Len(q) \in Nat /\ b <= Len(q)
            BY <1>1, <1>5
          <5> QED BY <5>1
        <4>2. next[q[b + 1 - x]] = q[(b + 1 - x) - 1] /\ q[b + 1 - x] # Nobody
          BY <1>1, <1>5, <4>1
        <4> QED BY <2>1, <4>1, <4>2
      <3>5. FollowsLinks(s, top, Nobody)
        BY <2>1, <3>1, <3>2, <3>3, <3>4 DEF FollowsLinks
      <3> QED BY <3>5, ChainIs
    <2> QED BY <2>2, <2>3
  <1>6. MQ!Reverse(MQ!Chain(popped, Nobody)) = Slice(q, i, j)
    <2>1. \A x \in i + 1 .. j : next[q[x]] = IF x = i + 1 THEN Nobody ELSE q[x - 1]
      BY <1>1 DEF Linked
    <2>2. popped = IF j = i THEN Nobody ELSE q[j]
      BY <1>1 DEF Linked
    <2>3. i \in Nat /\ j \in Nat /\ i <= j /\ j <= Len(q) /\ q \in Seq(Nodes)
      BY <1>1
    <2>4. MQ!Chain(popped, Nobody) = Turned(q, i, j)
      BY <1>5, <2>1, <2>2, <2>3
    <2> QED BY <2>3, <2>4, SliceFacts
  <1>7. MQ!Reverse(MQ!Chain(head, Nobody)) = Slice(q, k, Len(q))
    <2>1. \A x \in k + 1 .. Len(q) : next[q[x]] = IF x = k + 1 THEN Nobody ELSE q[x - 1]
      BY <1>1 DEF Linked
    <2>2. head = IF Len(q) = k THEN Nobody ELSE q[Len(q)]
      BY <1>1 DEF Linked
    <2>3. k \in Nat /\ Len(q) \in Nat /\ k <= Len(q) /\ Len(q) <= Len(q) /\ q \in Seq(Nodes)
      BY <1>1
    <2>4. MQ!Chain(head, Nobody) = Turned(q, k, Len(q))
      BY <1>5, <2>1, <2>2, <2>3
    <2> QED BY <2>3, <2>4, SliceFacts
  <1>8. MQ!Items = Slice(q, 0, i) \o Slice(q, i, j) \o Slice(q, j, k) \o Slice(q, k, Len(q))
    BY <1>3, <1>4, <1>6, <1>7 DEF MQ!Items
  <1>9. /\ Slice(q, 0, i) \o Slice(q, i, j) = Slice(q, 0, j)
        /\ Slice(q, 0, j) \o Slice(q, j, k) = Slice(q, 0, k)
        /\ Slice(q, 0, k) \o Slice(q, k, Len(q)) = Slice(q, 0, Len(q))
    <2>1. 0 \in Nat /\ 0 <= i /\ 0 <= j /\ 0 <= k /\ j <= Len(q) /\ Len(q) <= Len(q)
      BY <1>1
    <2>2. Slice(q, 0, i) \o Slice(q, i, j) = Slice(q, 0, j)
      BY <1>1, <2>1, SlicesJoin
    <2>3. Slice(q, 0, j) \o Slice(q, j, k) = Slice(q, 0, k)
      BY <1>1, <2>1, SlicesJoin
    <2>4. Slice(q, 0, k) \o Slice(q, k, Len(q)) = Slice(q, 0, Len(q))
      BY <1>1, <2>1, SlicesJoin
    <2> QED BY <2>2, <2>3, <2>4
  <1>10. Slice(q, 0, Len(q)) = q
    BY <1>1 DEF Slice
  <1> QED BY <1>8, <1>9, <1>10

LinkedItems == \A q, i, j, k : Linked(q, i, j, k) => MQ!Items = q

LEMMA MpscItemsFact == LinkedItems
  BY MpscItems DEF LinkedItems

-----------------------------------------------------------------------------
(* What a step does to the queue.                                           *)

\* r is q, or q with one more node at its end, or q without its first.
Moved(q, r) ==
  \/ r = q
  \/ Len(q) < Cardinality(Nodes) /\ \E n \in Nodes : r = Append(q, n)
  \/ q # <<>> /\ r = Tail(q)

Moves(q) == \E r, a, b, c : Linked(r, a, b, c)' /\ Moved(q, r)

LEMMA LinkedFacts ==
  ASSUME NEW q, NEW i, NEW j, NEW k, Linked(q, i, j, k)
  PROVE  /\ q \in Seq(Nodes) /\ Len(q) \in Nat /\ i \in Nat /\ j \in Nat /\ k \in Nat
         /\ i <= j /\ j <= k /\ k <= Len(q) /\ Distinct(q) /\ Nobody \notin Nodes
         /\ \A x \in 1 .. Len(q) : q[x] \in Nodes /\ q[x] # Nobody
         /\ popped # Nobody => j \in 1 .. Len(q) /\ i < j /\ popped = q[j]
         /\ popped = Nobody => i = j
         /\ acq.head # Nobody => i # 0 /\ acq = [head |-> q[1], tail |-> q[i]]
         /\ acq.head = Nobody => i = 0
         /\ res.head # Nobody => j < k /\ res = [head |-> q[j + 1], tail |-> q[k]]
         /\ res.head = Nobody => j = k
  <1>1. /\ q \in Seq(Nodes) /\ Len(q) \in Nat /\ i \in Nat /\ j \in Nat /\ k \in Nat
        /\ i <= j /\ j <= k /\ k <= Len(q) /\ Distinct(q) /\ Nobody \notin Nodes
        /\ \A x \in 1 .. Len(q) : q[x] \in Nodes /\ q[x] # Nobody
    BY MpscSets DEF Linked
  <1>2. /\ popped = IF j = i THEN Nobody ELSE q[j]
        /\ acq = IF i = 0 THEN MQ!Empty ELSE [head |-> q[1], tail |-> q[i]]
        /\ res = IF k = j THEN MQ!Empty ELSE [head |-> q[j + 1], tail |-> q[k]]
    BY DEF Linked
  <1>3. (j # i => j \in 1 .. Len(q)) /\ (i # 0 => 1 \in 1 .. Len(q)) /\ (k # j => j + 1 \in 1 .. Len(q))
    BY <1>1
  <1>4. (j # i => popped # Nobody) /\ (j = i => popped = Nobody)
    BY <1>1, <1>2, <1>3
  <1>5. (i # 0 => acq.head # Nobody) /\ (i = 0 => acq.head = Nobody)
    BY <1>1, <1>2, <1>3 DEF MQ!Empty
  <1>6. (k # j => res.head # Nobody) /\ (k = j => res.head = Nobody)
    BY <1>1, <1>2, <1>3 DEF MQ!Empty
  <1> QED BY <1>1, <1>2, <1>3, <1>4, <1>5, <1>6

\* While the queue's nodes keep their links and nothing takes them, q stays.
LEMMA PutMoves ==
  ASSUME NEW q, NEW i, NEW j, NEW k, Linked(q, i, j, k), MpscShape,
         NEW p \in Producers, MQ!Put(p)
  PROVE  MpscShape' /\ Moves(q)
  <1> USE LinkedFacts
  <1>1. CASE MQ!LoadHead(p)
    <2>1. PICK n \in idle : node' = [node EXCEPT ![p] = n] /\ idle' = idle \ {n}
      BY <1>1 DEF MQ!LoadHead
    <2>2. /\ putting[p] = "idle" /\ putting' = [putting EXCEPT ![p] = "link"]
          /\ seen' = [seen EXCEPT ![p] = head]
          /\ UNCHANGED <<head, next, taking, popped, acq, res>>
      BY <1>1 DEF MQ!LoadHead, MQ!consumerVars
    <2>3. MpscShape'
      BY <2>1, <2>2 DEF MpscShape
    <2>4. ASSUME NEW x \in 1 .. Len(q)
          PROVE  q[x] \notin idle' /\ \A o \in Producers : node'[o] # q[x]
      BY <2>1, <2>4 DEF Linked, MpscShape
    <2>5. Linked(q, i, j, k)'
      BY <2>2, <2>4 DEF Linked
    <2> QED BY <2>3, <2>5 DEF Moves, Moved
  <1>2. CASE MQ!Link(p)
    <2>1. /\ putting[p] = "link" /\ next' = [next EXCEPT ![node[p]] = seen[p]]
          /\ putting' = [putting EXCEPT ![p] = "exchange"]
          /\ UNCHANGED <<head, idle, node, seen, taking, popped, acq, res>>
      BY <1>2 DEF MQ!Link, MQ!consumerVars
    <2>2. MpscShape'
      BY <2>1, MpscSets DEF MpscShape
    <2>3. \A x \in 1 .. Len(q) : next'[q[x]] = next[q[x]]
      BY <2>1 DEF Linked, MpscShape
    <2>4. Linked(q, i, j, k)'
      BY <2>1, <2>3 DEF Linked
    <2> QED BY <2>2, <2>4 DEF Moves, Moved
  <1>3. CASE MQ!Exchange(p) /\ seen' = [seen EXCEPT ![p] = head] /\ UNCHANGED <<head, node>>
                            /\ putting' = [putting EXCEPT ![p] = "link"]
    <2>1. putting[p] = "exchange" /\ UNCHANGED <<next, idle, taking, popped, acq, res>>
      BY <1>3 DEF MQ!Exchange, MQ!consumerVars
    <2>2. MpscShape'
      BY <1>3, <2>1 DEF MpscShape
    <2>3. Linked(q, i, j, k)'
      BY <1>3, <2>1 DEF Linked
    <2> QED BY <2>2, <2>3 DEF Moves, Moved
  <1>4. CASE /\ MQ!Exchange(p) /\ head = seen[p] /\ head' = node[p]
             /\ putting' = [putting EXCEPT ![p] = "idle"]
             /\ node' = [node EXCEPT ![p] = Nobody] /\ seen' = [seen EXCEPT ![p] = Nobody]
    <2>1. putting[p] = "exchange" /\ UNCHANGED <<next, idle, taking, popped, acq, res>>
      BY <1>4 DEF MQ!Exchange, MQ!consumerVars
    <2>2. PICK n \in Nodes : n = node[p] /\ next[n] = head /\ n \notin idle /\ n # Nobody
      BY <1>4, <2>1, MpscSets DEF MpscShape
    <2>3. MpscShape'
      BY <1>4, <2>1, <2>2 DEF MpscShape
    <2> DEFINE r == Append(q, n)
    <2>4. /\ r \in Seq(Nodes) /\ Len(r) = Len(q) + 1 /\ r[Len(q) + 1] = n
          /\ \A x \in 1 .. Len(q) : r[x] = q[x] /\ q[x] # n
      BY <2>2 DEF Linked
    <2> HIDE DEF r
    <2>5. Distinct(r)
      <3>1. \A x \in 1 .. Len(r) : x \in 1 .. Len(q) \/ (x = Len(q) + 1 /\ r[x] = n)
        BY <2>4
      <3>2. \A x, y \in 1 .. Len(q) : r[x] = r[y] => x = y
        BY <2>4 DEF Distinct
      <3> QED BY <2>4, <3>1, <3>2 DEF Distinct
    <2>6. \A x \in 1 .. Len(r) : r[x] \notin idle' /\ \A o \in Producers : node'[o] # r[x]
      <3>1. \A x \in 1 .. Len(q) : r[x] \notin idle' /\ \A o \in Producers : node'[o] # r[x]
        <4>1. \A x \in 1 .. Len(q) : q[x] \notin idle /\ \A o \in Producers : node[o] # q[x]
          BY DEF Linked
        <4>2. \A o \in Producers : node'[o] = IF o = p THEN Nobody ELSE node[o]
          BY <1>4 DEF MpscShape
        <4>3. \A x \in 1 .. Len(q) : r[x] = q[x] /\ q[x] # Nobody
          BY <2>4
        <4> QED BY <2>1, <4>1, <4>2, <4>3
      <3>2. r[Len(q) + 1] \notin idle' /\ \A o \in Producers : node'[o] # r[Len(q) + 1]
        BY <1>4, <2>1, <2>2, <2>4 DEF MpscShape
      <3>3. \A x \in 1 .. Len(r) : x \in 1 .. Len(q) \/ x = Len(q) + 1
        BY <2>4
      <3> QED BY <3>1, <3>2, <3>3
    <2>7. ASSUME NEW x \in 1 .. Len(r)
          PROVE  /\ x < i => next'[r[x]] = r[x + 1]
                 /\ i < x /\ x <= j => next'[r[x]] = IF x = i + 1 THEN Nobody ELSE r[x - 1]
                 /\ j < x /\ x < k => next'[r[x]] = r[x + 1]
                 /\ k < x => next'[r[x]] = IF x = k + 1 THEN Nobody ELSE r[x - 1]
      <3>1. CASE x \in 1 .. Len(q)
        <4>1. /\ x < k => r[x + 1] = q[x + 1]
              /\ x # 1 => r[x - 1] = q[x - 1]
              /\ r[x] = q[x]
          <5>1. (x < k => x + 1 \in 1 .. Len(q)) /\ (x # 1 => x - 1 \in 1 .. Len(q))
            BY <3>1
          <5>2. \A y \in 1 .. Len(q) : r[y] = q[y]
            BY <2>4
          <5> QED BY <3>1, <5>1, <5>2
        <4>2. /\ x < i => next[q[x]] = q[x + 1]
              /\ i < x /\ x <= j => next[q[x]] = IF x = i + 1 THEN Nobody ELSE q[x - 1]
              /\ j < x /\ x < k => next[q[x]] = q[x + 1]
              /\ k < x => next[q[x]] = IF x = k + 1 THEN Nobody ELSE q[x - 1]
          BY <3>1 DEF Linked
        <4>3. /\ x < i => x < k
              /\ i < x /\ x # i + 1 => x # 1
              /\ k < x /\ x # k + 1 => x # 1
          BY <3>1
        <4> QED BY <2>1, <4>1, <4>2, <4>3
      <3>2. CASE x = Len(q) + 1
        <4>1. x # k + 1 => x - 1 \in 1 .. Len(q) /\ r[x - 1] = q[Len(q)]
          BY <2>4, <3>2
        <4>2. head = IF k = Len(q) THEN Nobody ELSE q[Len(q)]
          BY DEF Linked
        <4>3. next'[r[x]] = IF x = k + 1 THEN Nobody ELSE r[x - 1]
          BY <2>1, <2>2, <2>4, <3>2, <4>1, <4>2
        <4> QED BY <3>2, <4>3
      <3> QED BY <2>4, <3>1, <3>2
    <2>8. Linked(r, i, j, k)'
      <3>1. /\ acq' = IF i = 0 THEN MQ!Empty ELSE [head |-> r[1], tail |-> r[i]]
            /\ popped' = IF j = i THEN Nobody ELSE r[j]
            /\ res' = IF k = j THEN MQ!Empty ELSE [head |-> r[j + 1], tail |-> r[k]]
        <4>1. /\ i # 0 => r[1] = q[1] /\ r[i] = q[i]
              /\ j # i => r[j] = q[j]
              /\ k # j => r[j + 1] = q[j + 1] /\ r[k] = q[k]
          BY <2>4
        <4> QED BY <2>1, <4>1 DEF Linked
      <3>2. head' = IF k = Len(r) THEN Nobody ELSE r[Len(r)]
        BY <1>4, <2>2, <2>4
      <3>3. (taking' # "relink" => i = j /\ j = k) /\ (taking' = "relink" => i = 0)
        BY <2>1 DEF Linked
      <3>4. k <= Len(r)
        BY <2>4
      <3> QED BY <2>4, <2>5, <2>6, <2>7, <3>1, <3>2, <3>3, <3>4 DEF Linked
    <2>9. Len(q) < Cardinality(Nodes)
      BY <2>4, Counted
    <2> QED BY <2>3, <2>8, <2>9 DEF Moves, Moved, r
  <1> QED BY <1>1, <1>2, <1>3, <1>4 DEF MQ!Put, MQ!Exchange

LEMMA PopAllMoves ==
  ASSUME NEW q, NEW i, NEW j, NEW k, Linked(q, i, j, k), MpscShape, MQ!PopAll
  PROVE  MpscShape' /\ Moves(q)
  <1> USE LinkedFacts
  <1>1. /\ taking = "idle" /\ acq.head = Nobody /\ popped' = head /\ head' = Nobody /\ taking' = "relink"
        /\ UNCHANGED <<next, idle, acq, res, putting, node, seen>>
    BY DEF MQ!PopAll, MQ!producerVars
  <1>2. i = 0 /\ j = 0 /\ k = 0
    BY <1>1 DEF Linked
  <1>3. MpscShape'
    BY <1>1 DEF MpscShape
  <1>4. Linked(q, 0, Len(q), Len(q))'
    <2>1. /\ popped' = IF Len(q) = 0 THEN Nobody ELSE q[Len(q)]
          /\ acq' = MQ!Empty /\ res' = MQ!Empty
      BY <1>1, <1>2 DEF Linked
    <2>2. ASSUME NEW x \in 1 .. Len(q)
          PROVE  /\ q[x] \notin idle' /\ \A p \in Producers : node'[p] # q[x]
                 /\ next'[q[x]] = IF x = 0 + 1 THEN Nobody ELSE q[x - 1]
      BY <1>1, <1>2 DEF Linked
    <2>3. \A x \in 1 .. Len(q) : ~(x < 0) /\ 0 < x /\ x <= Len(q) /\ ~(Len(q) < x)
      OBVIOUS
    <2> QED BY <1>1, <2>1, <2>2, <2>3 DEF Linked
  <1> QED BY <1>3, <1>4 DEF Moves, Moved

LEMMA RelinkMoves ==
  ASSUME NEW q, NEW i, NEW j, NEW k, Linked(q, i, j, k), MpscShape, MQ!Relink
  PROVE  MpscShape' /\ Moves(q)
  <1> USE LinkedFacts
  <1>1. /\ taking = "relink" /\ popped # Nobody /\ popped' = next[popped]
        /\ IF res.head = Nobody
             THEN res' = [head |-> popped, tail |-> popped] /\ UNCHANGED next
             ELSE /\ next' = [next EXCEPT ![popped] = res.head]
                  /\ res' = [res EXCEPT !.head = popped]
        /\ UNCHANGED <<head, idle, taking, acq, putting, node, seen>>
    BY DEF MQ!Relink, MQ!producerVars
  <1>2. i = 0 /\ j \in 1 .. Len(q) /\ popped = q[j] /\ j - 1 \in Nat /\ j - 1 <= k /\ k \in 1 .. Len(q)
    BY <1>1 DEF Linked
  <1>3. PICK m \in Nat : m = j - 1 /\ j = m + 1
    BY <1>2
  <1>4. popped' = IF m = 0 THEN Nobody ELSE q[m]
    <2>1. next[q[j]] = IF j = 0 + 1 THEN Nobody ELSE q[j - 1]
      BY <1>2 DEF Linked
    <2> QED BY <1>1, <1>2, <1>3, <2>1
  <1>5. res' = [head |-> q[m + 1], tail |-> q[k]]
    BY <1>1, <1>2, <1>3
  <1>6. /\ next' \in [Nodes -> Nodes \cup {Nobody}]
        /\ \A n \in Nodes : n # q[j] => next'[n] = next[n]
        /\ j < k => next'[q[j]] = q[j + 1]
    <2>1. next \in [Nodes -> Nodes \cup {Nobody}] /\ q[j] \in Nodes
      BY <1>2 DEF MpscShape
    <2>2. CASE res.head = Nobody
      <3>1. ~(j < k) /\ next' = next
        BY <1>1, <1>2, <2>2
      <3> QED BY <2>1, <3>1
    <2>3. CASE res.head # Nobody
      <3>1. j < k /\ res.head = q[j + 1] /\ q[j + 1] \in Nodes
        BY <1>1, <1>2, <2>3
      <3>2. next' = [next EXCEPT ![q[j]] = q[j + 1]]
        BY <1>1, <1>2, <2>3, <3>1
      <3> QED BY <2>1, <3>1, <3>2
    <2> QED BY <2>2, <2>3
  <1>7. \A p \in Producers : node[p] # q[j]
    BY <1>2 DEF Linked
  <1>8. MpscShape'
    BY <1>1, <1>6, <1>7 DEF MpscShape
  <1>9. ASSUME NEW x \in 1 .. Len(q)
        PROVE  /\ ~(x < 0)
               /\ 0 < x /\ x <= m => next'[q[x]] = IF x = 0 + 1 THEN Nobody ELSE q[x - 1]
               /\ m < x /\ x < k => next'[q[x]] = q[x + 1]
               /\ k < x => next'[q[x]] = IF x = k + 1 THEN Nobody ELSE q[x - 1]
    <2>1. /\ 0 < x /\ x <= j => next[q[x]] = IF x = 0 + 1 THEN Nobody ELSE q[x - 1]
          /\ j < x /\ x < k => next[q[x]] = q[x + 1]
          /\ k < x => next[q[x]] = IF x = k + 1 THEN Nobody ELSE q[x - 1]
      BY <1>2 DEF Linked
    <2>2. CASE x = j
      BY <1>2, <1>3, <1>6, <2>2
    <2>3. CASE x # j
      <3>1. q[x] # q[j] /\ q[x] \in Nodes
        BY <1>2, <2>3 DEF Distinct
      <3>2. next'[q[x]] = next[q[x]]
        BY <1>6, <3>1
      <3>3. (x <= m => x <= j) /\ (m < x => j < x) /\ ~(x < 0)
        BY <1>3, <2>3
      <3> QED BY <2>1, <3>2, <3>3
    <2> QED BY <2>2, <2>3
  <1>10. Linked(q, 0, m, k)'
    <2>1. 0 \in Nat /\ m \in Nat /\ 0 <= m /\ m <= k /\ m # k
      BY <1>2, <1>3
    <2>2. \A x \in 1 .. Len(q) : q[x] \notin idle' /\ \A p \in Producers : node'[p] # q[x]
      BY <1>1 DEF Linked
    <2>3. acq' = MQ!Empty /\ head' = IF k = Len(q) THEN Nobody ELSE q[Len(q)]
      BY <1>1, <1>2 DEF Linked
    <2>4. taking' = "relink"
      BY <1>1
    <2> QED BY <1>4, <1>5, <1>9, <2>1, <2>2, <2>3, <2>4 DEF Linked
  <1> QED BY <1>8, <1>10 DEF Moves, Moved

LEMMA AcquireMoves ==
  ASSUME NEW q, NEW i, NEW j, NEW k, Linked(q, i, j, k), MpscShape, MQ!Acquire
  PROVE  MpscShape' /\ Moves(q)
  <1> USE LinkedFacts
  <1>1. /\ taking = "relink" /\ popped = Nobody /\ acq' = res /\ res' = MQ!Empty /\ taking' = "pop"
        /\ UNCHANGED <<head, next, idle, popped, putting, node, seen>>
    BY DEF MQ!Acquire, MQ!producerVars
  <1>2. i = 0 /\ j = 0
    <2>1. i = 0
      BY <1>1 DEF Linked
    <2>2. j \in Nat /\ j <= Len(q) /\ popped = IF j = 0 THEN Nobody ELSE q[j]
      BY <2>1 DEF Linked
    <2>3. j # 0 => q[j] # Nobody
      BY <2>2
    <2> QED BY <1>1, <2>1, <2>2, <2>3
  <1>3. MpscShape'
    BY <1>1 DEF MpscShape
  <1>4. Linked(q, k, k, k)'
    <2>1. acq' = IF k = 0 THEN MQ!Empty ELSE [head |-> q[1], tail |-> q[k]]
      BY <1>1, <1>2 DEF Linked
    <2>2. head' = (IF k = Len(q) THEN Nobody ELSE q[Len(q)]) /\ popped' = Nobody
      BY <1>1 DEF Linked
    <2>3. ASSUME NEW x \in 1 .. Len(q)
          PROVE  /\ q[x] \notin idle' /\ \A p \in Producers : node'[p] # q[x]
                 /\ x < k => next'[q[x]] = q[x + 1]
                 /\ ~(k < x /\ x <= k) /\ ~(k < x /\ x < k)
                 /\ k < x => next'[q[x]] = IF x = k + 1 THEN Nobody ELSE q[x - 1]
      BY <1>1, <1>2 DEF Linked
    <2> QED BY <1>1, <2>1, <2>2, <2>3 DEF Linked
  <1> QED BY <1>3, <1>4 DEF Moves, Moved

LEMMA PopFrontMoves ==
  ASSUME NEW q, NEW i, NEW j, NEW k, Linked(q, i, j, k), MpscShape, MQ!PopFront
  PROVE  MpscShape' /\ Moves(q)
  <1> USE LinkedFacts
  <1>1. /\ acq.head # Nobody /\ taking \in {"idle", "pop"} /\ taking' = "idle"
        /\ acq' = IF acq.head = acq.tail THEN MQ!Empty ELSE [acq EXCEPT !.head = next[acq.head]]
        /\ next' = [next EXCEPT ![acq.head] = Nobody]
        /\ idle' = idle \cup {acq.head}
        /\ UNCHANGED <<head, popped, res, putting, node, seen>>
    BY DEF MQ!PopFront, MQ!producerVars
  <1>2. /\ i # 0 /\ j = i /\ k = i /\ acq = [head |-> q[1], tail |-> q[i]]
        /\ 1 \in 1 .. Len(q) /\ i \in 1 .. Len(q) /\ q[1] \in Nodes /\ q # <<>>
    <2>1. i # 0 /\ acq = [head |-> q[1], tail |-> q[i]]
      BY <1>1
    <2>2. j = i /\ k = i
      BY <1>1 DEF Linked
    <2>3. 1 \in 1 .. Len(q) /\ i \in 1 .. Len(q) /\ q # <<>>
      BY <2>1, <2>2
    <2> QED BY <2>1, <2>2, <2>3
  <1>3. PICK m \in Nat : m = i - 1 /\ i = m + 1
    BY <1>2
  <1>4. /\ \A p \in Producers : node[p] # q[1]
        /\ \A n \in Nodes : n # q[1] => next'[n] = next[n]
        /\ next' \in [Nodes -> Nodes \cup {Nobody}]
    <2>1. \A p \in Producers : node[p] # q[1]
      BY <1>2 DEF Linked
    <2>2. next \in [Nodes -> Nodes \cup {Nobody}] /\ next' = [next EXCEPT ![q[1]] = Nobody]
      BY <1>1, <1>2 DEF MpscShape
    <2> QED BY <2>1, <2>2
  <1>5. MpscShape'
    BY <1>1, <1>2, <1>4 DEF MpscShape
  <1>6. PICK r : r = Tail(q)
    OBVIOUS
  <1>7. /\ r \in Seq(Nodes) /\ Len(r) = Len(q) - 1
        /\ \A x \in 1 .. Len(q) - 1 : r[x] = q[x + 1]
    BY <1>2, <1>6
  <1>8. Distinct(r)
    <2> SUFFICES ASSUME NEW x \in 1 .. Len(r), NEW y \in 1 .. Len(r), r[x] = r[y] PROVE x = y
      BY DEF Distinct
    <2>1. x + 1 \in 1 .. Len(q) /\ y + 1 \in 1 .. Len(q) /\ q[x + 1] = q[y + 1]
      BY <1>7
    <2>2. x + 1 = y + 1
      BY <2>1 DEF Distinct
    <2> QED BY <2>2
  <1>9. ASSUME NEW x \in 1 .. Len(r)
        PROVE  /\ r[x] \notin idle' /\ \A p \in Producers : node'[p] # r[x]
               /\ x < m => next'[r[x]] = r[x + 1]
               /\ ~(m < x /\ x <= m) /\ ~(m < x /\ x < m)
               /\ m < x => next'[r[x]] = IF x = m + 1 THEN Nobody ELSE r[x - 1]
    <2>1. PICK y \in 1 .. Len(q) : y = x + 1 /\ x = y - 1 /\ y # 1
      BY <1>7
    <2>2. r[x] = q[y] /\ q[y] # q[1] /\ q[y] \in Nodes
      BY <1>2, <1>7, <2>1 DEF Distinct
    <2>3. next'[q[y]] = next[q[y]]
      BY <1>4, <2>2
    <2>4. /\ q[y] \notin idle /\ \A p \in Producers : node[p] # q[y]
          /\ y < i => next[q[y]] = q[y + 1]
          /\ i < y => next[q[y]] = IF y = i + 1 THEN Nobody ELSE q[y - 1]
      BY <1>2 DEF Linked
    <2>5. x < m => y < i /\ r[x + 1] = q[y + 1]
      BY <1>2, <1>3, <1>7, <2>1
    <2>6. m < x => i < y /\ (x = m + 1 <=> y = i + 1)
      BY <1>3, <2>1
    <2>7. m < x /\ x # m + 1 => r[x - 1] = q[y - 1]
      BY <1>3, <1>7, <2>1
    <2>8. ~(m < x /\ x <= m) /\ ~(m < x /\ x < m)
      OBVIOUS
    <2> QED BY <1>1, <1>2, <2>2, <2>3, <2>4, <2>5, <2>6, <2>7, <2>8
  <1>10. Linked(r, m, m, m)'
    <2>1. acq' = IF m = 0 THEN MQ!Empty ELSE [head |-> r[1], tail |-> r[m]]
      <3>1. CASE i = 1
        BY <1>1, <1>2, <1>3, <3>1
      <3>2. CASE i # 1
        <4>1. q[1] # q[i] /\ next[q[1]] = q[1 + 1]
          BY <1>2, <3>2 DEF Linked, Distinct
        <4>2. r[1] = q[1 + 1] /\ r[m] = q[i] /\ m # 0
          BY <1>2, <1>3, <1>7, <3>2
        <4>3. acq' = [acq EXCEPT !.head = q[1 + 1]]
          BY <1>1, <1>2, <4>1
        <4> QED BY <1>2, <4>2, <4>3
      <3> QED BY <3>1, <3>2
    <2>2. head' = IF m = Len(r) THEN Nobody ELSE r[Len(r)]
      <3>1. head = IF i = Len(q) THEN Nobody ELSE q[Len(q)]
        BY <1>2 DEF Linked
      <3>2. (m = Len(r) <=> i = Len(q)) /\ (m # Len(r) => r[Len(r)] = q[Len(q)])
        BY <1>2, <1>3, <1>7
      <3> QED BY <1>1, <3>1, <3>2
    <2>3. popped' = Nobody /\ res' = MQ!Empty
      BY <1>1, <1>2 DEF Linked
    <2>4. m <= Len(r)
      BY <1>2, <1>3, <1>7
    <2>5. m \in Nat /\ m <= m /\ taking' # "relink"
      BY <1>1
    <2>6. r \in Seq(Nodes)
      BY <1>7
    <2> QED BY <1>8, <1>9, <2>1, <2>2, <2>3, <2>4, <2>5, <2>6 DEF Linked
  <1> QED BY <1>2, <1>5, <1>6, <1>10 DEF Moves, Moved

MpscInv == MpscShape /\ \E q, i, j, k : Linked(q, i, j, k)

LEMMA MpscStep ==
  ASSUME NEW q, NEW i, NEW j, NEW k, Linked(q, i, j, k), MpscShape, [MQ!Next]_mqVars
  PROVE  MpscShape' /\ Moves(q)
  <1>1. CASE \E p \in Producers : MQ!Put(p)
    BY <1>1, PutMoves
  <1>2. CASE MQ!PopAll
    BY <1>2, PopAllMoves
  <1>3. CASE MQ!Relink
    BY <1>3, RelinkMoves
  <1>4. CASE MQ!Acquire
    BY <1>4, AcquireMoves
  <1>5. CASE MQ!PopFront
    BY <1>5, PopFrontMoves
  <1>6. CASE MQ!NothingToTake \/ UNCHANGED mqVars
    <2>1. /\ UNCHANGED <<head, next, idle, putting, node, seen, popped, acq, res>>
          /\ taking' # taking => taking = "pop" /\ taking' = "idle"
      BY <1>6 DEF MQ!NothingToTake, MQ!producerVars, mqVars
    <2>2. MpscShape'
      BY <2>1 DEF MpscShape
    <2>3. Linked(q, i, j, k)'
      BY <2>1 DEF Linked
    <2> QED BY <2>2, <2>3 DEF Moves, Moved
  <1> QED BY <1>1, <1>2, <1>3, <1>4, <1>5, <1>6 DEF MQ!Next, MQ!TryTake

LEMMA MpscAlways == LibrarySpec => []MpscInv
  <1>1. LibraryInit => MpscInv
    <2> SUFFICES ASSUME MQ!Init PROVE MpscInv
      BY DEF LibraryInit
    <2>1. MpscShape
      BY MpscSets DEF MQ!Init, MpscShape
    <2>2. Linked(<<>>, 0, 0, 0)
      BY DEF MQ!Init, Linked, Distinct
    <2> QED BY <2>1, <2>2 DEF MpscInv
  <1>2. MpscInv /\ [LibraryNext]_libraryVars => MpscInv'
    <2> SUFFICES ASSUME MpscInv, [LibraryNext]_libraryVars PROVE MpscInv'
      OBVIOUS
    <2>1. PICK q, i, j, k : Linked(q, i, j, k)
      BY DEF MpscInv
    <2>2. [MQ!Next]_mqVars
      BY DEF LibraryNext, libraryVars, ConcurrentQueueStep, ReaderWriterQueueStep, MpscQueueStep,
             CarryStep, Others
    <2>3. MpscShape' /\ Moves(q)
      BY <2>1, <2>2, MpscStep DEF MpscInv
    <2> QED BY <2>3 DEF MpscInv, Moves
  <1> QED BY <1>1, <1>2, PTL DEF LibrarySpec

\* The MPSC queue implements BoundedFifo for any producers and any finite number of
\* nodes: a node is put when its exchange succeeds and taken when it is popped, none
\* is lost, taken twice or overtaken, and a node that comes back while a producer
\* still holds it as the head it has read harms nothing
\* (mpsc_unbounded_intrusive_lock_free_stack.hpp:15-40, queue.hpp:15-26).
THEOREM MpscImplementsFifo == LibrarySpec => MpscFifoSpec
  <1>1. LibraryInit => MQ!MpscFifo!FInit
    <2> SUFFICES ASSUME MQ!Init PROVE MQ!MpscFifo!FInit
      BY DEF LibraryInit
    <2>1. Linked(<<>>, 0, 0, 0)
      BY DEF MQ!Init, Linked, Distinct
    <2>2. MQ!Items = <<>>
      BY <2>1, MpscItems
    <2> QED BY <2>2 DEF MQ!MpscFifo!FInit
  <1>2. /\ MpscInv /\ [LibraryNext]_libraryVars
        => [playing = "MpscQueue" => MQ!MpscFifo!FStep]_mqVars
    <2> SUFFICES ASSUME MpscInv, [LibraryNext]_libraryVars PROVE MQ!MpscFifo!FStep
      OBVIOUS
    <2>1. PICK q, i, j, k : Linked(q, i, j, k)
      BY DEF MpscInv
    <2>2. [MQ!Next]_mqVars
      BY DEF LibraryNext, libraryVars, ConcurrentQueueStep, ReaderWriterQueueStep, MpscQueueStep,
             CarryStep, Others
    <2>3. PICK r, a, b, c : Linked(r, a, b, c)' /\ Moved(q, r)
      BY <2>1, <2>2, MpscStep DEF MpscInv, Moves
    <2>4. LinkedItems /\ LinkedItems'
      BY MpscItemsFact, PTL
    <2>5. MQ!Items = q /\ MQ!Items' = r
      BY <2>1, <2>3, <2>4 DEF LinkedItems
    <2>6. MQ!Cardinality(Nodes) = Cardinality(Nodes)
      BY MpscSets
    <2>7. CASE r = q
      BY <2>5, <2>7 DEF MQ!MpscFifo!FStep, MQ!MpscFifo!fvars
    <2>8. CASE Len(q) < Cardinality(Nodes) /\ \E n \in Nodes : r = Append(q, n)
      BY <2>5, <2>6, <2>8 DEF MQ!MpscFifo!FStep, MQ!MpscFifo!FNext, MQ!MpscFifo!Put
    <2>9. CASE q # <<>> /\ r = Tail(q)
      BY <2>5, <2>9 DEF MQ!MpscFifo!FStep, MQ!MpscFifo!FNext, MQ!MpscFifo!Get
    <2> QED BY <2>3, <2>7, <2>8, <2>9 DEF Moved
  <1> QED BY <1>1, <1>2, MpscAlways, PTL DEF LibrarySpec, MpscFifoSpec

-----------------------------------------------------------------------------
(* Contexts: module Carry, for any tasks, keys and storages.                 *)

LEMMA CarrySets ==
  ASSUME NEW S
  PROVE  CA!IsFiniteSet(S) = IsFiniteSet(S) /\ CA!Cardinality(S) = Cardinality(S)
  <1>1. CA!IsFiniteSet(S) = IsFiniteSet(S)
    BY DEF CA!IsFiniteSet, IsFiniteSet
  <1>2. CA!Cardinality(S) = Cardinality(S)
    BY DEF CA!Cardinality, Cardinality
  <1> QED BY <1>1, <1>2

Contextual == Storages \cup {EmptyStorage}

TaskInv(t) ==
  /\ stack[t] \in Seq(Contextual) /\ Len(stack[t]) <= MaxDepth + 1
  /\ doing[t] = [op |-> doing[t].op, on |-> doing[t].on]
  /\ doing[t].op \in {"idle", "new", "release", "destroy"}
  /\ doing[t].op \in {"new", "release"} => doing[t].on \in Contextual
  /\ doing[t].op = "new" => stack[t] # <<>> /\ Len(stack[t]) <= MaxDepth
  /\ doing[t].op = "destroy" => doing[t].on \in live /\ count[doing[t].on] = 0

Destroying(t, s) == doing[t].op = "destroy" /\ doing[t].on = s

HeapInv ==
  /\ live \subseteq Storages
  /\ wrapped \in [Storages -> Contextual \cup {Nobody}]
  /\ \A s \in live : wrapped[s] \in Contextual
  /\ DOMAIN entry = Storages

RefInv == \A s \in Storages :
  /\ count[s] = CA!References(s)
  /\ s \in live <=> count[s] > 0 \/ \E t \in Tasks : Destroying(t, s)

CarryInv ==
  /\ DOMAIN stack = Tasks /\ DOMAIN doing = Tasks /\ DOMAIN count = Storages
  /\ HeapInv /\ RefInv /\ \A t \in Tasks : TaskInv(t)
  /\ \A t, u \in Tasks, s \in Storages : Destroying(t, s) /\ Destroying(u, s) => t = u

LEMMA AddOne ==
  ASSUME NEW S, IsFiniteSet(S), NEW x, x \notin S
  PROVE  Cardinality(S \cup {x}) = Cardinality(S) + 1
  BY FS_AddElement

LEMMA DropOne ==
  ASSUME NEW S, IsFiniteSet(S), NEW x \in S
  PROVE  Cardinality(S \ {x}) = Cardinality(S) - 1
  BY FS_RemoveElement

LEMMA CarryFinite ==
  ASSUME HeapInv, NEW s
  PROVE  /\ IsFiniteSet(CA!Wrappers(s)) /\ Cardinality(CA!Wrappers(s)) \in Nat
         /\ IsFiniteSet(CA!Holders(s)) /\ Cardinality(CA!Holders(s)) \in Nat
         /\ IsFiniteSet(CA!Places(s)) /\ Cardinality(CA!Places(s)) \in Nat
  <1>1. IsFiniteSet(Storages) /\ IsFiniteSet(Tasks) /\ MaxDepth \in Nat
    BY LibraryAssumption, CarrySets DEF CA!CarryAssumption
  <1>2. CA!Wrappers(s) \subseteq Storages
    BY DEF CA!Wrappers, HeapInv
  <1>3. CA!Holders(s) \subseteq Tasks
    BY DEF CA!Holders
  <1>4. CA!Places(s) \subseteq Tasks \X (1 .. MaxDepth + 1)
    BY DEF CA!Places
  <1>5. IsFiniteSet(Tasks \X (1 .. MaxDepth + 1))
    <2>1. IsFiniteSet(1 .. MaxDepth + 1)
      BY <1>1, FS_Interval
    <2> QED BY <1>1, <2>1, FS_Product
  <1> QED BY <1>1, <1>2, <1>3, <1>4, <1>5, FS_Subset, FS_CardinalityType

LEMMA CarryInit == CA!Init => CarryInv
  <1> SUFFICES ASSUME CA!Init PROVE CarryInv
    OBVIOUS
  <1>1. /\ live = {} /\ count = [s \in Storages |-> 0]
        /\ wrapped = [s \in Storages |-> Nobody] /\ entry = [s \in Storages |-> Nobody]
        /\ stack = [t \in Tasks |-> <<>>]
        /\ doing = [t \in Tasks |-> [op |-> "idle", on |-> Nobody]]
    BY DEF CA!Init, CA!Idle
  <1>2. HeapInv
    BY <1>1 DEF HeapInv
  <1>3. \A t \in Tasks : TaskInv(t)
    <2>1. MaxDepth \in Nat
      BY LibraryAssumption, CarrySets DEF CA!CarryAssumption
    <2> QED BY <1>1, <2>1 DEF TaskInv
  <1>4. \A s : CA!Wrappers(s) = {} /\ CA!Holders(s) = {} /\ CA!Places(s) = {}
    BY <1>1 DEF CA!Wrappers, CA!Holders, CA!Places, CA!On
  <1>5. \A s : CA!References(s) = 0
    <2>1. Cardinality({}) = 0
      BY FS_EmptySet
    <2> QED BY <1>4, <2>1, CarrySets DEF CA!References
  <1> QED BY <1>1, <1>2, <1>3, <1>5 DEF CarryInv, RefInv, Destroying

\* The references, as sums; before and after a step.
LEMMA Sums ==
  ASSUME NEW s
  PROVE  /\ CA!References(s) = Cardinality(CA!Wrappers(s)) + Cardinality(CA!Holders(s))
                                 + Cardinality(CA!Places(s))
         /\ CA!References(s)' = Cardinality(CA!Wrappers(s)') + Cardinality(CA!Holders(s)')
                                  + Cardinality(CA!Places(s)')
  BY CarrySets DEF CA!References

\* The references follow the changes of the three sets.
LEMMA Recount ==
  ASSUME HeapInv, NEW s, NEW w \in Int, NEW h \in Int, NEW p \in Int,
         Cardinality(CA!Wrappers(s)') = Cardinality(CA!Wrappers(s)) + w,
         Cardinality(CA!Holders(s)') = Cardinality(CA!Holders(s)) + h,
         Cardinality(CA!Places(s)') = Cardinality(CA!Places(s)) + p
  PROVE  CA!References(s) \in Nat /\ CA!References(s)' = CA!References(s) + w + h + p
  <1>1. /\ Cardinality(CA!Wrappers(s)) \in Nat /\ Cardinality(CA!Holders(s)) \in Nat
        /\ Cardinality(CA!Places(s)) \in Nat
    BY CarryFinite
  <1>2. /\ CA!References(s) = Cardinality(CA!Wrappers(s)) + Cardinality(CA!Holders(s))
                                 + Cardinality(CA!Places(s))
        /\ CA!References(s)' = Cardinality(CA!Wrappers(s)') + Cardinality(CA!Holders(s)')
                                  + Cardinality(CA!Places(s)')
    BY Sums
  <1> QED BY <1>1, <1>2

\* A storage that something refers to is counted, and lives.
LEMMA Referred ==
  ASSUME CarryInv, NEW s \in Storages,
         CA!Wrappers(s) # {} \/ CA!Holders(s) # {} \/ CA!Places(s) # {}
  PROVE  count[s] > 0 /\ s \in live /\ \A t \in Tasks : ~Destroying(t, s)
  <1>1. /\ IsFiniteSet(CA!Wrappers(s)) /\ Cardinality(CA!Wrappers(s)) \in Nat
        /\ IsFiniteSet(CA!Holders(s)) /\ Cardinality(CA!Holders(s)) \in Nat
        /\ IsFiniteSet(CA!Places(s)) /\ Cardinality(CA!Places(s)) \in Nat
    BY CarryFinite DEF CarryInv
  <1>2. \A S : IsFiniteSet(S) /\ S # {} => Cardinality(S) # 0
    BY FS_EmptySet
  <1>3. count[s] > 0
    BY <1>1, <1>2, Sums DEF CarryInv, RefInv
  <1> QED BY <1>3 DEF CarryInv, RefInv, TaskInv, Destroying

\* Nobody but t moves, and what another task is destroying stays uncounted.
LEMMA OthersKept ==
  ASSUME CarryInv, NEW t \in Tasks, NEW u \in Tasks \ {t},
         stack'[u] = stack[u], doing'[u] = doing[u],
         \A s \in Storages : Destroying(u, s) => s \in live' /\ count'[s] = count[s]
  PROVE  TaskInv(u)' /\ \A s : Destroying(u, s)' <=> Destroying(u, s)
  BY DEF CarryInv, HeapInv, TaskInv, Destroying

LEMMA ReleaseKeeps ==
  ASSUME CarryInv, NEW t \in Tasks, CA!ReleaseRef(t) PROVE CarryInv'
  <1>1. PICK x : x = doing[t].on
    OBVIOUS
  <1>2. /\ doing[t].op = "release" /\ x \in Contextual /\ DOMAIN doing = Tasks
        /\ count' = [r \in Storages |-> IF r = x THEN count[r] - 1 ELSE count[r]]
        /\ doing' = [doing EXCEPT ![t] =
             IF x # EmptyStorage /\ count[x] = 1 THEN [op |-> "destroy", on |-> x]
                                                 ELSE [op |-> "idle", on |-> Nobody]]
        /\ UNCHANGED <<live, wrapped, entry, stack>>
    BY <1>1 DEF CA!ReleaseRef, CA!Doing, CA!On, CA!Goto, CarryInv, TaskInv
  <1>3. EmptyStorage \notin Storages
    BY LibraryAssumption DEF CA!CarryAssumption
  <1>4. t \in CA!Holders(x)
    BY <1>1, <1>2 DEF CA!Holders, CA!On
  <1>5. x \in Storages => count[x] > 0 /\ x \in live /\ \A u \in Tasks : ~Destroying(u, x)
    BY <1>4, Referred
  <1>6. ASSUME NEW s
        PROVE  /\ CA!Wrappers(s)' = CA!Wrappers(s) /\ CA!Places(s)' = CA!Places(s)
               /\ CA!Holders(s)' = IF s = x THEN CA!Holders(s) \ {t} ELSE CA!Holders(s)
    <2>1. CA!Wrappers(s)' = CA!Wrappers(s) /\ CA!Places(s)' = CA!Places(s)
      BY <1>2 DEF CA!Wrappers, CA!Places
    <2>2. doing'[t].op \notin {"new", "release"} /\ \A u \in Tasks \ {t} : doing'[u] = doing[u]
      BY <1>2
    <2>3. CA!Holders(s)' = IF s = x THEN CA!Holders(s) \ {t} ELSE CA!Holders(s)
      BY <1>1, <1>2, <2>2 DEF CA!Holders, CA!On
    <2> QED BY <2>1, <2>3
  <1>7. \A s \in Storages : count[s] \in Nat /\ count'[s] = CA!References(s)'
    <2> SUFFICES ASSUME NEW s \in Storages
                 PROVE  count[s] \in Nat /\ count'[s] = CA!References(s)'
      OBVIOUS
    <2>1. /\ count[s] = CA!References(s) /\ HeapInv
          /\ Cardinality(CA!Wrappers(s)) \in Nat /\ Cardinality(CA!Holders(s)) \in Nat
          /\ Cardinality(CA!Places(s)) \in Nat /\ IsFiniteSet(CA!Holders(s))
      BY CarryFinite DEF CarryInv, RefInv
    <2>2. CA!Wrappers(s)' = CA!Wrappers(s) /\ CA!Places(s)' = CA!Places(s)
      BY <1>6
    <2>3. CASE s = x
      <3>1. CA!Holders(s)' = CA!Holders(s) \ {t}
        BY <1>6, <2>3
      <3>2. Cardinality(CA!Holders(s) \ {t}) = Cardinality(CA!Holders(s)) - 1
        BY <1>4, <2>1, <2>3, DropOne
      <3>3. /\ Cardinality(CA!Wrappers(s)') = Cardinality(CA!Wrappers(s)) + 0
            /\ Cardinality(CA!Holders(s)') = Cardinality(CA!Holders(s)) + (-1)
            /\ Cardinality(CA!Places(s)') = Cardinality(CA!Places(s)) + 0
            /\ -1 \in Int /\ 0 \in Int
        BY <2>1, <2>2, <3>1, <3>2
      <3>4. CA!References(s) \in Nat /\ CA!References(s)' = CA!References(s) + 0 + (-1) + 0
        BY ONLY <2>1, <3>3, Recount
      <3> QED BY <1>2, <2>1, <2>3, <3>4
    <2>4. CASE s # x
      <3>1. CA!Holders(s)' = CA!Holders(s)
        BY <1>6, <2>4
      <3>2. CA!References(s) \in Nat /\ CA!References(s)' = CA!References(s) + 0 + 0 + 0
        BY <2>1, <2>2, <3>1, Recount
      <3> QED BY <1>2, <2>1, <2>4, <3>2
    <2> QED BY <2>3, <2>4
  <1>8. \A u \in Tasks \ {t} : TaskInv(u)' /\ \A s : Destroying(u, s)' <=> Destroying(u, s)
    BY <1>2, <1>5, OthersKept DEF CarryInv, HeapInv, RefInv
  <1>9. \A s : Destroying(t, s)' <=> s = x /\ x # EmptyStorage /\ count[x] = 1
    BY <1>2 DEF Destroying
  <1>10. TaskInv(t)'
    BY <1>2, <1>3, <1>5 DEF TaskInv, CarryInv, Contextual
  <1>11. \A s \in Storages : s \in live' <=> count'[s] > 0 \/ \E u \in Tasks : Destroying(u, s)'
    <2> SUFFICES ASSUME NEW s \in Storages
                 PROVE  s \in live' <=> count'[s] > 0 \/ \E u \in Tasks : Destroying(u, s)'
      OBVIOUS
    <2>1. s \in live <=> count[s] > 0 \/ \E u \in Tasks : Destroying(u, s)
      BY DEF CarryInv, RefInv
    <2>2. ~Destroying(t, s)
      BY <1>2 DEF Destroying
    <2>3. CASE s = x
      <3>1. /\ count[x] \in Nat /\ count[x] > 0 /\ count'[x] = count[x] - 1 /\ s \in live'
            /\ x # EmptyStorage
        BY <1>2, <1>3, <1>5, <1>7, <2>3
      <3>2. CASE count[x] = 1
        BY <1>9, <2>3, <3>1, <3>2
      <3>3. CASE count[x] > 1
        BY <2>3, <3>1, <3>3
      <3> QED BY <3>1, <3>2, <3>3
    <2>4. CASE s # x
      BY <1>2, <1>8, <1>9, <2>1, <2>2, <2>4
    <2> QED BY <2>3, <2>4
  <1>12. \A u, w \in Tasks, s \in Storages : Destroying(u, s)' /\ Destroying(w, s)' => u = w
    BY <1>3, <1>5, <1>8, <1>9 DEF CarryInv
  <1> QED BY <1>2, <1>7, <1>8, <1>10, <1>11, <1>12 DEF CarryInv, HeapInv, RefInv

LEMMA DestroyKeeps ==
  ASSUME CarryInv, NEW t \in Tasks, CA!DestroySelf(t) PROVE CarryInv'
  <1>1. PICK x, y : x = doing[t].on /\ y = wrapped[x]
    OBVIOUS
  <1>2. /\ doing[t].op = "destroy" /\ x \in live /\ x \in Storages /\ count[x] = 0
        /\ y \in Contextual /\ DOMAIN doing = Tasks
        /\ live' = live \ {x} /\ wrapped' = [wrapped EXCEPT ![x] = Nobody]
        /\ entry' = [entry EXCEPT ![x] = Nobody]
        /\ doing' = [doing EXCEPT ![t] = [op |-> "release", on |-> y]]
        /\ UNCHANGED <<count, stack>>
    BY <1>1 DEF CA!DestroySelf, CA!Doing, CA!On, CA!Goto, CarryInv, TaskInv, HeapInv
  <1>3. Destroying(t, x) /\ \A u \in Tasks : Destroying(u, x) => u = t
    BY <1>1, <1>2 DEF CarryInv, Destroying
  <1>4. ASSUME NEW s
        PROVE  /\ CA!Places(s)' = CA!Places(s)
               /\ CA!Wrappers(s)' = IF s = y THEN CA!Wrappers(s) \ {x} ELSE CA!Wrappers(s)
               /\ CA!Holders(s)' = IF s = y THEN CA!Holders(s) \cup {t} ELSE CA!Holders(s)
    <2>1. CA!Places(s)' = CA!Places(s)
      BY <1>2 DEF CA!Places
    <2>2. CA!Wrappers(s)' = IF s = y THEN CA!Wrappers(s) \ {x} ELSE CA!Wrappers(s)
      BY <1>1, <1>2 DEF CA!Wrappers, CarryInv, HeapInv
    <2>3. /\ doing'[t].op = "release" /\ doing'[t].on = y
          /\ \A u \in Tasks \ {t} : doing'[u] = doing[u]
      BY <1>2
    <2>4. CA!Holders(s)' = IF s = y THEN CA!Holders(s) \cup {t} ELSE CA!Holders(s)
      BY <1>2, <2>3 DEF CA!Holders, CA!On
    <2> QED BY <2>1, <2>2, <2>4
  <1>5. x \in CA!Wrappers(y) /\ \A s : t \notin CA!Holders(s)
    BY <1>1, <1>2 DEF CA!Wrappers, CA!Holders, CA!On
  <1>6. \A s \in Storages : count'[s] = CA!References(s)'
    <2> SUFFICES ASSUME NEW s \in Storages PROVE count'[s] = CA!References(s)'
      OBVIOUS
    <2>1. /\ count[s] = CA!References(s) /\ HeapInv
          /\ Cardinality(CA!Wrappers(s)) \in Nat /\ Cardinality(CA!Holders(s)) \in Nat
          /\ Cardinality(CA!Places(s)) \in Nat
          /\ IsFiniteSet(CA!Holders(s)) /\ IsFiniteSet(CA!Wrappers(s))
      BY CarryFinite DEF CarryInv, RefInv
    <2>2. CA!Places(s)' = CA!Places(s)
      BY <1>4
    <2>3. CASE s = y
      <3>1. /\ CA!Wrappers(s)' = CA!Wrappers(s) \ {x}
            /\ CA!Holders(s)' = CA!Holders(s) \cup {t}
        BY <1>4, <2>3
      <3>2. Cardinality(CA!Wrappers(s) \ {x}) = Cardinality(CA!Wrappers(s)) - 1
        BY <1>5, <2>1, <2>3, DropOne
      <3>3. Cardinality(CA!Holders(s) \cup {t}) = Cardinality(CA!Holders(s)) + 1
        BY <1>5, <2>1, AddOne
      <3>4. /\ Cardinality(CA!Wrappers(s)') = Cardinality(CA!Wrappers(s)) + (-1)
            /\ Cardinality(CA!Holders(s)') = Cardinality(CA!Holders(s)) + 1
            /\ Cardinality(CA!Places(s)') = Cardinality(CA!Places(s)) + 0
            /\ -1 \in Int /\ 0 \in Int /\ 1 \in Int
        BY <2>1, <2>2, <3>1, <3>2, <3>3
      <3>5. CA!References(s) \in Nat /\ CA!References(s)' = CA!References(s) + (-1) + 1 + 0
        BY ONLY <2>1, <3>4, Recount
      <3> QED BY <1>2, <2>1, <3>5
    <2>4. CASE s # y
      <3>1. CA!Wrappers(s)' = CA!Wrappers(s) /\ CA!Holders(s)' = CA!Holders(s)
        BY <1>4, <2>4
      <3>2. CA!References(s) \in Nat /\ CA!References(s)' = CA!References(s) + 0 + 0 + 0
        BY <2>1, <2>2, <3>1, Recount
      <3> QED BY <1>2, <2>1, <3>2
    <2> QED BY <2>3, <2>4
  <1>7. \A u \in Tasks \ {t} : TaskInv(u)' /\ \A s : Destroying(u, s)' <=> Destroying(u, s)
    <2> SUFFICES ASSUME NEW u \in Tasks \ {t}
                 PROVE  TaskInv(u)' /\ \A s : Destroying(u, s)' <=> Destroying(u, s)
      OBVIOUS
    <2>1. \A s \in Storages : Destroying(u, s) => s \in live' /\ count'[s] = count[s]
      BY <1>2, <1>3 DEF CarryInv, TaskInv, Destroying
    <2> QED BY <1>2, <2>1, OthersKept
  <1>8. TaskInv(t)' /\ \A s : ~Destroying(t, s)'
    BY <1>2 DEF TaskInv, CarryInv, Destroying
  <1>9. \A s \in Storages : s \in live' <=> count'[s] > 0 \/ \E u \in Tasks : Destroying(u, s)'
    <2> SUFFICES ASSUME NEW s \in Storages
                 PROVE  s \in live' <=> count'[s] > 0 \/ \E u \in Tasks : Destroying(u, s)'
      OBVIOUS
    <2>1. s \in live <=> count[s] > 0 \/ \E u \in Tasks : Destroying(u, s)
      BY DEF CarryInv, RefInv
    <2>2. CASE s = x
      BY <1>2, <1>3, <1>7, <1>8, <2>2
    <2>3. CASE s # x
      <3>1. ~Destroying(t, s)
        BY <1>1, <2>3 DEF Destroying
      <3> QED BY <1>2, <1>7, <1>8, <2>1, <2>3, <3>1
    <2> QED BY <2>2, <2>3
  <1>10. HeapInv'
    BY <1>2 DEF CarryInv, HeapInv
  <1>11. \A u, w \in Tasks, s \in Storages : Destroying(u, s)' /\ Destroying(w, s)' => u = w
    BY <1>7, <1>8 DEF CarryInv
  <1> QED BY <1>2, <1>6, <1>7, <1>8, <1>9, <1>10, <1>11 DEF CarryInv, RefInv

-----------------------------------------------------------------------------
(* Steps that change a stack.                                               *)

LEMMA Grown ==
  ASSUME CarryInv, NEW t \in Tasks, NEW o \in Contextual, Len(stack[t]) <= MaxDepth,
         stack' = [stack EXCEPT ![t] = Append(stack[t], o)]
  PROVE  /\ DOMAIN stack' = Tasks /\ \A u \in Tasks \ {t} : stack'[u] = stack[u]
         /\ stack'[t] \in Seq(Contextual) /\ Len(stack'[t]) <= MaxDepth + 1 /\ stack'[t] # <<>>
         /\ \A s : s # o => CA!Places(s)' = CA!Places(s)
         /\ CA!Places(o)' = CA!Places(o) \cup {<<t, Len(stack[t]) + 1>>}
         /\ Cardinality(CA!Places(o)') = Cardinality(CA!Places(o)) + 1
  <1>1. PICK b, n : b = stack[t] /\ n = Len(stack[t])
    OBVIOUS
  <1>2. /\ b \in Seq(Contextual) /\ n \in Nat /\ n = Len(b) /\ n <= MaxDepth /\ MaxDepth \in Nat
        /\ DOMAIN stack = Tasks /\ HeapInv
    BY <1>1, LibraryAssumption DEF CarryInv, TaskInv, CA!CarryAssumption
  <1>3. PICK c : c = Append(b, o)
    OBVIOUS
  <1>4. /\ c \in Seq(Contextual) /\ Len(c) = n + 1 /\ c[n + 1] = o
        /\ DOMAIN c = 1 .. n + 1 /\ DOMAIN b = 1 .. n
        /\ \A i \in 1 .. n : c[i] = b[i]
    BY <1>2, <1>3
  <1>5. /\ DOMAIN stack' = Tasks /\ stack'[t] = c
        /\ \A u \in Tasks \ {t} : stack'[u] = stack[u]
    BY <1>1, <1>2, <1>3
  <1>6. stack'[t] \in Seq(Contextual) /\ Len(stack'[t]) <= MaxDepth + 1 /\ stack'[t] # <<>>
    <2>1. Len(<<>>) = 0
      OBVIOUS
    <2>2. Len(c) # 0 /\ Len(c) <= MaxDepth + 1
      BY <1>2, <1>4
    <2> QED BY <1>4, <1>5, <2>1, <2>2
  <1>7. ASSUME NEW s, NEW x \in Tasks \X (1 .. MaxDepth + 1)
        PROVE  (x[2] \in DOMAIN stack'[x[1]] /\ stack'[x[1]][x[2]] = s) <=>
                 \/ x[2] \in DOMAIN stack[x[1]] /\ stack[x[1]][x[2]] = s
                 \/ s = o /\ x = <<t, n + 1>>
    <2>1. CASE x[1] # t
      BY <1>5, <2>1
    <2>2. CASE x[1] = t
      <3>1. x = <<t, x[2]>> /\ x[2] \in Nat
        BY <2>2
      <3>2. x[2] \in 1 .. n + 1 <=> x[2] \in 1 .. n \/ x[2] = n + 1
        BY <1>2, <3>1
      <3>3. n + 1 \notin 1 .. n
        BY <1>2
      <3>4. x = <<t, n + 1>> <=> x[2] = n + 1
        BY <3>1
      <3> QED BY <1>1, <1>4, <1>5, <2>2, <3>2, <3>3, <3>4
    <2> QED BY <2>1, <2>2
  <1>8. <<t, n + 1>> \in Tasks \X (1 .. MaxDepth + 1) /\ <<t, n + 1>> \notin CA!Places(o)
    BY <1>1, <1>2, <1>4 DEF CA!Places
  <1>9. \A s : s # o => CA!Places(s)' = CA!Places(s)
    BY <1>7 DEF CA!Places
  <1>10. CA!Places(o)' = CA!Places(o) \cup {<<t, n + 1>>}
    BY <1>7, <1>8 DEF CA!Places
  <1>11. Cardinality(CA!Places(o)') = Cardinality(CA!Places(o)) + 1
    BY <1>2, <1>8, <1>10, CarryFinite, AddOne
  <1> QED BY <1>1, <1>5, <1>6, <1>9, <1>10, <1>11

\* What is last in a stack has a place there.
LEMMA LastPlace ==
  ASSUME CarryInv, NEW t \in Tasks, stack[t] # <<>>
  PROVE  /\ CA!Last(stack[t]) = stack[t][Len(stack[t])] /\ CA!Last(stack[t]) \in Contextual
         /\ <<t, Len(stack[t])>> \in CA!Places(CA!Last(stack[t]))
         /\ Len(stack[t]) \in Nat \ {0}
  <1>1. /\ stack[t] \in Seq(Contextual) /\ Len(stack[t]) <= MaxDepth + 1 /\ MaxDepth \in Nat
    BY LibraryAssumption DEF CarryInv, TaskInv, CA!CarryAssumption
  <1>2. /\ Len(stack[t]) \in 1 .. MaxDepth + 1 /\ Len(stack[t]) \in DOMAIN stack[t]
        /\ stack[t][Len(stack[t])] \in Contextual /\ Len(stack[t]) \in Nat \ {0}
    BY <1>1
  <1>3. CA!Last(stack[t]) = stack[t][Len(stack[t])]
    BY DEF CA!Last
  <1>4. <<t, Len(stack[t])>> \in Tasks \X (1 .. MaxDepth + 1)
    BY <1>2
  <1> QED BY <1>2, <1>3, <1>4 DEF CA!Places

LEMMA Shrunk ==
  ASSUME CarryInv, NEW t \in Tasks, stack[t] # <<>>, NEW o, o = CA!Last(stack[t]),
         stack' = [stack EXCEPT ![t] = CA!Front(stack[t])]
  PROVE  /\ DOMAIN stack' = Tasks /\ \A u \in Tasks \ {t} : stack'[u] = stack[u]
         /\ stack'[t] \in Seq(Contextual) /\ Len(stack'[t]) <= MaxDepth + 1
         /\ \A s : s # o => CA!Places(s)' = CA!Places(s)
         /\ Cardinality(CA!Places(o)') = Cardinality(CA!Places(o)) - 1
  <1>1. PICK b, n : b = stack[t] /\ n = Len(stack[t])
    OBVIOUS
  <1>2. /\ b \in Seq(Contextual) /\ n \in Nat \ {0} /\ n = Len(b) /\ n <= MaxDepth + 1
        /\ MaxDepth \in Nat /\ DOMAIN stack = Tasks /\ HeapInv
        /\ o = b[n] /\ <<t, n>> \in CA!Places(o)
    BY <1>1, LastPlace, LibraryAssumption DEF CarryInv, TaskInv, CA!CarryAssumption
  <1>3. PICK c : c = SubSeq(b, 1, n - 1)
    OBVIOUS
  <1>4. /\ c \in Seq(Contextual) /\ Len(c) = n - 1
        /\ DOMAIN c = 1 .. n - 1 /\ DOMAIN b = 1 .. n
        /\ \A i \in 1 .. n - 1 : c[i] = b[i]
    BY <1>2, <1>3
  <1>5. /\ DOMAIN stack' = Tasks /\ stack'[t] = c
        /\ \A u \in Tasks \ {t} : stack'[u] = stack[u]
    BY <1>1, <1>2, <1>3 DEF CA!Front
  <1>6. stack'[t] \in Seq(Contextual) /\ Len(stack'[t]) <= MaxDepth + 1
    BY <1>2, <1>4, <1>5
  <1>7. ASSUME NEW s, NEW x \in Tasks \X (1 .. MaxDepth + 1)
        PROVE  (x[2] \in DOMAIN stack'[x[1]] /\ stack'[x[1]][x[2]] = s) <=>
                 (x[2] \in DOMAIN stack[x[1]] /\ stack[x[1]][x[2]] = s) /\ ~(s = o /\ x = <<t, n>>)
    <2>1. CASE x[1] # t
      BY <1>5, <2>1
    <2>2. CASE x[1] = t
      <3>1. x = <<t, x[2]>> /\ x[2] \in Nat
        BY <2>2
      <3>2. x[2] \in 1 .. n <=> x[2] \in 1 .. n - 1 \/ x[2] = n
        BY <1>2, <3>1
      <3>3. n \notin 1 .. n - 1
        BY <1>2
      <3>4. x = <<t, n>> <=> x[2] = n
        BY <3>1
      <3> QED BY <1>1, <1>2, <1>4, <1>5, <2>2, <3>2, <3>3, <3>4
    <2> QED BY <2>1, <2>2
  <1>8. ASSUME NEW s, s # o PROVE CA!Places(s)' = CA!Places(s)
    <2>1. \A x \in Tasks \X (1 .. MaxDepth + 1) :
            (x[2] \in DOMAIN stack'[x[1]] /\ stack'[x[1]][x[2]] = s) <=>
            (x[2] \in DOMAIN stack[x[1]] /\ stack[x[1]][x[2]] = s)
      BY <1>7, <1>8
    <2> QED BY <2>1 DEF CA!Places
  <1>9. CA!Places(o)' = CA!Places(o) \ {<<t, n>>}
    <2>1. \A x \in Tasks \X (1 .. MaxDepth + 1) :
            (x[2] \in DOMAIN stack'[x[1]] /\ stack'[x[1]][x[2]] = o) <=>
            (x[2] \in DOMAIN stack[x[1]] /\ stack[x[1]][x[2]] = o) /\ x # <<t, n>>
      BY <1>7
    <2> QED BY <2>1 DEF CA!Places
  <1>10. Cardinality(CA!Places(o)') = Cardinality(CA!Places(o)) - 1
    BY <1>2, <1>9, CarryFinite, DropOne
  <1> QED BY <1>5, <1>6, <1>8, <1>10

\* When nothing is allocated or destroyed, and no count comes to or from zero.
LEMMA Settled ==
  ASSUME CarryInv, live' = live,
         \A s \in Storages : count'[s] = count[s] \/ (count[s] > 0 /\ count'[s] > 0),
         \A u \in Tasks, s \in Storages : Destroying(u, s)' <=> Destroying(u, s)
  PROVE  /\ \A s \in Storages : s \in live' <=> count'[s] > 0 \/ \E u \in Tasks : Destroying(u, s)'
         /\ \A u, w \in Tasks, s \in Storages : Destroying(u, s)' /\ Destroying(w, s)' => u = w
  BY DEF CarryInv, RefInv

LEMMA CountType == ASSUME CarryInv PROVE \A s \in Storages : count[s] \in Nat
  <1> SUFFICES ASSUME NEW s \in Storages PROVE count[s] \in Nat
    OBVIOUS
  <1>1. /\ count[s] = CA!References(s)
        /\ Cardinality(CA!Wrappers(s)) \in Nat /\ Cardinality(CA!Holders(s)) \in Nat
        /\ Cardinality(CA!Places(s)) \in Nat
    BY CarryFinite DEF CarryInv, RefInv
  <1>2. CA!References(s) = Cardinality(CA!Wrappers(s)) + Cardinality(CA!Holders(s))
                             + Cardinality(CA!Places(s))
    BY Sums
  <1> QED BY <1>1, <1>2

\* A reference is added to what a stack already refers to.
LEMMA AddedTo ==
  ASSUME CarryInv, NEW x, CA!Places(x) # {}, count' = CA!Added(x)
  PROVE  /\ DOMAIN count' = Storages
         /\ \A s \in Storages :
              /\ s # x => count'[s] = count[s]
              /\ s = x => count[s] > 0 /\ count'[s] = count[s] + 1
              /\ count'[s] = count[s] \/ (count[s] > 0 /\ count'[s] > 0)
  <1>1. \A s \in Storages : count[s] \in Nat
    BY CountType
  <1>2. x \in Storages => count[x] > 0 /\ \A u \in Tasks : ~Destroying(u, x)
    BY Referred
  <1> QED BY <1>1, <1>2 DEF CA!Added

LEMMA StartEmptyKeeps ==
  ASSUME CarryInv, NEW t \in Tasks, CA!StartEmpty(t) PROVE CarryInv'
  <1>1. /\ doing[t].op = "idle" /\ stack[t] = <<>>
        /\ stack' = [stack EXCEPT ![t] = <<EmptyStorage>>]
        /\ UNCHANGED <<live, count, wrapped, entry, doing>>
    BY DEF CA!StartEmpty, CA!Doing, CA!heap
  <1>2. EmptyStorage \in Contextual /\ EmptyStorage \notin Storages /\ MaxDepth \in Nat
    BY LibraryAssumption DEF Contextual, CA!CarryAssumption
  <1>3. /\ stack' = [stack EXCEPT ![t] = Append(stack[t], EmptyStorage)]
        /\ Len(stack[t]) <= MaxDepth
    <2>1. Append(<<>>, EmptyStorage) = <<EmptyStorage>> /\ Len(<<>>) = 0
      OBVIOUS
    <2> QED BY <1>1, <1>2, <2>1
  <1>4. /\ DOMAIN stack' = Tasks /\ \A u \in Tasks \ {t} : stack'[u] = stack[u]
        /\ stack'[t] \in Seq(Contextual) /\ Len(stack'[t]) <= MaxDepth + 1
        /\ \A s : s # EmptyStorage => CA!Places(s)' = CA!Places(s)
    BY <1>2, <1>3, Grown
  <1>5. ASSUME NEW s \in Storages PROVE count'[s] = CA!References(s)'
    <2>1. CA!Wrappers(s)' = CA!Wrappers(s) /\ CA!Holders(s)' = CA!Holders(s)
      BY <1>1 DEF CA!Wrappers, CA!Holders, CA!On
    <2>2. /\ HeapInv /\ count[s] = CA!References(s)
          /\ Cardinality(CA!Wrappers(s)) \in Nat /\ Cardinality(CA!Holders(s)) \in Nat
          /\ Cardinality(CA!Places(s)) \in Nat
      BY CarryFinite DEF CarryInv, RefInv
    <2>3. CA!Places(s)' = CA!Places(s)
      BY <1>2, <1>4
    <2>4. CA!References(s) \in Nat /\ CA!References(s)' = CA!References(s) + 0 + 0 + 0
      BY <2>1, <2>2, <2>3, Recount
    <2> QED BY <1>1, <2>2, <2>4
  <1>6. \A u \in Tasks, s \in Storages : Destroying(u, s)' <=> Destroying(u, s)
    BY <1>1 DEF Destroying
  <1>7. /\ \A s \in Storages : s \in live' <=> count'[s] > 0 \/ \E u \in Tasks : Destroying(u, s)'
        /\ \A u, w \in Tasks, s \in Storages : Destroying(u, s)' /\ Destroying(w, s)' => u = w
    BY <1>1, <1>6, Settled
  <1>8. \A u \in Tasks : TaskInv(u)'
    BY <1>1, <1>4 DEF CarryInv, TaskInv
  <1>9. HeapInv'
    BY <1>1 DEF CarryInv, HeapInv
  <1> QED BY <1>1, <1>4, <1>5, <1>7, <1>8, <1>9 DEF CarryInv, RefInv

LEMMA StartFromKeeps ==
  ASSUME CarryInv, NEW t \in Tasks, NEW u \in Tasks, CA!StartFrom(t, u) PROVE CarryInv'
  <1>1. PICK x : x = CA!Last(stack[u])
    OBVIOUS
  <1>2. /\ doing[t].op = "idle" /\ stack[t] = <<>> /\ stack[u] # <<>>
        /\ stack' = [stack EXCEPT ![t] = <<x>>] /\ count' = CA!Added(x)
        /\ UNCHANGED <<live, wrapped, entry, doing>>
    BY <1>1 DEF CA!StartFrom, CA!Doing
  <1>3. x \in Contextual /\ CA!Places(x) # {} /\ MaxDepth \in Nat
    BY <1>1, <1>2, LastPlace, LibraryAssumption DEF CA!CarryAssumption
  <1>4. stack' = [stack EXCEPT ![t] = Append(stack[t], x)] /\ Len(stack[t]) <= MaxDepth
    <2>1. Append(<<>>, x) = <<x>> /\ Len(<<>>) = 0
      OBVIOUS
    <2> QED BY <1>2, <1>3, <2>1
  <1>5. /\ DOMAIN stack' = Tasks /\ \A w \in Tasks \ {t} : stack'[w] = stack[w]
        /\ stack'[t] \in Seq(Contextual) /\ Len(stack'[t]) <= MaxDepth + 1
        /\ \A s : s # x => CA!Places(s)' = CA!Places(s)
        /\ Cardinality(CA!Places(x)') = Cardinality(CA!Places(x)) + 1
    BY <1>3, <1>4, Grown
  <1>6. /\ DOMAIN count' = Storages
        /\ \A s \in Storages :
             /\ s # x => count'[s] = count[s]
             /\ s = x => count'[s] = count[s] + 1
             /\ count'[s] = count[s] \/ (count[s] > 0 /\ count'[s] > 0)
    BY <1>2, <1>3, AddedTo
  <1>7. ASSUME NEW s \in Storages PROVE count'[s] = CA!References(s)'
    <2>1. CA!Wrappers(s)' = CA!Wrappers(s) /\ CA!Holders(s)' = CA!Holders(s)
      BY <1>2 DEF CA!Wrappers, CA!Holders, CA!On
    <2>2. /\ HeapInv /\ count[s] = CA!References(s)
          /\ Cardinality(CA!Wrappers(s)) \in Nat /\ Cardinality(CA!Holders(s)) \in Nat
          /\ Cardinality(CA!Places(s)) \in Nat
      BY CarryFinite DEF CarryInv, RefInv
    <2>3. CASE s = x
      <3>1. CA!References(s) \in Nat /\ CA!References(s)' = CA!References(s) + 0 + 0 + 1
        BY <1>5, <2>1, <2>2, <2>3, Recount
      <3>2. count'[s] = count[s] + 1
        BY <1>6, <1>7, <2>3
      <3> QED BY <2>2, <3>1, <3>2
    <2>4. CASE s # x
      <3>1. CA!References(s) \in Nat /\ CA!References(s)' = CA!References(s) + 0 + 0 + 0
        BY <1>5, <2>1, <2>2, <2>4, Recount
      <3>2. count'[s] = count[s]
        BY <1>6, <1>7, <2>4
      <3> QED BY <2>2, <3>1, <3>2
    <2> QED BY <2>3, <2>4
  <1>8. \A w \in Tasks, s \in Storages : Destroying(w, s)' <=> Destroying(w, s)
    BY <1>2 DEF Destroying
  <1>9. /\ \A s \in Storages : s \in live' <=> count'[s] > 0 \/ \E w \in Tasks : Destroying(w, s)'
        /\ \A v, w \in Tasks, s \in Storages : Destroying(v, s)' /\ Destroying(w, s)' => v = w
    BY <1>2, <1>6, <1>8, Settled
  <1>10. x \in Storages => \A w \in Tasks : ~Destroying(w, x)
    BY <1>3, Referred
  <1>11. ASSUME NEW w \in Tasks PROVE TaskInv(w)'
    <2>1. TaskInv(w) /\ HeapInv
      BY DEF CarryInv
    <2>2. doing[w].op = "destroy" => count'[doing[w].on] = count[doing[w].on]
      <3> SUFFICES ASSUME doing[w].op = "destroy" PROVE count'[doing[w].on] = count[doing[w].on]
        OBVIOUS
      <3>1. Destroying(w, doing[w].on) /\ doing[w].on \in Storages
        BY <2>1 DEF TaskInv, HeapInv, Destroying
      <3> QED BY <1>6, <1>10, <3>1
    <2>3. CASE w = t
      BY <1>2, <1>5, <2>1, <2>2, <2>3 DEF TaskInv
    <2>4. CASE w # t
      BY <1>2, <1>5, <2>1, <2>2, <2>4 DEF TaskInv
    <2> QED BY <2>3, <2>4
  <1>12. HeapInv'
    BY <1>2 DEF CarryInv, HeapInv
  <1> QED BY <1>2, <1>5, <1>6, <1>7, <1>9, <1>11, <1>12 DEF CarryInv, RefInv

LEMMA WrapKeeps ==
  ASSUME CarryInv, NEW t \in Tasks, CA!Wrap(t) PROVE CarryInv'
  <1>1. PICK x : x = CA!Last(stack[t])
    OBVIOUS
  <1>2. /\ doing[t].op = "idle" /\ stack[t] # <<>> /\ Len(stack[t]) <= MaxDepth
        /\ count' = CA!Added(x) /\ doing' = [doing EXCEPT ![t] = [op |-> "new", on |-> x]]
        /\ UNCHANGED <<live, wrapped, entry, stack>>
    BY <1>1 DEF CA!Wrap, CA!Doing, CA!Goto
  <1>3. x \in Contextual /\ CA!Places(x) # {}
    BY <1>1, <1>2, LastPlace
  <1>4. /\ doing'[t] = [op |-> "new", on |-> x] /\ DOMAIN doing' = Tasks
        /\ \A u \in Tasks \ {t} : doing'[u] = doing[u]
    BY <1>2 DEF CarryInv
  <1>5. /\ DOMAIN count' = Storages
        /\ \A s \in Storages :
             /\ s # x => count'[s] = count[s]
             /\ s = x => count'[s] = count[s] + 1
             /\ count'[s] = count[s] \/ (count[s] > 0 /\ count'[s] > 0)
    BY <1>2, <1>3, AddedTo
  <1>6. ASSUME NEW s \in Storages PROVE count'[s] = CA!References(s)'
    <2>1. CA!Wrappers(s)' = CA!Wrappers(s) /\ CA!Places(s)' = CA!Places(s)
      BY <1>2 DEF CA!Wrappers, CA!Places
    <2>2. /\ HeapInv /\ count[s] = CA!References(s)
          /\ Cardinality(CA!Wrappers(s)) \in Nat /\ Cardinality(CA!Holders(s)) \in Nat
          /\ Cardinality(CA!Places(s)) \in Nat /\ IsFiniteSet(CA!Holders(s))
      BY <1>6, CarryFinite DEF CarryInv, RefInv
    <2>3. t \notin CA!Holders(s)
      BY <1>2 DEF CA!Holders
    <2>4. CASE s = x
      <3>1. CA!Holders(s)' = CA!Holders(s) \cup {t}
        BY <1>2, <1>4, <2>4 DEF CA!Holders, CA!On
      <3>2. Cardinality(CA!Holders(s)') = Cardinality(CA!Holders(s)) + 1
        BY <2>2, <2>3, <3>1, AddOne
      <3>3. CA!References(s) \in Nat /\ CA!References(s)' = CA!References(s) + 0 + 1 + 0
        BY <2>1, <2>2, <3>2, Recount
      <3>4. count'[s] = count[s] + 1
        BY <1>5, <1>6, <2>4
      <3> QED BY <2>2, <3>3, <3>4
    <2>5. CASE s # x
      <3>1. CA!Holders(s)' = CA!Holders(s)
        BY <1>2, <1>4, <2>5 DEF CA!Holders, CA!On
      <3>2. CA!References(s) \in Nat /\ CA!References(s)' = CA!References(s) + 0 + 0 + 0
        BY <2>1, <2>2, <3>1, Recount
      <3>3. count'[s] = count[s]
        BY <1>5, <1>6, <2>5
      <3> QED BY <2>2, <3>2, <3>3
    <2> QED BY <2>4, <2>5
  <1>7. \A u \in Tasks, s \in Storages : Destroying(u, s)' <=> Destroying(u, s)
    BY <1>2, <1>4 DEF Destroying
  <1>8. /\ \A s \in Storages : s \in live' <=> count'[s] > 0 \/ \E u \in Tasks : Destroying(u, s)'
        /\ \A u, w \in Tasks, s \in Storages : Destroying(u, s)' /\ Destroying(w, s)' => u = w
    BY <1>2, <1>5, <1>7, Settled
  <1>9. x \in Storages => \A u \in Tasks : ~Destroying(u, x)
    BY <1>3, Referred
  <1>10. ASSUME NEW u \in Tasks PROVE TaskInv(u)'
    <2>1. TaskInv(u) /\ HeapInv
      BY <1>10 DEF CarryInv
    <2>2. CASE u = t
      BY <1>2, <1>3, <1>4, <2>1, <2>2 DEF TaskInv
    <2>3. CASE u # t
      <3>1. \A s \in Storages : Destroying(u, s) => s \in live' /\ count'[s] = count[s]
        BY <1>2, <1>5, <1>9, <1>10, <2>1 DEF TaskInv, Destroying
      <3> QED BY <1>2, <1>4, <1>10, <2>3, <3>1, OthersKept
    <2> QED BY <2>2, <2>3
  <1>11. HeapInv'
    BY <1>2 DEF CarryInv, HeapInv
  <1> QED BY <1>2, <1>4, <1>5, <1>6, <1>8, <1>10, <1>11 DEF CarryInv, RefInv

LEMMA LeaveKeeps ==
  ASSUME CarryInv, NEW t \in Tasks, CA!Leave(t) PROVE CarryInv'
  <1>1. PICK x : x = CA!Last(stack[t])
    OBVIOUS
  <1>2. /\ doing[t].op = "idle" /\ stack[t] # <<>>
        /\ stack' = [stack EXCEPT ![t] = CA!Front(stack[t])]
        /\ doing' = [doing EXCEPT ![t] = [op |-> "release", on |-> x]]
        /\ UNCHANGED <<live, count, wrapped, entry>>
    BY <1>1 DEF CA!Leave, CA!Doing, CA!Goto, CA!heap
  <1>3. x \in Contextual
    BY <1>1, <1>2, LastPlace
  <1>4. /\ doing'[t] = [op |-> "release", on |-> x] /\ DOMAIN doing' = Tasks
        /\ \A u \in Tasks \ {t} : doing'[u] = doing[u]
    BY <1>2 DEF CarryInv
  <1>5. /\ DOMAIN stack' = Tasks /\ \A u \in Tasks \ {t} : stack'[u] = stack[u]
        /\ stack'[t] \in Seq(Contextual) /\ Len(stack'[t]) <= MaxDepth + 1
        /\ \A s : s # x => CA!Places(s)' = CA!Places(s)
        /\ Cardinality(CA!Places(x)') = Cardinality(CA!Places(x)) - 1
    BY <1>1, <1>2, Shrunk
  <1>6. ASSUME NEW s \in Storages PROVE count'[s] = CA!References(s)'
    <2>1. CA!Wrappers(s)' = CA!Wrappers(s)
      BY <1>2 DEF CA!Wrappers
    <2>2. /\ HeapInv /\ count[s] = CA!References(s)
          /\ Cardinality(CA!Wrappers(s)) \in Nat /\ Cardinality(CA!Holders(s)) \in Nat
          /\ Cardinality(CA!Places(s)) \in Nat /\ IsFiniteSet(CA!Holders(s))
      BY <1>6, CarryFinite DEF CarryInv, RefInv
    <2>3. t \notin CA!Holders(s)
      BY <1>2 DEF CA!Holders
    <2>4. CASE s = x
      <3>1. CA!Holders(s)' = CA!Holders(s) \cup {t}
        BY <1>2, <1>4, <2>4 DEF CA!Holders, CA!On
      <3>2. Cardinality(CA!Holders(s)') = Cardinality(CA!Holders(s)) + 1
        BY <2>2, <2>3, <3>1, AddOne
      <3>3. /\ Cardinality(CA!Wrappers(s)') = Cardinality(CA!Wrappers(s)) + 0
            /\ Cardinality(CA!Places(s)') = Cardinality(CA!Places(s)) + (-1)
            /\ -1 \in Int /\ 0 \in Int /\ 1 \in Int
        BY <1>5, <2>1, <2>2, <2>4
      <3>4. CA!References(s) \in Nat /\ CA!References(s)' = CA!References(s) + 0 + 1 + (-1)
        BY ONLY <2>2, <3>2, <3>3, Recount
      <3> QED BY <1>2, <2>2, <3>4
    <2>5. CASE s # x
      <3>1. CA!Holders(s)' = CA!Holders(s)
        BY <1>2, <1>4, <2>5 DEF CA!Holders, CA!On
      <3>2. CA!References(s) \in Nat /\ CA!References(s)' = CA!References(s) + 0 + 0 + 0
        BY <1>5, <2>1, <2>2, <2>5, <3>1, Recount
      <3> QED BY <1>2, <2>2, <3>2
    <2> QED BY <2>4, <2>5
  <1>7. \A u \in Tasks, s \in Storages : Destroying(u, s)' <=> Destroying(u, s)
    BY <1>2, <1>4 DEF Destroying
  <1>8. /\ \A s \in Storages : s \in live' <=> count'[s] > 0 \/ \E u \in Tasks : Destroying(u, s)'
        /\ \A u, w \in Tasks, s \in Storages : Destroying(u, s)' /\ Destroying(w, s)' => u = w
    BY <1>2, <1>7, Settled
  <1>9. ASSUME NEW u \in Tasks PROVE TaskInv(u)'
    <2>1. TaskInv(u) /\ HeapInv
      BY <1>9 DEF CarryInv
    <2>2. CASE u = t
      BY <1>2, <1>3, <1>4, <1>5, <2>1, <2>2 DEF TaskInv
    <2>3. CASE u # t
      <3>1. \A s \in Storages : Destroying(u, s) => s \in live' /\ count'[s] = count[s]
        BY <1>2, <2>1 DEF TaskInv, Destroying
      <3> QED BY <1>4, <1>5, <1>9, <2>3, <3>1, OthersKept
    <2> QED BY <2>2, <2>3
  <1>10. HeapInv'
    BY <1>2 DEF CarryInv, HeapInv
  <1> QED BY <1>2, <1>4, <1>5, <1>6, <1>8, <1>9, <1>10 DEF CarryInv, RefInv

LEMMA DoneAndSetKeeps ==
  ASSUME CarryInv, NEW t \in Tasks, NEW k, NEW v, CA!DoneAndSet(t, k, v) PROVE CarryInv'
  <1>1. PICK x : x = doing[t].on
    OBVIOUS
  <1>2. PICK o \in Storages \ live :
          /\ live' = live \cup {o} /\ count' = [count EXCEPT ![o] = 1]
          /\ wrapped' = [wrapped EXCEPT ![o] = x] /\ entry' = [entry EXCEPT ![o] = <<k, v>>]
          /\ stack' = [stack EXCEPT ![t] = Append(stack[t], o)]
    BY <1>1 DEF CA!DoneAndSet, CA!On
  <1>3. /\ doing[t].op = "new" /\ x \in Contextual /\ o \in Contextual /\ Len(stack[t]) <= MaxDepth
        /\ doing' = [doing EXCEPT ![t] = [op |-> "idle", on |-> Nobody]]
    BY <1>1 DEF CA!DoneAndSet, CA!Doing, CA!Goto, CarryInv, TaskInv, Contextual
  <1>4. /\ doing'[t] = [op |-> "idle", on |-> Nobody] /\ DOMAIN doing' = Tasks
        /\ \A u \in Tasks \ {t} : doing'[u] = doing[u]
    BY <1>3 DEF CarryInv
  <1>5. /\ DOMAIN stack' = Tasks /\ \A u \in Tasks \ {t} : stack'[u] = stack[u]
        /\ stack'[t] \in Seq(Contextual) /\ Len(stack'[t]) <= MaxDepth + 1
        /\ \A s : s # o => CA!Places(s)' = CA!Places(s)
        /\ Cardinality(CA!Places(o)') = Cardinality(CA!Places(o)) + 1
    BY <1>2, <1>3, Grown
  <1>6. CA!Wrappers(o) = {} /\ CA!Holders(o) = {} /\ CA!Places(o) = {}
    BY <1>2, Referred
  <1>7. t \in CA!Holders(x) /\ x # o
    BY <1>1, <1>3, <1>6 DEF CA!Holders, CA!On
  <1>8. /\ live \subseteq Storages /\ DOMAIN wrapped = Storages /\ HeapInv
        /\ DOMAIN count = Storages /\ EmptyStorage \notin Storages
    BY LibraryAssumption DEF CarryInv, HeapInv, CA!CarryAssumption
  <1>9. ASSUME NEW s
        PROVE  /\ s = x => CA!Wrappers(s)' = CA!Wrappers(s) \cup {o}
               /\ s # x => CA!Wrappers(s)' = CA!Wrappers(s)
               /\ s = x => CA!Holders(s)' = CA!Holders(s) \ {t}
               /\ s # x => CA!Holders(s)' = CA!Holders(s)
    <2>1. /\ wrapped'[o] = x
          /\ \A r \in live : wrapped'[r] = wrapped[r]
      BY <1>2, <1>8
    <2>2. /\ s = x => CA!Wrappers(s)' = CA!Wrappers(s) \cup {o}
          /\ s # x => CA!Wrappers(s)' = CA!Wrappers(s)
      BY <1>2, <2>1 DEF CA!Wrappers
    <2>3. /\ s = x => CA!Holders(s)' = CA!Holders(s) \ {t}
          /\ s # x => CA!Holders(s)' = CA!Holders(s)
      BY <1>1, <1>3, <1>4 DEF CA!Holders, CA!On
    <2> QED BY <2>2, <2>3
  <1>10. o \notin CA!Wrappers(x)
    BY <1>2 DEF CA!Wrappers
  <1>11. ASSUME NEW s \in Storages PROVE count'[s] = CA!References(s)'
    <2>1. /\ count[s] = CA!References(s)
          /\ Cardinality(CA!Wrappers(s)) \in Nat /\ Cardinality(CA!Holders(s)) \in Nat
          /\ Cardinality(CA!Places(s)) \in Nat
          /\ IsFiniteSet(CA!Holders(s)) /\ IsFiniteSet(CA!Wrappers(s))
      BY <1>8, <1>11, CarryFinite DEF CarryInv, RefInv
    <2>2. CASE s = o
      <3>1. CA!Wrappers(s)' = CA!Wrappers(s) /\ CA!Holders(s)' = CA!Holders(s)
        BY <1>7, <1>9, <2>2
      <3>2. CA!References(s)' = CA!References(s) + 0 + 0 + 1
        <4>1. Cardinality(CA!Places(s)') = Cardinality(CA!Places(s)) + 1
          BY <1>5, <2>2
        <4> QED BY <1>8, <2>1, <3>1, <4>1, Recount
      <3>3. CA!References(s) = 0
        <4>1. CA!References(s) = Cardinality(CA!Wrappers(s)) + Cardinality(CA!Holders(s))
                                   + Cardinality(CA!Places(s))
          BY Sums
        <4>2. Cardinality({}) = 0
          BY FS_EmptySet
        <4> QED BY <1>6, <2>2, <4>1, <4>2
      <3>4. count'[s] = 1
        BY <1>2, <1>8, <2>2
      <3> QED BY <3>2, <3>3, <3>4
    <2>3. CASE s # o /\ s = x
      <3>1. /\ CA!Wrappers(s)' = CA!Wrappers(s) \cup {o} /\ CA!Holders(s)' = CA!Holders(s) \ {t}
            /\ CA!Places(s)' = CA!Places(s)
        BY <1>5, <1>9, <2>3
      <3>2. Cardinality(CA!Wrappers(s) \cup {o}) = Cardinality(CA!Wrappers(s)) + 1
        BY <1>10, <2>1, <2>3, AddOne
      <3>3. Cardinality(CA!Holders(s) \ {t}) = Cardinality(CA!Holders(s)) - 1
        BY <1>7, <2>1, <2>3, DropOne
      <3>4. /\ Cardinality(CA!Wrappers(s)') = Cardinality(CA!Wrappers(s)) + 1
            /\ Cardinality(CA!Holders(s)') = Cardinality(CA!Holders(s)) + (-1)
            /\ Cardinality(CA!Places(s)') = Cardinality(CA!Places(s)) + 0
            /\ -1 \in Int /\ 0 \in Int /\ 1 \in Int
        BY <2>1, <3>1, <3>2, <3>3
      <3>5. CA!References(s) \in Nat /\ CA!References(s)' = CA!References(s) + 1 + (-1) + 0
        BY ONLY <1>8, <3>4, Recount
      <3> QED BY <1>2, <1>8, <2>1, <2>3, <3>5
    <2>4. CASE s # o /\ s # x
      <3>1. /\ CA!Wrappers(s)' = CA!Wrappers(s) /\ CA!Holders(s)' = CA!Holders(s)
            /\ CA!Places(s)' = CA!Places(s)
        BY <1>5, <1>9, <2>4
      <3>2. CA!References(s) \in Nat /\ CA!References(s)' = CA!References(s) + 0 + 0 + 0
        BY <1>8, <2>1, <3>1, Recount
      <3> QED BY <1>2, <1>8, <2>1, <2>4, <3>2
    <2> QED BY <2>2, <2>3, <2>4
  <1>12. \A u \in Tasks, s \in Storages : Destroying(u, s)' <=> Destroying(u, s)
    BY <1>3, <1>4 DEF Destroying
  <1>13. \A u \in Tasks, s \in Storages : Destroying(u, s) => s # o
    BY <1>2 DEF CarryInv, TaskInv, Destroying
  <1>14. /\ \A s \in Storages : s \in live' <=> count'[s] > 0 \/ \E u \in Tasks : Destroying(u, s)'
         /\ \A u, w \in Tasks, s \in Storages : Destroying(u, s)' /\ Destroying(w, s)' => u = w
    <2>1. count'[o] = 1 /\ \A s \in Storages \ {o} : count'[s] = count[s]
      BY <1>2, <1>8
    <2> QED BY <1>2, <1>12, <2>1 DEF CarryInv, RefInv
  <1>15. ASSUME NEW u \in Tasks PROVE TaskInv(u)'
    <2>1. TaskInv(u)
      BY <1>15 DEF CarryInv
    <2>2. CASE u = t
      BY <1>4, <1>5, <2>2 DEF TaskInv
    <2>3. CASE u # t
      <3>1. \A s \in Storages : Destroying(u, s) => s \in live' /\ count'[s] = count[s]
        BY <1>2, <1>8, <1>13, <1>15, <2>1 DEF TaskInv, Destroying
      <3> QED BY <1>4, <1>5, <1>15, <2>3, <3>1, OthersKept
    <2> QED BY <2>2, <2>3
  <1>16. HeapInv'
    BY <1>2, <1>3 DEF CarryInv, HeapInv
  <1>17. DOMAIN count' = Storages
    BY <1>2, <1>8
  <1> QED BY <1>4, <1>5, <1>11, <1>14, <1>15, <1>16, <1>17 DEF CarryInv, RefInv

LEMMA CarryNext == CarryInv /\ [CA!Next]_caVars => CarryInv'
  <1> SUFFICES ASSUME CarryInv, [CA!Next]_caVars PROVE CarryInv'
    OBVIOUS
  <1>1. CASE \E t \in Tasks : CA!Count(t)
    BY <1>1, ReleaseKeeps, DestroyKeeps DEF CA!Count
  <1>2. CASE \E t \in Tasks : CA!Task(t)
    BY <1>2, StartEmptyKeeps, WrapKeeps, LeaveKeeps DEF CA!Task
  <1>3. CASE \E t, u \in Tasks : CA!StartFrom(t, u)
    BY <1>3, StartFromKeeps
  <1>4. CASE \E t \in Tasks, k \in Keys, v \in Values : CA!DoneAndSet(t, k, v)
    BY <1>4, DoneAndSetKeeps
  <1>5. CASE UNCHANGED caVars
    <2>1. UNCHANGED <<live, count, wrapped, entry, stack, doing>>
      BY <1>5 DEF caVars
    <2>2. \A s : CA!References(s)' = CA!References(s)
      BY <2>1 DEF CA!References, CA!Wrappers, CA!Holders, CA!Places, CA!On
    <2> QED BY <2>1, <2>2 DEF CarryInv, HeapInv, RefInv, TaskInv, Destroying
  <1> QED BY <1>1, <1>2, <1>3, <1>4, <1>5 DEF CA!Next

LEMMA CarryImplies == CarryInv => CA!CountsAreReferences
  <1> SUFFICES ASSUME CarryInv, NEW s \in Storages
      PROVE /\ count[s] = CA!References(s)
            /\ s \in live <=> \/ CA!References(s) > 0
                              \/ \E t \in Tasks : doing[t] = [op |-> "destroy", on |-> s]
    BY DEF CA!CountsAreReferences
  <1>1. /\ count[s] = CA!References(s)
        /\ s \in live <=> count[s] > 0 \/ \E t \in Tasks : Destroying(t, s)
    BY DEF CarryInv, RefInv
  <1>2. ASSUME NEW t \in Tasks PROVE doing[t] = [op |-> "destroy", on |-> s] <=> Destroying(t, s)
    BY <1>2 DEF CarryInv, TaskInv, Destroying
  <1> QED BY <1>1, <1>2

\* Every storage of the contexts has as many references as its count says, and
\* lives as long as there are any: none is deleted under a context that leads to
\* it and none stays behind (refer/ref.hpp, refer/ref_counted.hpp, carry/).
THEOREM CarryCountsItsReferences == LibrarySpec => []CountsAreReferences
  <1>1. LibraryInit => CarryInv
    BY CarryInit DEF LibraryInit
  <1>2. CarryInv /\ [LibraryNext]_libraryVars => CarryInv'
    <2>1. [LibraryNext]_libraryVars => [CA!Next]_caVars
      BY DEF LibraryNext, libraryVars, ConcurrentQueueStep, ReaderWriterQueueStep, MpscQueueStep,
             CarryStep, Others
    <2> QED BY <2>1, CarryNext
  <1>3. CarryInv => CountsAreReferences
    BY CarryImplies DEF CountsAreReferences
  <1> QED BY <1>1, <1>2, <1>3, PTL DEF LibrarySpec
-----------------------------------------------------------------------------
(* The contents of the storages.                                            *)

\* Whatever a live storage wraps has a lower rank.
Ranked(rank) ==
  /\ rank \in [Storages -> Nat]
  /\ \A s \in live : wrapped[s] \in live => rank[wrapped[s]] < rank[s]

RankInv == HeapInv /\ \E rank : Ranked(rank)

Wrappable == Contextual \cup {Nobody}

MapsOwn ==
  \A r \in Wrappable :
    CA!Map(r) = IF r \in live THEN CA!Own(r, CA!Map(wrapped[r])) ELSE <<>>

\* One more storage is looked through.
Deeper(n, below) ==
  [r \in Wrappable |-> IF n # 0 /\ r \in live THEN CA!Own(r, below[wrapped[r]]) ELSE <<>>]
Looks(f, N) == f = [n \in 0 .. N |-> Deeper(n, f[n - 1])]

LEMMA LooksExist ==
  ASSUME NEW N \in Nat
  PROVE  \E f : Looks(f, N)
  <1> DEFINE T == {M \in Nat : ~ \E f : Looks(f, M)}
  <1>1. SUFFICES ASSUME T # {} PROVE FALSE
    OBVIOUS
  <1>2. PICK M \in T : \A y \in T : M <= y
    <2>1. T \subseteq Nat
      OBVIOUS
    <2> QED BY <1>1, <2>1, LeastNumber
  <1>3. CASE M = 0
    <2>1. PICK f : f = [n \in 0 .. 0 |-> Deeper(0, <<>>)]
      OBVIOUS
    <2>2. \A below : Deeper(0, below) = Deeper(0, <<>>)
      BY DEF Deeper
    <2>3. f = [n \in 0 .. 0 |-> Deeper(n, f[n - 1])]
      <3>1. \A n \in 0 .. 0 : n = 0
        OBVIOUS
      <3>2. \A n \in 0 .. 0 : Deeper(n, f[n - 1]) = Deeper(0, <<>>)
        BY <2>2, <3>1
      <3> QED BY <2>1, <3>2
    <2> QED BY <1>2, <1>3, <2>3 DEF Looks
  <1>4. CASE M # 0
    <2>1. M - 1 \in Nat /\ M - 1 \notin T /\ M \in Nat
      BY <1>2, <1>4
    <2>2. PICK f : Looks(f, M - 1)
      BY <2>1
    <2>3. PICK g : g = [n \in 0 .. M |-> IF n = M THEN Deeper(M, f[M - 1]) ELSE f[n]]
      OBVIOUS
    <2>4. ASSUME NEW n \in 0 .. M PROVE g[n] = Deeper(n, g[n - 1])
      <3>1. CASE n = M
        <4>1. M - 1 \in 0 .. M /\ M - 1 # M
          BY <2>1
        <4>2. g[M - 1] = f[M - 1] /\ g[M] = Deeper(M, f[M - 1])
          BY <2>1, <2>3, <4>1
        <4> QED BY <3>1, <4>2
      <3>2. CASE n # M /\ n # 0
        <4>1. n \in 0 .. M - 1 /\ n - 1 \in 0 .. M /\ n - 1 # M
          BY <2>1, <3>2
        <4>2. g[n] = f[n] /\ g[n - 1] = f[n - 1]
          BY <2>3, <3>2, <4>1
        <4>3. f[n] = Deeper(n, f[n - 1])
          BY <2>2, <4>1 DEF Looks
        <4> QED BY <4>2, <4>3
      <3>3. CASE n # M /\ n = 0
        <4>1. g[0] = f[0] /\ 0 \in 0 .. M - 1
          BY <2>1, <2>3, <3>3
        <4>2. f[0] = Deeper(0, f[0 - 1])
          BY <2>2, <4>1 DEF Looks
        <4>3. \A a, b : Deeper(0, a) = Deeper(0, b)
          BY DEF Deeper
        <4> QED BY <3>3, <4>1, <4>2, <4>3
      <3> QED BY <3>1, <3>2, <3>3
    <2>5. Looks(g, M)
      BY <2>3, <2>4 DEF Looks
    <2> QED BY <1>2, <2>5
  <1> QED BY <1>3, <1>4

LEMMA StorageNumber ==
  /\ IsFiniteSet(Storages) /\ CA!Cardinality(Storages) = Cardinality(Storages)
  /\ Cardinality(Storages) \in Nat
  /\ EmptyStorage \notin Storages /\ Nobody \notin Storages
  BY LibraryAssumption, CarrySets, FS_CardinalityType DEF CA!CarryAssumption

LEMMA MapLooks ==
  \E f : /\ Looks(f, Cardinality(Storages))
         /\ \A r : CA!Map(r) = f[Cardinality(Storages)][r]
  <1> DEFINE N == CA!Cardinality(Storages)
             Follows(g) == g = [n \in 0 .. N |->
               [r \in Storages \cup {EmptyStorage, Nobody} |->
                  IF n # 0 /\ r \in live THEN CA!Own(r, g[n - 1][wrapped[r]]) ELSE <<>>]]
             f == CHOOSE g : Follows(g)
  <1>1. Wrappable = Storages \cup {EmptyStorage, Nobody}
    BY DEF Wrappable, Contextual
  <1>2. \A g : Follows(g) <=> Looks(g, N)
    BY <1>1 DEF Looks, Deeper
  <1>3. N \in Nat /\ N = Cardinality(Storages)
    BY StorageNumber
  <1>4. Follows(f)
    <2>1. \E g : Follows(g)
      <3> HIDE DEF Follows, N
      <3> QED BY <1>2, <1>3, LooksExist
    <2> HIDE DEF Follows
    <2> QED BY <2>1
  <1>5. \A r : CA!Map(r) = f[N][r]
    BY DEF CA!Map
  <1> HIDE DEF f, Follows, N
  <1> QED BY <1>2, <1>3, <1>4, <1>5

\* The storages of no higher rank.
UpTo(rank, r) == {s \in live : rank[s] <= rank[r]}

LEMMA RankFacts ==
  ASSUME HeapInv, NEW rank, Ranked(rank), NEW r \in live
  PROVE  /\ Cardinality(UpTo(rank, r)) \in Nat /\ Cardinality(UpTo(rank, r)) # 0
         /\ Cardinality(UpTo(rank, r)) <= Cardinality(Storages)
         /\ wrapped[r] \in live =>
              Cardinality(UpTo(rank, wrapped[r])) + 1 <= Cardinality(UpTo(rank, r))
  <1>1. live \subseteq Storages /\ rank \in [Storages -> Nat] /\ r \in Storages
    BY DEF HeapInv, Ranked
  <1>2. UpTo(rank, r) \subseteq Storages /\ r \in UpTo(rank, r)
    BY <1>1 DEF UpTo
  <1>3. /\ IsFiniteSet(UpTo(rank, r)) /\ Cardinality(UpTo(rank, r)) \in Nat
        /\ Cardinality(UpTo(rank, r)) <= Cardinality(Storages)
    BY <1>2, StorageNumber, FS_Subset, FS_CardinalityType
  <1>4. Cardinality(UpTo(rank, r)) # 0
    BY <1>2, <1>3, FS_EmptySet
  <1>5. ASSUME wrapped[r] \in live
        PROVE  Cardinality(UpTo(rank, wrapped[r])) + 1 <= Cardinality(UpTo(rank, r))
    <2>1. rank[wrapped[r]] < rank[r] /\ wrapped[r] \in Storages
      BY <1>1, <1>5 DEF Ranked
    <2>2. PICK a, b : a = UpTo(rank, wrapped[r]) /\ b = UpTo(rank, r) \ {r}
      OBVIOUS
    <2>3. a \subseteq b
      BY <1>1, <2>1, <2>2 DEF UpTo
    <2>4. IsFiniteSet(b) /\ Cardinality(b) = Cardinality(UpTo(rank, r)) - 1
      BY <1>2, <1>3, <2>2, FS_RemoveElement
    <2>5. Cardinality(a) <= Cardinality(b) /\ Cardinality(a) \in Nat
      BY <2>3, <2>4, FS_Subset, FS_CardinalityType
    <2> QED BY <1>3, <2>2, <2>4, <2>5
  <1> QED BY <1>3, <1>4, <1>5

\* Deep enough, a look finds the same as a deeper one.
LEMMA LooksSettle ==
  ASSUME HeapInv, NEW rank, Ranked(rank), NEW N \in Nat, NEW f, Looks(f, N),
         NEW n \in 0 .. N - 1, NEW r \in Wrappable,
         r \in live => Cardinality(UpTo(rank, r)) <= n
  PROVE  f[n][r] = f[n + 1][r]
  <1> DEFINE Bad(m) == \E s \in Wrappable : /\ s \in live => Cardinality(UpTo(rank, s)) <= m
                                            /\ f[m][s] # f[m + 1][s]
             T == {m \in 0 .. N - 1 : Bad(m)}
  <1>1. SUFFICES ASSUME T # {} PROVE FALSE
    OBVIOUS
  <1>2. PICK m \in T : \A y \in T : m <= y
    <2>1. T \subseteq Nat
      OBVIOUS
    <2> QED BY <1>1, <2>1, LeastNumber
  <1>3. PICK s \in Wrappable : /\ s \in live => Cardinality(UpTo(rank, s)) <= m
                               /\ f[m][s] # f[m + 1][s]
    BY <1>2
  <1>4. m \in 0 .. N /\ m + 1 \in 0 .. N /\ m + 1 # 0 /\ (m + 1) - 1 = m
    BY <1>2
  <1>5. f[m] = Deeper(m, f[m - 1]) /\ f[m + 1] = Deeper(m + 1, f[m])
    BY <1>4 DEF Looks
  <1>6. /\ f[m][s] = IF m # 0 /\ s \in live THEN CA!Own(s, f[m - 1][wrapped[s]]) ELSE <<>>
        /\ f[m + 1][s] = IF s \in live THEN CA!Own(s, f[m][wrapped[s]]) ELSE <<>>
    BY <1>4, <1>5 DEF Deeper
  <1>7. s \in live
    <2>1. s \notin live => f[m][s] = <<>> /\ f[m + 1][s] = <<>>
      BY <1>6
    <2>2. f[m][s] # f[m + 1][s]
      BY <1>3
    <2> QED BY <2>1, <2>2
  <1>8. /\ m # 0 /\ m - 1 \in 0 .. N - 1 /\ m - 1 \notin T /\ (m - 1) + 1 = m
        /\ wrapped[s] \in live => Cardinality(UpTo(rank, wrapped[s])) <= m - 1
    <2>1. /\ Cardinality(UpTo(rank, s)) <= m /\ Cardinality(UpTo(rank, s)) \in Nat
          /\ Cardinality(UpTo(rank, s)) # 0
      BY <1>3, <1>7, RankFacts
    <2>2. m # 0 /\ m - 1 \in 0 .. N - 1 /\ m - 1 \notin T /\ (m - 1) + 1 = m
      BY <1>2, <2>1
    <2>3. ASSUME wrapped[s] \in live PROVE Cardinality(UpTo(rank, wrapped[s])) <= m - 1
      <3>1. Cardinality(UpTo(rank, wrapped[s])) + 1 <= Cardinality(UpTo(rank, s))
        BY <1>7, <2>3, RankFacts
      <3>2. Cardinality(UpTo(rank, wrapped[s])) \in Nat
        BY <2>3, RankFacts
      <3> QED BY <1>2, <2>1, <3>1, <3>2
    <2> QED BY <2>2, <2>3
  <1>9. wrapped[s] \in Wrappable
    BY <1>7 DEF HeapInv, Wrappable
  <1>10. f[m - 1][wrapped[s]] = f[m][wrapped[s]]
    BY <1>8, <1>9
  <1> QED BY <1>3, <1>6, <1>7, <1>8, <1>10

LEMMA MapsOwnEntries == RankInv => MapsOwn
  <1> SUFFICES ASSUME HeapInv, NEW rank, Ranked(rank), NEW r \in Wrappable
               PROVE  CA!Map(r) = IF r \in live THEN CA!Own(r, CA!Map(wrapped[r])) ELSE <<>>
    BY DEF RankInv, MapsOwn
  <1>1. PICK N \in Nat : N = Cardinality(Storages)
    BY StorageNumber
  <1>2. PICK f : Looks(f, N) /\ \A s : CA!Map(s) = f[N][s]
    BY <1>1, MapLooks
  <1>3. f[N] = Deeper(N, f[N - 1])
    BY <1>2 DEF Looks
  <1>4. CASE r \notin live
    BY <1>2, <1>3, <1>4 DEF Deeper
  <1>5. CASE r \in live
    <2>1. /\ Cardinality(UpTo(rank, r)) \in Nat /\ Cardinality(UpTo(rank, r)) # 0
          /\ Cardinality(UpTo(rank, r)) <= N
          /\ wrapped[r] \in live =>
               Cardinality(UpTo(rank, wrapped[r])) + 1 <= Cardinality(UpTo(rank, r))
      BY <1>1, <1>5, RankFacts
    <2>2. N # 0 /\ N - 1 \in 0 .. N - 1 /\ (N - 1) + 1 = N
      BY <2>1
    <2>3. f[N][r] = CA!Own(r, f[N - 1][wrapped[r]])
      BY <1>3, <1>5, <2>2 DEF Deeper
    <2>4. wrapped[r] \in Wrappable
      BY <1>5 DEF HeapInv, Wrappable
    <2>5. wrapped[r] \in live => Cardinality(UpTo(rank, wrapped[r])) <= N - 1
      <3>1. ASSUME wrapped[r] \in live PROVE Cardinality(UpTo(rank, wrapped[r])) \in Nat
        BY <3>1, RankFacts
      <3> QED BY <2>1, <3>1
    <2>6. PICK n \in 0 .. N - 1 : n = N - 1 /\ n + 1 = N
      BY <2>2
    <2>7. f[n][wrapped[r]] = f[n + 1][wrapped[r]]
      BY <1>2, <2>4, <2>5, <2>6, LooksSettle
    <2> QED BY <1>2, <1>5, <2>3, <2>6, <2>7
  <1> QED BY <1>4, <1>5

\* What is not new, and wraps nothing that is deleted, holds what it held.
LEMMA MapsKept ==
  ASSUME RankInv, RankInv', NEW S, S \subseteq live, S \subseteq live',
         \A r \in S : /\ wrapped'[r] = wrapped[r] /\ entry'[r] = entry[r]
                      /\ wrapped[r] \in S \/ (wrapped[r] \notin live /\ wrapped[r] \notin live')
  PROVE  \A r \in S : CA!Map(r)' = CA!Map(r)
  <1>1. MapsOwn /\ MapsOwn'
    BY MapsOwnEntries, PTL
  <1>2. PICK rank : Ranked(rank)
    BY DEF RankInv
  <1>3. HeapInv /\ HeapInv' /\ S \subseteq Wrappable
    BY DEF RankInv, HeapInv, Wrappable, Contextual
  <1> DEFINE T == {n \in Nat : \E r \in S : rank[r] = n /\ CA!Map(r)' # CA!Map(r)}
  <1>4. SUFFICES ASSUME T # {} PROVE FALSE
    BY <1>2, <1>3 DEF Ranked, HeapInv
  <1>5. PICK n \in T : \A y \in T : n <= y
    <2>1. T \subseteq Nat
      OBVIOUS
    <2> QED BY <1>4, <2>1, LeastNumber
  <1>6. PICK r \in S : rank[r] = n /\ CA!Map(r)' # CA!Map(r)
    BY <1>5
  <1>7. PICK w : w = wrapped[r]
    OBVIOUS
  <1>8. /\ wrapped'[r] = w /\ entry'[r] = entry[r] /\ w \in Wrappable
        /\ w \in S \/ (w \notin live /\ w \notin live')
    BY <1>3, <1>6, <1>7 DEF HeapInv, Wrappable
  <1>9. CA!Map(w)' = CA!Map(w)
    <2>1. CASE w \notin live /\ w \notin live'
      BY <1>1, <1>8, <2>1 DEF MapsOwn
    <2>2. CASE w \in S
      <3>1. rank[w] < rank[r] /\ rank[w] \in Nat
        BY <1>2, <1>3, <1>6, <1>7, <2>2 DEF Ranked, HeapInv
      <3>2. rank[w] \notin T
        BY <1>5, <1>6, <3>1
      <3> QED BY <2>2, <3>1, <3>2
    <2> QED BY <1>8, <2>1, <2>2
  <1>10. CA!Map(r) = CA!Own(r, CA!Map(w))
    BY <1>1, <1>3, <1>6, <1>7 DEF MapsOwn
  <1>11. CA!Map(r)' = CA!Own(r, CA!Map(w))'
    BY <1>1, <1>3, <1>6, <1>8 DEF MapsOwn
  <1>12. CA!Own(r, CA!Map(w))' = CA!Own(r, CA!Map(w))
    BY <1>8, <1>9 DEF CA!Own
  <1> QED BY <1>6, <1>10, <1>11, <1>12

\* A task that is about to make a storage holds the context it is in.
HandInv == \A t \in Tasks : doing[t].op = "new" => doing[t].on = CA!Last(stack[t])

ContextInv == CarryInv /\ HandInv /\ \E rank : Ranked(rank)

LEMMA ContextInit == CA!Init => ContextInv
  <1> SUFFICES ASSUME CA!Init PROVE ContextInv
    OBVIOUS
  <1>1. HandInv
    BY DEF CA!Init, CA!Idle, HandInv
  <1>2. Ranked([s \in Storages |-> 0])
    BY DEF CA!Init, Ranked
  <1> QED BY <1>1, <1>2, CarryInit DEF ContextInv

\* Whatever a task keeps lives, and so does what that wraps.
LEMMA KeptLives ==
  ASSUME CarryInv
  PROVE  /\ \A t \in Tasks : \A i \in DOMAIN stack[t] :
              \/ stack[t][i] = EmptyStorage
              \/ stack[t][i] \in live /\ \A u \in Tasks : ~Destroying(u, stack[t][i])
         /\ \A r \in live :
              \/ wrapped[r] = EmptyStorage
              \/ wrapped[r] \in live /\ \A u \in Tasks : ~Destroying(u, wrapped[r])
         /\ \A t \in Tasks : doing[t].op = "new" =>
              \/ doing[t].on = EmptyStorage
              \/ doing[t].on \in live
         /\ EmptyStorage \notin live /\ Nobody \notin live
  <1>1. ASSUME NEW t \in Tasks, NEW i \in DOMAIN stack[t], stack[t][i] # EmptyStorage
        PROVE  stack[t][i] \in live /\ \A u \in Tasks : ~Destroying(u, stack[t][i])
    <2>1. stack[t] \in Seq(Contextual) /\ Len(stack[t]) <= MaxDepth + 1 /\ MaxDepth \in Nat
      BY LibraryAssumption DEF CarryInv, TaskInv, CA!CarryAssumption
    <2>2. stack[t][i] \in Storages /\ i \in 1 .. MaxDepth + 1
      BY <1>1, <2>1 DEF Contextual
    <2>3. <<t, i>> \in CA!Places(stack[t][i])
      BY <2>2 DEF CA!Places
    <2> QED BY <2>2, <2>3, Referred
  <1>2. ASSUME NEW r \in live, wrapped[r] # EmptyStorage
        PROVE  wrapped[r] \in live /\ \A u \in Tasks : ~Destroying(u, wrapped[r])
    <2>1. wrapped[r] \in Storages
      BY <1>2 DEF CarryInv, HeapInv, Contextual
    <2>2. r \in CA!Wrappers(wrapped[r])
      BY DEF CA!Wrappers
    <2> QED BY <2>1, <2>2, Referred
  <1>3. ASSUME NEW t \in Tasks, doing[t].op = "new", doing[t].on # EmptyStorage
        PROVE  doing[t].on \in live
    <2>1. doing[t].on \in Storages
      BY <1>3 DEF CarryInv, TaskInv, Contextual
    <2>2. t \in CA!Holders(doing[t].on)
      BY <1>3 DEF CA!Holders, CA!On
    <2> QED BY <2>1, <2>2, Referred
  <1>4. EmptyStorage \notin live /\ Nobody \notin live
    BY StorageNumber DEF CarryInv, HeapInv
  <1> QED BY <1>1, <1>2, <1>3, <1>4

LEMMA ContextNext == ContextInv /\ [CA!Next]_caVars => ContextInv'
  <1> SUFFICES ASSUME ContextInv, [CA!Next]_caVars PROVE ContextInv'
    OBVIOUS
  <1>1. CarryInv' /\ CarryInv /\ HandInv
    BY CarryNext DEF ContextInv
  <1>2. PICK rank : Ranked(rank)
    BY DEF ContextInv
  <1>3. DOMAIN doing = Tasks /\ DOMAIN stack = Tasks /\ HeapInv
    BY <1>1 DEF CarryInv
  <1>4. ASSUME UNCHANGED <<live, wrapped>> PROVE Ranked(rank)'
    BY <1>2, <1>4 DEF Ranked
  <1>5. ASSUME NEW t \in Tasks, CA!ReleaseRef(t) PROVE HandInv' /\ \E r : Ranked(r)'
    <2>1. UNCHANGED <<live, wrapped, stack>> /\ doing'[t].op # "new"
          /\ \A u \in Tasks \ {t} : doing'[u] = doing[u]
      <3>1. \/ doing' = [doing EXCEPT ![t] = [op |-> "destroy", on |-> CA!On(t)]]
            \/ doing' = [doing EXCEPT ![t] = [op |-> "idle", on |-> Nobody]]
        BY <1>5 DEF CA!ReleaseRef, CA!Goto
      <3>2. UNCHANGED <<live, wrapped, stack>>
        BY <1>5 DEF CA!ReleaseRef
      <3> QED BY <1>3, <3>1, <3>2
    <2>2. HandInv'
      BY <1>1, <2>1 DEF HandInv, CA!Last
    <2> QED BY <1>4, <2>1, <2>2
  <1>6. ASSUME NEW t \in Tasks, CA!DestroySelf(t) PROVE HandInv' /\ \E r : Ranked(r)'
    <2>1. PICK x : x = doing[t].on
      OBVIOUS
    <2>2. /\ live' = live \ {x} /\ wrapped' = [wrapped EXCEPT ![x] = Nobody] /\ stack' = stack
          /\ doing'[t].op # "new" /\ \A u \in Tasks \ {t} : doing'[u] = doing[u]
      BY <1>3, <1>6, <2>1 DEF CA!DestroySelf, CA!Goto, CA!On
    <2>3. HandInv'
      BY <1>1, <2>2 DEF HandInv, CA!Last
    <2>4. Ranked(rank)'
      BY <1>2, <1>3, <2>2 DEF Ranked, HeapInv
    <2> QED BY <2>3, <2>4
  <1>7. ASSUME NEW t \in Tasks, CA!StartEmpty(t) PROVE HandInv' /\ \E r : Ranked(r)'
    <2>1. /\ UNCHANGED <<live, wrapped, doing>> /\ doing[t].op = "idle"
          /\ \A u \in Tasks \ {t} : stack'[u] = stack[u]
      BY <1>3, <1>7 DEF CA!StartEmpty, CA!heap, CA!Doing
    <2>2. HandInv'
      BY <1>1, <2>1 DEF HandInv, CA!Last
    <2> QED BY <1>4, <2>1, <2>2
  <1>8. ASSUME NEW t \in Tasks, NEW u \in Tasks, CA!StartFrom(t, u)
        PROVE  HandInv' /\ \E r : Ranked(r)'
    <2>1. /\ UNCHANGED <<live, wrapped, doing>> /\ doing[t].op = "idle"
          /\ \A w \in Tasks \ {t} : stack'[w] = stack[w]
      BY <1>3, <1>8 DEF CA!StartFrom, CA!Doing
    <2>2. HandInv'
      BY <1>1, <2>1 DEF HandInv, CA!Last
    <2> QED BY <1>4, <2>1, <2>2
  <1>9. ASSUME NEW t \in Tasks, CA!Wrap(t) PROVE HandInv' /\ \E r : Ranked(r)'
    <2>1. /\ UNCHANGED <<live, wrapped, stack>>
          /\ doing'[t] = [op |-> "new", on |-> CA!Last(stack[t])]
          /\ \A u \in Tasks \ {t} : doing'[u] = doing[u]
      BY <1>3, <1>9 DEF CA!Wrap, CA!Goto
    <2>2. HandInv'
      BY <1>1, <2>1 DEF HandInv, CA!Last
    <2> QED BY <1>4, <2>1, <2>2
  <1>10. ASSUME NEW t \in Tasks, CA!Leave(t) PROVE HandInv' /\ \E r : Ranked(r)'
    <2>1. /\ UNCHANGED <<live, wrapped>> /\ doing'[t].op # "new"
          /\ \A u \in Tasks \ {t} : doing'[u] = doing[u] /\ stack'[u] = stack[u]
      BY <1>3, <1>10 DEF CA!Leave, CA!Goto, CA!heap
    <2>2. HandInv'
      BY <1>1, <2>1 DEF HandInv, CA!Last
    <2> QED BY <1>4, <2>1, <2>2
  <1>11. ASSUME NEW t \in Tasks, NEW k, NEW v, CA!DoneAndSet(t, k, v)
         PROVE  HandInv' /\ \E r : Ranked(r)'
    <2>1. PICK x : x = doing[t].on
      OBVIOUS
    <2>2. PICK o \in Storages \ live :
            /\ live' = live \cup {o} /\ wrapped' = [wrapped EXCEPT ![o] = x]
            /\ stack' = [stack EXCEPT ![t] = Append(stack[t], o)]
      BY <1>11, <2>1 DEF CA!DoneAndSet, CA!On
    <2>3. /\ doing[t].op = "new" /\ doing'[t].op # "new"
          /\ \A u \in Tasks \ {t} : doing'[u] = doing[u] /\ stack'[u] = stack[u]
      BY <1>3, <1>11, <2>2 DEF CA!DoneAndSet, CA!Goto, CA!Doing
    <2>4. HandInv'
      BY <1>1, <2>3 DEF HandInv, CA!Last
    <2>5. /\ \A r \in live : wrapped[r] # o
          /\ x = EmptyStorage \/ x \in live
          /\ EmptyStorage \notin live' /\ o \notin live /\ live \subseteq Storages
      BY <1>1, <1>3, <2>1, <2>2, <2>3, KeptLives, StorageNumber DEF HeapInv
    <2> PICK higher : higher = [rank EXCEPT ![o] = IF x \in live THEN rank[x] + 1 ELSE 0]
      OBVIOUS
    <2>6. higher \in [Storages -> Nat] /\ \A r \in live : higher[r] = rank[r]
      BY <1>2, <2>2, <2>5 DEF Ranked
    <2>7. wrapped'[o] = x /\ \A r \in live : wrapped'[r] = wrapped[r]
      BY <1>3, <2>2 DEF HeapInv
    <2>8. x \in live => higher[x] < higher[o]
      BY <1>2, <2>2, <2>5 DEF Ranked
    <2>9. Ranked(higher)'
      <3>1. ASSUME NEW s \in live', wrapped'[s] \in live' PROVE higher[wrapped'[s]] < higher[s]
        <4>1. CASE s = o
          BY <2>2, <2>5, <2>7, <2>8, <3>1, <4>1
        <4>2. CASE s \in live
          <5>1. wrapped[s] \in live
            BY <2>2, <2>5, <2>7, <3>1, <4>2
          <5> QED BY <1>2, <2>6, <2>7, <4>2, <5>1 DEF Ranked
        <4> QED BY <2>2, <4>1, <4>2
      <3> QED BY <2>6, <3>1 DEF Ranked
    <2> QED BY <2>4, <2>9
  <1>12. CASE UNCHANGED caVars
    BY <1>1, <1>2, <1>4, <1>12 DEF caVars, HandInv, ContextInv, CA!Last
  <1>13. HandInv' /\ (\E r : Ranked(r)') => ContextInv'
    BY <1>1 DEF ContextInv
  <1> QED BY <1>5, <1>6, <1>7, <1>8, <1>9, <1>10, <1>11, <1>12, <1>13
          DEF CA!Next, CA!Count, CA!Task

-----------------------------------------------------------------------------
(* What a step does to the maps of the tasks.                               *)

Maps == [t \in Tasks |-> [i \in DOMAIN stack[t] |-> CA!Map(stack[t][i])]]

\* A task's stack of maps is as high as its stack of storages.
MapsShape ==
  /\ DOMAIN Maps = Tasks
  /\ \A t \in Tasks :
       /\ Maps[t] \in Seq({CA!Map(r) : r \in Contextual}) /\ Len(Maps[t]) = Len(stack[t])
       /\ \A i \in 1 .. Len(stack[t]) : Maps[t][i] = CA!Map(stack[t][i])

LEMMA MapsHaveShape == CarryInv => MapsShape
  <1> SUFFICES ASSUME CarryInv, NEW t \in Tasks
               PROVE  /\ Maps[t] \in Seq({CA!Map(r) : r \in Contextual})
                      /\ Len(Maps[t]) = Len(stack[t])
                      /\ \A i \in 1 .. Len(stack[t]) : Maps[t][i] = CA!Map(stack[t][i])
    BY DEF MapsShape, Maps
  <1>1. PICK s \in Seq(Contextual) : s = stack[t]
    BY DEF CarryInv, TaskInv
  <1>2. PICK n \in Nat : n = Len(s) /\ DOMAIN s = 1 .. n
    OBVIOUS
  <1>3. \A i \in 1 .. n : s[i] \in Contextual
    BY <1>2
  <1>4. PICK m : m = [i \in 1 .. n |-> CA!Map(s[i])]
    OBVIOUS
  <1>5. m \in Seq({CA!Map(r) : r \in Contextual}) /\ Len(m) = n
    BY <1>3, <1>4
  <1>6. Maps[t] = m
    BY <1>1, <1>2, <1>4 DEF Maps
  <1> QED BY <1>1, <1>2, <1>4, <1>5, <1>6

\* A storage keeps what it wraps and its entry while it lives, and no storage is
\* deleted but by the task that destroys it.
LEMMA HeapStep ==
  ASSUME CarryInv, [CA!Next]_caVars
  PROVE  /\ \A r \in live \cap live' : wrapped'[r] = wrapped[r] /\ entry'[r] = entry[r]
         /\ \A r \in live \ live' : \E u \in Tasks : Destroying(u, r)
  <1>1. HeapInv /\ DOMAIN wrapped = Storages /\ DOMAIN entry = Storages
    BY DEF CarryInv, HeapInv
  <1>2. ASSUME NEW t \in Tasks, CA!DestroySelf(t)
        PROVE  /\ live' = live \ {doing[t].on} /\ Destroying(t, doing[t].on)
               /\ wrapped' = [wrapped EXCEPT ![doing[t].on] = Nobody]
               /\ entry' = [entry EXCEPT ![doing[t].on] = Nobody]
    BY <1>2 DEF CA!DestroySelf, CA!On, CA!Doing, Destroying
  <1>3. ASSUME NEW t \in Tasks, NEW k, NEW v, CA!DoneAndSet(t, k, v)
        PROVE  \E o \in Storages \ live :
                 /\ live' = live \cup {o} /\ wrapped' = [wrapped EXCEPT ![o] = doing[t].on]
                 /\ entry' = [entry EXCEPT ![o] = <<k, v>>]
    BY <1>3 DEF CA!DoneAndSet, CA!On
  <1>4. \/ UNCHANGED <<live, wrapped, entry>>
        \/ \E t \in Tasks : CA!DestroySelf(t)
        \/ \E t \in Tasks, k \in Keys, v \in Values : CA!DoneAndSet(t, k, v)
    BY DEF CA!Next, CA!Count, CA!Task, CA!ReleaseRef, CA!StartEmpty, CA!Wrap, CA!Leave, CA!StartFrom,
           CA!heap, caVars
  <1>5. CASE UNCHANGED <<live, wrapped, entry>>
    BY <1>5
  <1>6. CASE \E t \in Tasks : CA!DestroySelf(t)
    <2>1. PICK t \in Tasks : CA!DestroySelf(t)
      BY <1>6
    <2>2. PICK x : x = doing[t].on
      OBVIOUS
    <2>3. /\ live' = live \ {x} /\ Destroying(t, x) /\ wrapped' = [wrapped EXCEPT ![x] = Nobody]
          /\ entry' = [entry EXCEPT ![x] = Nobody]
      BY <1>2, <2>1, <2>2
    <2> QED BY <1>1, <2>3
  <1>7. CASE \E t \in Tasks, k \in Keys, v \in Values : CA!DoneAndSet(t, k, v)
    <2>1. PICK t \in Tasks, k \in Keys, v \in Values : CA!DoneAndSet(t, k, v)
      BY <1>7
    <2>2. PICK o \in Storages \ live :
            /\ live' = live \cup {o} /\ wrapped' = [wrapped EXCEPT ![o] = doing[t].on]
            /\ entry' = [entry EXCEPT ![o] = <<k, v>>]
      BY <1>3, <2>1
    <2> QED BY <1>1, <2>2
  <1> QED BY <1>4, <1>5, <1>6, <1>7

LEMMA ContextRanked == ContextInv => RankInv
  BY DEF ContextInv, CarryInv, RankInv

\* So the contexts that are kept hold what they held.
LEMMA ContextsKept ==
  ASSUME ContextInv, [CA!Next]_caVars
  PROVE  /\ \A r \in live \cap live' : CA!Map(r)' = CA!Map(r)
         /\ CA!Map(EmptyStorage) = <<>> /\ CA!Map(EmptyStorage)' = <<>>
         /\ \A t \in Tasks : \A i \in DOMAIN stack[t] : \A r :
              r = stack[t][i] => CA!Map(r)' = CA!Map(r)
  <1>1. ContextInv'
    BY ContextNext
  <1>2. RankInv /\ RankInv'
    BY <1>1, ContextRanked, PTL
  <1>3. MapsOwn /\ MapsOwn'
    BY <1>2, MapsOwnEntries, PTL
  <1>4. CarryInv /\ CarryInv' /\ HeapInv /\ HeapInv'
    BY <1>1 DEF ContextInv, CarryInv
  <1>5. PICK S : S = live \cap live'
    OBVIOUS
  <1>6. /\ \A r \in S : wrapped'[r] = wrapped[r] /\ entry'[r] = entry[r]
        /\ \A r \in live \ live' : \E u \in Tasks : Destroying(u, r)
    BY <1>4, <1>5, HeapStep
  <1>7. EmptyStorage \notin live /\ EmptyStorage \notin live'
    BY <1>4, StorageNumber DEF HeapInv
  <1>8. \A r \in S : wrapped[r] \in S \/ (wrapped[r] \notin live /\ wrapped[r] \notin live')
    BY <1>4, <1>5, <1>6, <1>7, KeptLives
  <1>9. \A r \in S : CA!Map(r)' = CA!Map(r)
    BY <1>2, <1>5, <1>6, <1>8, MapsKept
  <1>10. CA!Map(EmptyStorage) = <<>> /\ CA!Map(EmptyStorage)' = <<>>
    BY <1>3, <1>7 DEF MapsOwn, Wrappable, Contextual
  <1>11. ASSUME NEW t \in Tasks, NEW i \in DOMAIN stack[t]
         PROVE  stack[t][i] = EmptyStorage \/ stack[t][i] \in S
    BY <1>4, <1>5, <1>6, KeptLives
  <1>12. ASSUME NEW t \in Tasks, NEW i \in DOMAIN stack[t], NEW r, r = stack[t][i]
         PROVE  CA!Map(r)' = CA!Map(r)
    <2>1. r = EmptyStorage \/ r \in S
      BY <1>11, <1>12
    <2> QED BY <1>9, <1>10, <2>1
  <1> QED BY <1>5, <1>9, <1>10, <1>12

\* The tasks that do not move keep their maps; so does one whose stack stays.
LEMMA SameMaps ==
  ASSUME ContextInv, [CA!Next]_caVars, NEW t \in Tasks, stack'[t] = stack[t]
  PROVE  Maps'[t] = Maps[t]
  <1>1. PICK s : s = stack[t] /\ s = stack'[t]
    OBVIOUS
  <1>2. \A i \in DOMAIN s : CA!Map(s[i])' = CA!Map(s[i])
    BY <1>1, ContextsKept
  <1>3. Maps[t] = [i \in DOMAIN s |-> CA!Map(s[i])]
    BY <1>1 DEF Maps
  <1>4. Maps'[t] = [i \in DOMAIN s |-> CA!Map(s[i])']
    BY <1>1 DEF Maps
  <1> QED BY <1>2, <1>3, <1>4

\* What the steps of one task do to its maps, and to no others.
LEMMA MapsMove ==
  ASSUME ContextInv, [CA!Next]_caVars, NEW t \in Tasks, NEW s,
         stack' = [stack EXCEPT ![t] = s], NEW m, Maps'[t] = m
  PROVE  Maps' = [Maps EXCEPT ![t] = m]
  <1>1. DOMAIN stack = Tasks
    BY DEF ContextInv, CarryInv
  <1>2. \A u \in Tasks \ {t} : stack'[u] = stack[u]
    BY <1>1
  <1>3. \A u \in Tasks \ {t} : Maps'[u] = Maps[u]
    BY <1>2, SameMaps
  <1>4. PICK a, b : a = Maps /\ b = Maps'
    OBVIOUS
  <1>5. /\ a = [u \in Tasks |-> a[u]] /\ b = [u \in Tasks |-> b[u]]
        /\ b[t] = m /\ \A u \in Tasks \ {t} : b[u] = a[u]
    BY <1>3, <1>4 DEF Maps
  <1> QED BY <1>4, <1>5

\* The last of a task's maps is that of its current context.
LEMMA LastMap ==
  ASSUME CarryInv, NEW t \in Tasks, stack[t] # <<>>
  PROVE  /\ Maps[t] # <<>> /\ CA!Contexts!Last(Maps[t]) = CA!Map(CA!Last(stack[t]))
         /\ CA!Last(stack[t]) \in Contextual
         /\ Len(stack[t]) \in DOMAIN stack[t] /\ CA!Last(stack[t]) = stack[t][Len(stack[t])]
  <1>1. MapsShape
    BY MapsHaveShape
  <1>2. /\ CA!Last(stack[t]) = stack[t][Len(stack[t])] /\ CA!Last(stack[t]) \in Contextual
        /\ Len(stack[t]) \in Nat \ {0} /\ stack[t] \in Seq(Contextual)
    BY LastPlace DEF CarryInv, TaskInv
  <1>3. /\ Len(Maps[t]) = Len(stack[t]) /\ Maps[t][Len(stack[t])] = CA!Map(stack[t][Len(stack[t])])
        /\ Maps[t] \in Seq({CA!Map(r) : r \in Contextual})
    <2>1. PICK s, n : s = stack[t] /\ n = Len(s)
      OBVIOUS
    <2>2. n \in 1 .. n
      BY <1>2, <2>1
    <2>3. Len(Maps[t]) = n /\ Maps[t] \in Seq({CA!Map(r) : r \in Contextual})
      BY <1>1, <2>1 DEF MapsShape
    <2>4. Maps[t][n] = CA!Map(s[n])
      BY <1>1, <2>1, <2>2 DEF MapsShape
    <2> QED BY <2>1, <2>3, <2>4
  <1>4. Maps[t] # <<>> /\ CA!Contexts!Last(Maps[t]) = CA!Map(CA!Last(stack[t]))
    BY <1>2, <1>3 DEF CA!Contexts!Last
  <1> QED BY <1>2, <1>4

LEMMA StartEmptyMaps ==
  ASSUME ContextInv, NEW t \in Tasks, CA!StartEmpty(t), CA!Next
  PROVE  Maps[t] = <<>> /\ Maps' = [Maps EXCEPT ![t] = <<<<>>>>]
  <1>1. stack[t] = <<>> /\ stack' = [stack EXCEPT ![t] = <<EmptyStorage>>]
    BY DEF CA!StartEmpty
  <1>2. DOMAIN stack = Tasks
    BY DEF ContextInv, CarryInv
  <1>3. CA!Map(EmptyStorage)' = <<>>
    BY ContextsKept
  <1>4. stack'[t] = <<EmptyStorage>>
    BY <1>1, <1>2
  <1>5. Maps'[t] = [i \in 1 .. 1 |-> <<>>]
    <2>1. PICK s : s = stack'[t]
      OBVIOUS
    <2>2. DOMAIN s = 1 .. 1 /\ \A i \in DOMAIN s : s[i] = EmptyStorage
      BY <1>4, <2>1
    <2>3. Maps'[t] = [i \in DOMAIN s |-> CA!Map(s[i])']
      BY <2>1 DEF Maps
    <2>4. \A i \in DOMAIN s : CA!Map(s[i])' = <<>>
      BY <1>3, <2>2
    <2> QED BY <2>2, <2>3, <2>4
  <1>6. Maps'[t] = <<<<>>>>
    BY <1>5
  <1>7. Maps[t] = <<>>
    <2>1. Maps[t] = [i \in DOMAIN stack[t] |-> CA!Map(stack[t][i])]
      BY DEF Maps
    <2>2. DOMAIN stack[t] = {}
      BY <1>1
    <2> QED BY <2>1, <2>2
  <1> QED BY <1>1, <1>6, <1>7, MapsMove

LEMMA StartFromMaps ==
  ASSUME ContextInv, NEW t \in Tasks, NEW u \in Tasks, CA!StartFrom(t, u), CA!Next
  PROVE  /\ Maps[t] = <<>> /\ Maps[u] # <<>>
         /\ Maps' = [Maps EXCEPT ![t] = <<CA!Contexts!Last(Maps[u])>>]
  <1>1. PICK x : x = CA!Last(stack[u])
    OBVIOUS
  <1>2. stack[t] = <<>> /\ stack[u] # <<>> /\ stack' = [stack EXCEPT ![t] = <<x>>]
    BY <1>1 DEF CA!StartFrom
  <1>3. CarryInv /\ DOMAIN stack = Tasks
    BY DEF ContextInv, CarryInv
  <1>4. PICK m : m = CA!Contexts!Last(Maps[u])
    OBVIOUS
  <1>5. Maps[u] # <<>> /\ m = CA!Map(x) /\ CA!Map(x)' = CA!Map(x)
    <2>1. /\ Maps[u] # <<>> /\ CA!Contexts!Last(Maps[u]) = CA!Map(CA!Last(stack[u]))
          /\ Len(stack[u]) \in DOMAIN stack[u] /\ CA!Last(stack[u]) = stack[u][Len(stack[u])]
      BY <1>2, <1>3, LastMap
    <2>2. CA!Map(x)' = CA!Map(x)
      BY <1>1, <2>1, ContextsKept
    <2> QED BY <1>1, <1>4, <2>1, <2>2
  <1>6. Maps'[t] = [i \in 1 .. 1 |-> m]
    <2>1. PICK s : s = stack'[t]
      OBVIOUS
    <2>2. DOMAIN s = 1 .. 1 /\ \A i \in DOMAIN s : s[i] = x
      BY <1>2, <1>3, <2>1
    <2>3. Maps'[t] = [i \in DOMAIN s |-> CA!Map(s[i])']
      BY <2>1 DEF Maps
    <2>4. \A i \in DOMAIN s : CA!Map(s[i])' = m
      BY <1>5, <2>2
    <2> QED BY <2>2, <2>3, <2>4
  <1>7. Maps'[t] = <<m>>
    BY <1>6
  <1>8. Maps[t] = <<>>
    <2>1. Maps[t] = [i \in DOMAIN stack[t] |-> CA!Map(stack[t][i])]
      BY DEF Maps
    <2>2. DOMAIN stack[t] = {}
      BY <1>2
    <2> QED BY <2>1, <2>2
  <1> QED BY <1>2, <1>4, <1>5, <1>7, <1>8, MapsMove

LEMMA LeaveMaps ==
  ASSUME ContextInv, NEW t \in Tasks, CA!Leave(t), CA!Next
  PROVE  Maps[t] # <<>> /\ Maps' = [Maps EXCEPT ![t] = CA!Contexts!Front(Maps[t])]
  <1>1. CarryInv /\ DOMAIN stack = Tasks
    BY DEF ContextInv, CarryInv
  <1>2. PICK s \in Seq(Contextual) : s = stack[t]
    BY <1>1 DEF CarryInv, TaskInv
  <1>3. s # <<>> /\ stack' = [stack EXCEPT ![t] = SubSeq(s, 1, Len(s) - 1)]
    BY <1>2 DEF CA!Leave, CA!Front
  <1>4. Maps[t] # <<>>
    BY <1>1, <1>2, <1>3, LastMap
  <1>5. PICK n \in Nat : n = Len(s) - 1 /\ Len(s) = n + 1
    BY <1>3
  <1>6. PICK r : r = SubSeq(s, 1, n)
    OBVIOUS
  <1>7. DOMAIN r = 1 .. n /\ \A i \in 1 .. n : r[i] = s[i] /\ i \in DOMAIN s
    BY <1>2, <1>5, <1>6
  <1>8. stack'[t] = r
    BY <1>1, <1>3, <1>5, <1>6
  <1>9. Maps'[t] = [i \in 1 .. n |-> CA!Map(s[i])]
    <2>1. Maps'[t] = [i \in DOMAIN r |-> CA!Map(r[i])']
      BY <1>8 DEF Maps
    <2>2. \A i \in DOMAIN r : CA!Map(r[i])' = CA!Map(s[i])
      BY <1>2, <1>7, ContextsKept
    <2> QED BY <1>7, <2>1, <2>2
  <1>10. PICK a, A : a = Maps[t] /\ A = {CA!Map(x) : x \in Contextual}
    OBVIOUS
  <1>11. a \in Seq(A) /\ Len(a) = n + 1 /\ \A i \in 1 .. n + 1 : a[i] = CA!Map(s[i])
    BY <1>1, <1>2, <1>5, <1>10, MapsHaveShape DEF MapsShape
  <1>12. PICK b : b = Maps'[t]
    OBVIOUS
  <1>13. b \in Seq(A) /\ Len(b) = n /\ \A i \in 1 .. n : b[i] = CA!Map(s[i])
    <2>1. \A i \in 1 .. n : s[i] \in Contextual
      BY <1>2, <1>5
    <2> QED BY <1>9, <1>10, <1>12, <2>1
  <1>14. b = SubSeq(a, 1, n)
    <2>1. PICK c : c = SubSeq(a, 1, n)
      OBVIOUS
    <2>2. c \in Seq(A) /\ Len(c) = n /\ \A i \in 1 .. n : c[i] = a[i]
      BY <1>11, <2>1
    <2>3. \A i \in 1 .. n : b[i] = c[i]
      BY <1>11, <1>13, <2>2
    <2>4. b = c
      BY <1>13, <2>2, <2>3
    <2> QED BY <2>1, <2>4
  <1>15. Maps'[t] = CA!Contexts!Front(Maps[t])
    <2>1. CA!Contexts!Front(a) = SubSeq(a, 1, n)
      BY <1>11 DEF CA!Contexts!Front
    <2> QED BY <1>10, <1>12, <1>14, <2>1
  <1> QED BY <1>3, <1>4, <1>15, MapsMove

LEMMA DoneAndSetMaps ==
  ASSUME ContextInv, NEW t \in Tasks, NEW k \in Keys, NEW v \in Values, CA!DoneAndSet(t, k, v), CA!Next
  PROVE  /\ Maps[t] # <<>>
         /\ Maps' = [Maps EXCEPT ![t] = Append(Maps[t],
                       CA!Contexts!Set(CA!Contexts!Last(Maps[t]), k, v))]
  <1>1. CarryInv /\ HeapInv /\ DOMAIN stack = Tasks
    BY DEF ContextInv, CarryInv
  <1>2. PICK x : x = doing[t].on
    OBVIOUS
  <1>3. PICK o \in Storages \ live :
          /\ live' = live \cup {o} /\ wrapped' = [wrapped EXCEPT ![o] = x]
          /\ entry' = [entry EXCEPT ![o] = <<k, v>>]
          /\ stack' = [stack EXCEPT ![t] = Append(stack[t], o)]
    BY <1>2 DEF CA!DoneAndSet, CA!On
  <1>4. doing[t].op = "new" /\ stack[t] # <<>> /\ x = CA!Last(stack[t])
    BY <1>1, <1>2 DEF CA!DoneAndSet, CA!Doing, ContextInv, HandInv, CarryInv, TaskInv
  <1>5. PICK s \in Seq(Contextual), n \in Nat : s = stack[t] /\ n = Len(s)
    BY <1>1 DEF CarryInv, TaskInv
  <1>6. /\ Maps[t] # <<>> /\ CA!Contexts!Last(Maps[t]) = CA!Map(x)
        /\ x \in Contextual /\ CA!Map(x)' = CA!Map(x)
    <2>1. /\ Maps[t] # <<>> /\ CA!Contexts!Last(Maps[t]) = CA!Map(CA!Last(stack[t]))
          /\ CA!Last(stack[t]) \in Contextual
          /\ Len(stack[t]) \in DOMAIN stack[t] /\ CA!Last(stack[t]) = stack[t][Len(stack[t])]
      BY <1>1, <1>4, LastMap
    <2>2. CA!Map(x)' = CA!Map(x)
      BY <1>4, <2>1, ContextsKept
    <2> QED BY <1>4, <2>1, <2>2
  <1>7. PICK y : y = CA!Contexts!Set(CA!Map(x), k, v)
    OBVIOUS
  <1>8. CA!Map(o)' = y
    <2>1. MapsOwn'
      BY ContextNext, ContextRanked, MapsOwnEntries, PTL
    <2>2. o \in live' /\ wrapped'[o] = x /\ entry'[o] = <<k, v>> /\ o \in Wrappable
      BY <1>1, <1>3 DEF HeapInv, Wrappable, Contextual
    <2>3. CA!Map(o)' = CA!Own(o, CA!Map(x))'
      BY <2>1, <2>2 DEF MapsOwn
    <2>4. PICK m : m = CA!Map(x) /\ m = CA!Map(x)'
      BY <1>6
    <2>5. CA!Own(o, CA!Map(x))' = [j \in DOMAIN m \cup {k} |-> IF j = k THEN v ELSE m[j]]
      BY <2>2, <2>4 DEF CA!Own
    <2> QED BY <1>7, <2>3, <2>4, <2>5 DEF CA!Contexts!Set
  <1>9. PICK r : r = Append(s, o)
    OBVIOUS
  <1>10. /\ DOMAIN r = 1 .. n + 1 /\ r[n + 1] = o /\ stack'[t] = r
         /\ \A i \in 1 .. n : r[i] = s[i] /\ i \in DOMAIN s
    BY <1>1, <1>3, <1>5, <1>9 DEF Contextual
  <1>11. PICK a, A : a = Maps[t] /\ A = {CA!Map(z) : z \in Contextual} \cup {y}
    OBVIOUS
  <1>12. a \in Seq(A) /\ Len(a) = n /\ \A i \in 1 .. n : a[i] = CA!Map(s[i])
    <2>1. a \in Seq({CA!Map(z) : z \in Contextual}) /\ Len(a) = n /\ \A i \in 1 .. n : a[i] = CA!Map(s[i])
      BY <1>1, <1>5, <1>11, MapsHaveShape DEF MapsShape
    <2> QED BY <1>11, <2>1, SeqMonotonic
  <1>13. PICK b : b = Maps'[t]
    OBVIOUS
  <1>14. b = [i \in 1 .. n + 1 |-> IF i = n + 1 THEN y ELSE a[i]]
    <2>1. b = [i \in DOMAIN r |-> CA!Map(r[i])']
      BY <1>10, <1>13 DEF Maps
    <2>2. ASSUME NEW i \in 1 .. n PROVE CA!Map(r[i])' = a[i]
      <3>1. CA!Map(s[i])' = CA!Map(s[i])
        BY <1>5, <1>10, ContextsKept
      <3> QED BY <1>10, <1>12, <3>1
    <2>3. CA!Map(r[n + 1])' = y
      BY <1>8, <1>10
    <2>4. \A i \in 1 .. n + 1 : i = n + 1 \/ i \in 1 .. n
      OBVIOUS
    <2> QED BY <1>10, <2>1, <2>2, <2>3, <2>4
  <1>15. b = Append(a, y)
    <2>1. Append(a, y) \in Seq(A) /\ Len(Append(a, y)) = n + 1 /\ y \in A
      BY <1>11, <1>12, AppendProperties
    <2>2. \A i \in 1 .. n + 1 : Append(a, y)[i] = IF i = n + 1 THEN y ELSE a[i]
      BY <1>11, <1>12, AppendProperties
    <2>3. b \in Seq(A) /\ Len(b) = n + 1 /\ \A i \in 1 .. n + 1 : b[i] = IF i = n + 1 THEN y ELSE a[i]
      BY <1>12, <1>14, <2>1
    <2>4. PICK c : c = Append(a, y)
      OBVIOUS
    <2>5. b = c
      BY <2>1, <2>2, <2>3, <2>4
    <2> QED BY <2>4, <2>5
  <1> QED BY <1>3, <1>6, <1>7, <1>11, <1>13, <1>15, MapsMove

LEMMA ContextStepMaps ==
  ASSUME ContextInv, [CA!Next]_caVars
  PROVE  CA!Contexts!SStep
  <1>1. SUFFICES \/ Maps' = Maps
                 \/ \E t \in Tasks :
                      /\ Maps[t] = <<>>
                      /\ \E m \in {<<>>} \cup {CA!Contexts!Last(Maps[u]) : u \in {x \in Tasks : Maps[x] # <<>>}} :
                           Maps' = [Maps EXCEPT ![t] = <<m>>]
                 \/ \E t \in Tasks :
                      /\ Maps[t] # <<>>
                      /\ \E k \in Keys, v \in Values :
                           Maps' = [Maps EXCEPT ![t] = Append(Maps[t],
                                      CA!Contexts!Set(CA!Contexts!Last(Maps[t]), k, v))]
                 \/ \E t \in Tasks :
                      /\ Maps[t] # <<>>
                      /\ Maps' = [Maps EXCEPT ![t] = CA!Contexts!Front(Maps[t])]
    BY DEF CA!Contexts!SStep, CA!Contexts!SNext, CA!Contexts!Start, CA!Contexts!Enter,
           CA!Contexts!Leave, Maps
  <1>2. CASE UNCHANGED stack
    <2>1. \A t \in Tasks : Maps'[t] = Maps[t]
      BY <1>2, SameMaps
    <2>2. Maps' = Maps
      <3>1. PICK a, b : a = Maps /\ b = Maps'
        OBVIOUS
      <3>2. a = [t \in Tasks |-> a[t]] /\ b = [t \in Tasks |-> b[t]]
        BY <3>1 DEF Maps
      <3> QED BY <2>1, <3>1, <3>2
    <2> QED BY <2>2
  <1>3. CASE CA!Next /\ \E t \in Tasks : CA!StartEmpty(t)
    BY <1>3, StartEmptyMaps
  <1>4. CASE CA!Next /\ \E t, u \in Tasks : CA!StartFrom(t, u)
    BY <1>4, StartFromMaps
  <1>5. CASE CA!Next /\ \E t \in Tasks : CA!Leave(t)
    BY <1>5, LeaveMaps
  <1>6. CASE CA!Next /\ \E t \in Tasks, k \in Keys, v \in Values : CA!DoneAndSet(t, k, v)
    BY <1>6, DoneAndSetMaps
  <1>7. \/ UNCHANGED stack
        \/ /\ CA!Next
           /\ \/ \E t \in Tasks : CA!StartEmpty(t) \/ CA!Leave(t)
              \/ \E t, u \in Tasks : CA!StartFrom(t, u)
              \/ \E t \in Tasks, k \in Keys, v \in Values : CA!DoneAndSet(t, k, v)
    BY DEF CA!Next, CA!Count, CA!Task, CA!ReleaseRef, CA!DestroySelf, CA!Wrap, caVars
  <1> QED BY <1>2, <1>3, <1>4, <1>5, <1>6, <1>7

\* The contexts implement ScopedContexts for any tasks, keys, values and finitely
\* many storages: a context is an immutable map, whatever storages other tasks add
\* and delete meanwhile, even at the same address, and the end of a scope brings
\* back what was there before (carry/wrap.cpp:16-56, carry/scope.hpp:13-26).
THEOREM CarryImplementsContexts == LibrarySpec => ContextSpec
  <1>1. LibraryInit => CA!Contexts!SInit
    <2> SUFFICES ASSUME CA!Init PROVE CA!Contexts!SInit
      BY DEF LibraryInit
    <2>1. \A t \in Tasks : stack[t] = <<>>
      BY DEF CA!Init
    <2>2. \A t \in Tasks : [i \in DOMAIN stack[t] |-> CA!Map(stack[t][i])] = <<>>
      <3>1. DOMAIN <<>> = {}
        OBVIOUS
      <3>2. \A t \in Tasks : DOMAIN stack[t] = {}
        BY <2>1, <3>1
      <3> QED BY <3>2
    <2> QED BY <2>2 DEF CA!Contexts!SInit
  <1>2. LibraryInit => ContextInv
    BY ContextInit DEF LibraryInit
  <1>3. [LibraryNext]_libraryVars => [CA!Next]_caVars
    BY DEF LibraryNext, libraryVars, ConcurrentQueueStep, ReaderWriterQueueStep, MpscQueueStep,
           CarryStep, Others
  <1>4. ContextInv /\ [LibraryNext]_libraryVars => ContextInv'
    BY <1>3, ContextNext
  <1>5. ContextInv /\ [LibraryNext]_libraryVars => [playing = "Carry" => CA!Contexts!SStep]_caVars
    BY <1>3, ContextStepMaps
  <1> QED BY <1>1, <1>2, <1>4, <1>5, PTL DEF LibrarySpec, ContextSpec

=============================================================================
