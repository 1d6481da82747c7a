------------------------- MODULE ReaderWriterQueue -------------------------
(***************************************************************************)
(* moodycamel::ReaderWriterQueue as the queue of an SPSC binding uses it   *)
(* (postboy/base/queues/spsc.hpp): try_enqueue by one producer thread,     *)
(* try_dequeue by one consumer thread, and no allocation after the         *)
(* constructor.  It is a circle of blocks, each a ring of BlockSize slots, *)
(* one of which stays free.  The producer owns the tails and tailBlock,    *)
(* the consumer the fronts and frontBlock.                                 *)
(*                                                                         *)
(* One action per access of what the other thread writes, and per store,   *)
(* in program order: the code runs on x86, where stores become visible in  *)
(* the order they are made.  A value is the number of values before it.    *)
(***************************************************************************)
EXTENDS Integers, Sequences

CONSTANTS
  BlockSize,  \* largestBlockSize, a power of two
  Blocks,     \* initialBlockCount
  MaxPushes,  \* bound: how many values are enqueued
  Free        \* the content of a slot that holds no object

RwAssumption ==
  /\ BlockSize \in Nat /\ BlockSize > 1
  /\ Blocks \in Nat \ {0}
  /\ MaxPushes \in Nat

VARIABLES
  front, tail,            \* of each block
  localFront, localTail,  \* the producer's copy of front, the consumer's of tail
  data,
  frontBlock, tailBlock,
  ppc, cpc,               \* where the producer and the consumer are
  enqueued, dequeued,     \* how many values were
  got,                    \* what the consumer has read
  dequeuedThen, enqueuedThen  \* what the other had done when try_enqueue, try_dequeue began

producerVars == <<tail, localFront, tailBlock, data, ppc, enqueued, dequeuedThen>>
consumerVars == <<front, localTail, frontBlock, cpc, dequeued, got, enqueuedThen>>
vars == <<producerVars, consumerVars>>

Block == 0 .. Blocks - 1
NextBlock(b) == (b + 1) % Blocks
NextSlot(i) == (i + 1) % BlockSize  \* & sizeMask

Init ==
  /\ front = [b \in Block |-> 0] /\ tail = [b \in Block |-> 0]
  /\ localFront = [b \in Block |-> 0] /\ localTail = [b \in Block |-> 0]
  /\ data = [b \in Block |-> [i \in 0 .. BlockSize - 1 |-> Free]]
  /\ frontBlock = 0 /\ tailBlock = 0
  /\ ppc = "idle" /\ cpc = "idle"
  /\ enqueued = 0 /\ dequeued = 0 /\ got = Free
  /\ dequeuedThen = 0 /\ enqueuedThen = 0

-----------------------------------------------------------------------------
(* inner_enqueue<CannotAlloc>.                                              *)

\* There is room in the tail block if its front is f.
Room(f) == NextSlot(tail[tailBlock]) # f

BeginEnqueue ==
  /\ ppc = "idle" /\ enqueued < MaxPushes
  /\ ppc' = IF Room(localFront[tailBlock]) THEN "write" ELSE "refresh"
  /\ dequeuedThen' = dequeued
  /\ UNCHANGED <<tail, localFront, tailBlock, data, enqueued, consumerVars>>

RefreshFront ==
  /\ ppc = "refresh"
  /\ localFront' = [localFront EXCEPT ![tailBlock] = front[tailBlock]]
  /\ ppc' = IF Room(front[tailBlock]) THEN "write" ELSE "full"
  /\ UNCHANGED <<tail, tailBlock, data, enqueued, dequeuedThen, consumerVars>>

Write ==
  /\ ppc = "write"
  /\ data' = [data EXCEPT ![tailBlock][tail[tailBlock]] = enqueued]
  /\ ppc' = "publish"
  /\ UNCHANGED <<tail, localFront, tailBlock, enqueued, dequeuedThen, consumerVars>>

Publish ==
  /\ ppc = "publish"
  /\ tail' = [tail EXCEPT ![tailBlock] = NextSlot(@)]
  /\ enqueued' = enqueued + 1
  /\ ppc' = "idle"
  /\ UNCHANGED <<localFront, tailBlock, data, dequeuedThen, consumerVars>>

\* The tail block is full: the next block is free unless the consumer is there.
Full ==
  /\ ppc = "full"
  /\ ppc' = IF NextBlock(tailBlock) # frontBlock THEN "next" ELSE "failed"
  /\ UNCHANGED <<tail, localFront, tailBlock, data, enqueued, dequeuedThen, consumerVars>>

EnqueueFails ==
  /\ ppc = "failed"
  /\ ppc' = "idle"
  /\ UNCHANGED <<tail, localFront, tailBlock, data, enqueued, dequeuedThen, consumerVars>>

ReadNextFront ==
  /\ ppc = "next"
  /\ localFront' = [localFront EXCEPT ![NextBlock(tailBlock)] = front[NextBlock(tailBlock)]]
  /\ ppc' = "writeNext"
  /\ UNCHANGED <<tail, tailBlock, data, enqueued, dequeuedThen, consumerVars>>

WriteNext ==
  /\ ppc = "writeNext"
  /\ LET b == NextBlock(tailBlock) IN data' = [data EXCEPT ![b][tail[b]] = enqueued]
  /\ ppc' = "publishNext"
  /\ UNCHANGED <<tail, localFront, tailBlock, enqueued, dequeuedThen, consumerVars>>

PublishNext ==
  /\ ppc = "publishNext"
  /\ tail' = [tail EXCEPT ![NextBlock(tailBlock)] = NextSlot(@)]
  /\ ppc' = "advance"
  /\ UNCHANGED <<localFront, tailBlock, data, enqueued, dequeuedThen, consumerVars>>

AdvanceTail ==
  /\ ppc = "advance"
  /\ tailBlock' = NextBlock(tailBlock)
  /\ enqueued' = enqueued + 1
  /\ ppc' = "idle"
  /\ UNCHANGED <<tail, localFront, data, dequeuedThen, consumerVars>>

-----------------------------------------------------------------------------
(* try_dequeue.                                                             *)

ConsumerOnly == UNCHANGED <<tail, localFront, tailBlock, ppc, enqueued, dequeuedThen>>

BeginDequeue ==
  /\ cpc = "idle"
  /\ cpc' = IF front[frontBlock] # localTail[frontBlock] THEN "read" ELSE "refresh"
  /\ enqueuedThen' = enqueued
  /\ ConsumerOnly /\ UNCHANGED <<data, front, localTail, frontBlock, dequeued, got>>

\* Read the tail of the front block, the first time and once more after the
\* tail block has turned out to be another one.
RefreshTail ==
  /\ cpc \in {"refresh", "again"}
  /\ localTail' = [localTail EXCEPT ![frontBlock] = tail[frontBlock]]
  /\ cpc' = IF front[frontBlock] # tail[frontBlock] THEN "read"
            ELSE IF cpc = "refresh" THEN "empty" ELSE "next"
  /\ ConsumerOnly /\ UNCHANGED <<data, front, frontBlock, dequeued, got, enqueuedThen>>

\* A mutant: the front block is not looked at again.
EmptyOnce ==
  /\ cpc = "empty"
  /\ cpc' = IF frontBlock # tailBlock THEN "next" ELSE "failed"
  /\ ConsumerOnly /\ UNCHANGED <<data, front, localTail, frontBlock, dequeued, got, enqueuedThen>>

\* A mutant: only the front block is looked at.
EmptyAlways ==
  /\ cpc = "empty"
  /\ cpc' = "failed"
  /\ ConsumerOnly /\ UNCHANGED <<data, front, localTail, frontBlock, dequeued, got, enqueuedThen>>

Empty ==
  /\ cpc = "empty"
  /\ cpc' = IF frontBlock # tailBlock THEN "again" ELSE "failed"
  /\ ConsumerOnly /\ UNCHANGED <<data, front, localTail, frontBlock, dequeued, got, enqueuedThen>>

DequeueFails ==
  /\ cpc = "failed"
  /\ cpc' = "idle"
  /\ ConsumerOnly /\ UNCHANGED <<data, front, localTail, frontBlock, dequeued, got, enqueuedThen>>

ReadNextTail ==
  /\ cpc = "next"
  /\ localTail' = [localTail EXCEPT ![NextBlock(frontBlock)] = tail[NextBlock(frontBlock)]]
  /\ cpc' = "advance"
  /\ ConsumerOnly /\ UNCHANGED <<data, front, frontBlock, dequeued, got, enqueuedThen>>

AdvanceFront ==
  /\ cpc = "advance"
  /\ frontBlock' = NextBlock(frontBlock)
  /\ cpc' = "read"
  /\ ConsumerOnly /\ UNCHANGED <<data, front, localTail, dequeued, got, enqueuedThen>>

\* The value is moved out and destroyed.
Read ==
  /\ cpc = "read"
  /\ got' = data[frontBlock][front[frontBlock]]
  /\ data' = [data EXCEPT ![frontBlock][front[frontBlock]] = Free]
  /\ cpc' = "release"
  /\ ConsumerOnly /\ UNCHANGED <<front, localTail, frontBlock, dequeued, enqueuedThen>>

Release ==
  /\ cpc = "release"
  /\ front' = [front EXCEPT ![frontBlock] = NextSlot(@)]
  /\ dequeued' = dequeued + 1
  /\ cpc' = "idle"
  /\ got' = Free
  /\ ConsumerOnly /\ UNCHANGED <<data, localTail, frontBlock, enqueuedThen>>

-----------------------------------------------------------------------------
TryEnqueue ==
  \/ BeginEnqueue \/ RefreshFront \/ Write \/ Publish \/ Full \/ EnqueueFails
  \/ ReadNextFront \/ WriteNext \/ PublishNext \/ AdvanceTail
TryDequeue ==
  \/ BeginDequeue \/ RefreshTail \/ Empty \/ DequeueFails
  \/ ReadNextTail \/ AdvanceFront \/ Read \/ Release

Next == TryEnqueue \/ TryDequeue

Spec == Init /\ [][Next]_vars

-----------------------------------------------------------------------------
(* Properties                                                               *)

\* The n-th value behind the front slot, counted from 0: the block in front holds
\* the first ones, and each further block one less than it has slots.
InFrontBlock == (tail[frontBlock] + BlockSize - front[frontBlock]) % BlockSize
InBlock(b, n) == data[b][(front[b] + n) % BlockSize]
Item(n) ==
  LET k == n - InFrontBlock IN
    IF k < 0 THEN InBlock(frontBlock, n)
    ELSE InBlock((frontBlock + 1 + k \div (BlockSize - 1)) % Blocks, k % (BlockSize - 1))

\* What is in the queue: the front slot is free while its value is with the consumer.
Items ==
  LET moved == IF cpc = "release" THEN 1 ELSE 0
  IN  [k \in 1 .. enqueued - dequeued - moved |-> Item(k + moved - 1)]

\* The queue is a bounded FIFO: an enqueue takes effect when the tail, or the tail
\* block, is stored, a dequeue when the value is moved out.  It never yields a
\* free slot, never skips the value in front, and never frees a slot that holds a
\* value (moodycamel_readerwriter_queue.hpp:275-363 and 517-619).
Fifo == INSTANCE BoundedFifo WITH
  Capacity <- Blocks * (BlockSize - 1),
  Values <- 0 .. MaxPushes,
  items <- Items,
  closed <- FALSE
FifoSpec == Fifo!FSpec

\* try_dequeue fails only if all that had been enqueued when it began has been
\* dequeued.  try_enqueue fails only if, since it began, as many values have been
\* in the queue as the constructor promises room for, one block and a slot of
\* each other block less than there are (lines 102-124 and 287-295).
FailsOnlyWhenDue ==
  /\ cpc = "failed" => dequeued >= enqueuedThen
  /\ ppc = "failed" => enqueued - dequeuedThen >= (BlockSize - 1) * (Blocks - 1)
=============================================================================
