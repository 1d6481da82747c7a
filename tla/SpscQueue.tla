------------------------------ MODULE SpscQueue ------------------------------
(***************************************************************************)
(* common::concurrency::SpscQueue: a ring of Capacity slots between one    *)
(* producer thread and one consumer thread.  The threads share the atomic  *)
(* indices start_ and end_ and the flag closedFlag_.  Each keeps its own   *)
(* position and a possibly outdated copy of the other's, and reads the     *)
(* shared index again only when its copy says that the ring is full, or    *)
(* empty.                                                                  *)
(*                                                                         *)
(* One action per access of shared memory, in program order: the code      *)
(* runs on x86, where stores become visible in the order they are made.    *)
(* A value is named by the number of values written before it.             *)
(***************************************************************************)
EXTENDS Naturals

CONSTANTS
  Capacity,  \* the number of slots
  MaxPushes, \* bound of the model: the number of values ever written
  Empty      \* the content of a slot that holds no object

ASSUME SpscAssumption ==
  /\ Capacity \in Nat \ {0}
  /\ MaxPushes \in Nat
  /\ Empty \notin Nat

VARIABLES
  start, end,                  \* start_ and end_
  closed,                      \* closedFlag_
  producerEnd, producerStart,  \* the producer's position and copy of start_
  consumerStart, consumerEnd,  \* the consumer's position and copy of end_
  buffer,                      \* buffer_
  ppc, cpc,                    \* where the producer and the consumer are
  push, pop,                   \* the operation each of them is executing
  got                          \* what the consumer's last read took

producerVars == <<producerEnd, producerStart, ppc, push>>
consumerVars == <<consumerStart, consumerEnd, cpc, pop, got>>
vars == <<start, end, closed, buffer, producerVars, consumerVars>>

-----------------------------------------------------------------------------
Slot(i) == i % Capacity

\* Mutant of Full: off by one.
FullTooLate(from) == producerEnd - from > Capacity

\* The producer's ring is full, if start_ has the value "from".
Full(from) == producerEnd - from = Capacity

Init ==
  /\ start = 0 /\ end = 0
  /\ producerEnd = 0 /\ producerStart = 0
  /\ consumerStart = 0 /\ consumerEnd = 0
  /\ closed = FALSE
  /\ buffer = [s \in 0 .. Capacity - 1 |-> Empty]
  /\ ppc = "idle" /\ cpc = "idle"
  /\ push = "TryPush" /\ pop = "TryPop"
  /\ got = Empty

-----------------------------------------------------------------------------
(* The producer.                                                           *)

ProducerOnly == UNCHANGED <<start, closed, consumerVars>>

\* Where Push and TryPush go on with the copy "from" of start_: only TryPush
\* looks at the closed flag when there is room, and only Push waits.
AfterFullTest(o, from) ==
  CASE Full(from) /\ o = "Push"     -> "pollClosed"
    [] Full(from) /\ o = "TryPush"  -> "idle"
    [] ~Full(from) /\ o = "Push"    -> "write"
    [] ~Full(from) /\ o = "TryPush" -> "checkClosed"

BeginPush(o) ==
  /\ ppc = "idle"
  /\ producerEnd < MaxPushes
  /\ push' = o
  /\ ppc' = IF Full(producerStart) THEN "refresh" ELSE AfterFullTest(o, producerStart)
  /\ ProducerOnly /\ UNCHANGED <<end, buffer, producerEnd, producerStart>>

\* Mutant of RefreshStart: the load is hoisted out of the waiting loop.
RefreshOnce ==
  /\ ppc = "refresh"
  /\ ppc' = AfterFullTest(push, producerStart)
  /\ ProducerOnly /\ UNCHANGED <<end, buffer, producerEnd, producerStart, push>>

RefreshStart ==
  /\ ppc = "refresh"
  /\ producerStart' = start
  /\ ppc' = AfterFullTest(push, start)
  /\ ProducerOnly /\ UNCHANGED <<end, buffer, producerEnd, push>>

\* Push waits for room unless the queue is closed.
PushPollsClosed ==
  /\ ppc = "pollClosed"
  /\ ppc' = IF closed THEN "idle" ELSE "refresh"
  /\ ProducerOnly /\ UNCHANGED <<end, buffer, producerEnd, producerStart, push>>

TryPushChecksClosed ==
  /\ ppc = "checkClosed"
  /\ ppc' = IF closed THEN "idle" ELSE "write"
  /\ ProducerOnly /\ UNCHANGED <<end, buffer, producerEnd, producerStart, push>>

Write ==
  /\ ppc = "write"
  /\ buffer' = [buffer EXCEPT ![Slot(producerEnd)] = producerEnd]
  /\ producerEnd' = producerEnd + 1
  /\ ppc' = "publish"
  /\ ProducerOnly /\ UNCHANGED <<end, producerStart, push>>

Publish ==
  /\ ppc = "publish"
  /\ end' = end + 1
  /\ ppc' = "idle"
  /\ ProducerOnly /\ UNCHANGED <<buffer, producerEnd, producerStart, push>>

ProducerStep ==
  RefreshStart \/ PushPollsClosed \/ TryPushChecksClosed \/ Write \/ Publish

-----------------------------------------------------------------------------
(* The consumer.                                                           *)

ConsumerOnly == UNCHANGED <<end, closed, producerVars>>

\* Where Pop and TryPop go on with the copy "to" of end_.
AfterEmptyTest(o, to) ==
  CASE consumerStart # to                  -> "read"
    [] consumerStart = to /\ o = "TryPop"  -> "idle"
    [] consumerStart = to /\ o = "Pop"     -> "pollClosed"

BeginPop(o) ==
  /\ cpc = "idle"
  /\ pop' = o
  /\ cpc' = IF consumerEnd = consumerStart THEN "reload" ELSE "read"
  /\ ConsumerOnly /\ UNCHANGED <<start, buffer, consumerStart, consumerEnd, got>>

ReloadEnd ==
  /\ cpc = "reload"
  /\ consumerEnd' = end
  /\ cpc' = AfterEmptyTest(pop, end)
  /\ ConsumerOnly /\ UNCHANGED <<start, buffer, consumerStart, pop, got>>

\* Pop waits for a value unless the queue is closed, and reads the flag after
\* the index it is about.
PopPollsClosed ==
  /\ cpc = "pollClosed"
  /\ cpc' = IF closed THEN "idle" ELSE "reload"
  /\ ConsumerOnly /\ UNCHANGED <<start, buffer, consumerStart, consumerEnd, pop, got>>

\* Mutant of Read: the index is advanced first.
ReadNext ==
  /\ cpc = "read"
  /\ got' = buffer[Slot(consumerStart + 1)]
  /\ buffer' = [buffer EXCEPT ![Slot(consumerStart + 1)] = Empty]
  /\ consumerStart' = consumerStart + 1
  /\ cpc' = "release"
  /\ ConsumerOnly /\ UNCHANGED <<start, consumerEnd, pop>>

\* The value is moved out and the slot's object destroyed.
Read ==
  /\ cpc = "read"
  /\ got' = buffer[Slot(consumerStart)]
  /\ buffer' = [buffer EXCEPT ![Slot(consumerStart)] = Empty]
  /\ consumerStart' = consumerStart + 1
  /\ cpc' = "release"
  /\ ConsumerOnly /\ UNCHANGED <<start, consumerEnd, pop>>

Release ==
  /\ cpc = "release"
  /\ start' = start + 1
  /\ cpc' = "idle"
  /\ ConsumerOnly /\ UNCHANGED <<buffer, consumerStart, consumerEnd, pop, got>>

ConsumerStep == ReloadEnd \/ PopPollsClosed \/ Read \/ Release

-----------------------------------------------------------------------------
\* Close is for the producer or the consumer, between two of their operations.
Close ==
  /\ ppc = "idle" \/ cpc = "idle"
  /\ closed' = TRUE
  /\ UNCHANGED <<start, end, buffer, producerVars, consumerVars>>

Next ==
  \/ \E o \in {"TryPush", "Push"} : BeginPush(o)
  \/ \E o \in {"TryPop", "Pop"} : BeginPop(o)
  \/ ProducerStep \/ ConsumerStep \/ Close

\* A thread inside an operation goes on.  Nobody has to begin one, or to close.
Fairness == WF_vars(ProducerStep) /\ WF_vars(ConsumerStep)

Spec == Init /\ [][Next]_vars
FairSpec == Spec /\ Fairness

-----------------------------------------------------------------------------
TypeOK ==
  /\ {start, end, producerEnd, producerStart, consumerStart, consumerEnd} \subseteq Nat
  /\ closed \in BOOLEAN
  /\ buffer \in [0 .. Capacity - 1 -> Nat \cup {Empty}]
  /\ ppc \in {"idle", "refresh", "pollClosed", "checkClosed", "write", "publish"}
  /\ cpc \in {"idle", "reload", "pollClosed", "read", "release"}
  /\ push \in {"TryPush", "Push"}
  /\ pop \in {"TryPop", "Pop"}
  /\ got \in Nat \cup {Empty}

\* An outdated copy errs on the safe side: the producer's view of the ring
\* covers the consumer's, and never more than Capacity slots.
CopiesAreConservative ==
  /\ producerStart <= start /\ start <= consumerStart
  /\ consumerStart <= consumerEnd /\ consumerEnd <= end
  /\ end <= producerEnd /\ producerEnd <= producerStart + Capacity

\* The threads never meet in a slot: the producer constructs only in a slot
\* whose object is gone, the consumer moves only from a slot that holds one.
SlotsAreExclusive ==
  /\ ppc = "write" => buffer[Slot(producerEnd)] = Empty
  /\ cpc = "read" => buffer[Slot(consumerStart)] # Empty
  /\ ppc = "write" /\ cpc = "read" => Slot(producerEnd) # Slot(consumerStart)

\* Values are popped in the order they were pushed, each once.
PoppedInOrder == cpc = "release" => got = consumerStart - 1

\* The ring between the consumer's position and end_ behaves as a bounded FIFO.
Fifo == INSTANCE BoundedFifo WITH
  Values <- 0 .. MaxPushes - 1,
  items <- [i \in 1 .. end - consumerStart |-> buffer[Slot(consumerStart + i - 1)]]

FifoSpec == Fifo!FSpec

\* Push does not wait for ever for a queue that is closed or drained.
PushReturns ==
  (ppc # "idle" /\ (closed \/ producerEnd - start < Capacity)) ~> ppc = "idle"

\* Pop does not wait for ever for a queue that is closed or holds a value.
PopReturns ==
  (cpc # "idle" /\ (closed \/ consumerStart < end)) ~> cpc = "idle"

\* A call that waits sees what it waits for, whichever side has to see it: it
\* looks at the other thread's index again, not at its copy (lines 78-84, 108-115).
CallsReturn == PushReturns /\ PopReturns

\* Pop returns nothing only when every value pushed before the queue was
\* closed has been popped: test_spsc_queue.cpp pushes, closes, and asserts that
\* each of as many Pops returns a value.  (A Pop at "pollClosed" with the flag
\* set is about to return nothing.)
ClosedQueueIsDrained ==
  \A n \in 1 .. MaxPushes :
    <>(end >= n /\ ~closed) =>
      [](cpc = "pollClosed" /\ closed => consumerStart >= n)
=============================================================================
