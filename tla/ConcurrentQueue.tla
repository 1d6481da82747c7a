--------------------------- MODULE ConcurrentQueue ---------------------------
(***************************************************************************)
(* moodycamel::ConcurrentQueue as the queues of MPSC, SPMC and MPMC        *)
(* bindings use it (postboy/base/queues/mpmc.hpp): try_enqueue by producer *)
(* threads and try_dequeue by consumer threads.  Every producer thread has *)
(* an ImplicitProducer, a sequence of blocks found through a ring of       *)
(* entries; the blocks come from a pool made by the constructor and, once  *)
(* emptied, from a lock-free list with reference counts.                   *)
(*                                                                         *)
(* One action per access of shared memory.  A value is the number of       *)
(* values its producer enqueued before it.  Not modelled: the hash table   *)
(* from threads to producers, and the heuristic that scores producers: a   *)
(* consumer tries any of them.                                             *)
(***************************************************************************)
EXTENDS Integers, FiniteSets, Functions

CONSTANTS
  Producers, Consumers,
  BlockSize,  \* BLOCK_SIZE
  IndexSize,  \* IMPLICIT_INITIAL_INDEX_SIZE
  PoolSize,   \* initialBlockPoolSize
  MaxPushes,  \* bound: how many values are enqueued
  MaxInVain,  \* bound: how often a producer's values are looked for in vain
  Casts,      \* bound: the sets of threads that take part
  Free        \* the content of a slot that holds no object

ShouldBeOnFreeList == 100  \* above every reference count

ASSUME CqAssumption ==
  /\ IsFiniteSet(Consumers) /\ IsFiniteSet(Producers)
  /\ Producers \cap Consumers = {}  \* a thread that does both counts as two
  /\ Cardinality(Producers) < ShouldBeOnFreeList - 1
  /\ BlockSize \in Nat /\ BlockSize > 1
  /\ IndexSize \in Nat \ {0} /\ PoolSize \in Nat
  /\ MaxPushes \in Nat /\ MaxInVain \in Nat
  /\ Casts \subseteq SUBSET (Producers \cup Consumers)

Block == 1 .. PoolSize
None == 0
Unused == -1  \* INVALID_BLOCK_BASE
Threads == Producers \cup Consumers

VARIABLES
  tailIndex, headIndex, optimisticCount, overcommit, current,  \* of each producer; current: tailBlock
  indexTail, key, value,     \* its block index
  slots, emptied,            \* of each block: elements, elementsCompletelyDequeued
  refs, freeNext, freeHead,  \* the free list
  poolIndex,                 \* initialBlockPoolIndex
  cast,                      \* the threads that take part
  at, my                     \* where each thread is, and its local variables

counters == <<tailIndex, headIndex, optimisticCount, overcommit, current>>
index == <<indexTail, key, value>>
contents == <<slots, emptied>>
freeList == <<refs, freeNext, freeHead>>
cvars == <<counters, index, contents, freeList, poolIndex, cast, at, my>>

NoLocals == [prod |-> None, over |-> 0, count |-> 0, idx |-> 0, pos |-> 0, block |-> None,
             head |-> None, next |-> None, node |-> None, seen |-> None, got |-> Free]

Goto(t, label) == at' = [at EXCEPT ![t] = label] /\ UNCHANGED cast
Return(t) == Goto(t, "idle") /\ my' = [my EXCEPT ![t] = NoLocals]

Init ==
  /\ tailIndex = [p \in Producers |-> 0] /\ headIndex = [p \in Producers |-> 0]
  /\ optimisticCount = [p \in Producers |-> 0] /\ overcommit = [p \in Producers |-> 0]
  /\ current = [p \in Producers |-> None]
  /\ indexTail = [p \in Producers |-> IndexSize - 1]
  /\ key = [p \in Producers |-> [i \in 0 .. IndexSize - 1 |-> Unused]]
  /\ value = [p \in Producers |-> [i \in 0 .. IndexSize - 1 |-> None]]
  /\ slots = [b \in Block |-> [i \in 0 .. BlockSize - 1 |-> Free]]
  /\ emptied = [b \in Block |-> 0]
  /\ refs = [b \in Block |-> 0] /\ freeNext = [b \in Block |-> None] /\ freeHead = None
  /\ poolIndex = 0 /\ cast \in Casts
  /\ at = [t \in Threads |-> "idle"]
  /\ my = [t \in Threads |-> NoLocals]

-----------------------------------------------------------------------------
(* FreeList::add, of the block that the thread calls node, and             *)
(* add_knowing_refcount_is_zero.  A producer gets there from try_get.       *)

Added(t) ==
  IF t \in Producers THEN Goto(t, "test") /\ UNCHANGED my ELSE Return(t)

Add(t) ==
  /\ at[t] = "add"
  /\ LET b == my[t].node IN
       /\ refs' = [refs EXCEPT ![b] = @ + ShouldBeOnFreeList]
       /\ IF refs[b] = 0 THEN Goto(t, "addLoad") /\ UNCHANGED my ELSE Added(t)
  /\ UNCHANGED <<counters, index, contents, freeNext, freeHead, poolIndex>>

AddLoad(t) ==
  /\ at[t] = "addLoad"
  /\ my' = [my EXCEPT ![t].seen = freeHead]
  /\ Goto(t, "addNext")
  /\ UNCHANGED <<counters, index, contents, freeList, poolIndex>>

AddNext(t) ==
  /\ at[t] = "addNext"
  /\ freeNext' = [freeNext EXCEPT ![my[t].node] = my[t].seen]
  /\ Goto(t, "addRefs")
  /\ UNCHANGED <<counters, index, contents, refs, freeHead, poolIndex, my>>

AddRefs(t) ==
  /\ at[t] = "addRefs"
  /\ refs' = [refs EXCEPT ![my[t].node] = 1]
  /\ Goto(t, "addCas")
  /\ UNCHANGED <<counters, index, contents, freeNext, freeHead, poolIndex, my>>

AddCas(t) ==
  /\ at[t] = "addCas"
  /\ IF freeHead = my[t].seen
       THEN freeHead' = my[t].node /\ Added(t)
       ELSE /\ my' = [my EXCEPT ![t].seen = freeHead]
            /\ Goto(t, "addAgain")
            /\ UNCHANGED freeHead
  /\ UNCHANGED <<counters, index, contents, refs, freeNext, poolIndex>>

\* The exchange failed: whoever drops the last reference adds the block.
AddAgain(t) ==
  /\ at[t] = "addAgain"
  /\ LET b == my[t].node IN
       /\ refs' = [refs EXCEPT ![b] = @ + ShouldBeOnFreeList - 1]
       /\ IF refs[b] = 1 THEN Goto(t, "addNext") /\ UNCHANGED my ELSE Added(t)
  /\ UNCHANGED <<counters, index, contents, freeNext, freeHead, poolIndex>>

-----------------------------------------------------------------------------
(* FreeList::try_get, by a producer.                                        *)

GetLoad(p) ==
  /\ at[p] = "get"
  /\ my' = [my EXCEPT ![p].head = freeHead]
  /\ Goto(p, "test")
  /\ UNCHANGED <<counters, index, contents, freeList, poolIndex>>

\* A mutant: a block is referenced whatever its references.
GetAnyway(p) ==
  /\ at[p] = "test"
  /\ LET b == my[p].head IN
       \/ b = None /\ Goto(p, "rewind") /\ UNCHANGED refs
       \/ b # None /\ refs' = [refs EXCEPT ![b] = @ + 1] /\ Goto(p, "getNext")
  /\ UNCHANGED <<counters, index, contents, freeNext, freeHead, poolIndex, my>>

\* A block is referenced only if it has a reference already.
GetTest(p) ==
  /\ at[p] = "test"
  /\ LET b == my[p].head IN
       \/ b = None /\ Goto(p, "rewind") /\ UNCHANGED refs
       \/ /\ b # None /\ refs[b] % ShouldBeOnFreeList = 0
          /\ Goto(p, "get")
          /\ UNCHANGED refs
       \/ /\ b # None /\ refs[b] % ShouldBeOnFreeList # 0
          /\ refs' = [refs EXCEPT ![b] = @ + 1]
          /\ Goto(p, "getNext")
  /\ UNCHANGED <<counters, index, contents, freeNext, freeHead, poolIndex, my>>

GetNext(p) ==
  /\ at[p] = "getNext"
  /\ my' = [my EXCEPT ![p].next = freeNext[my[p].head]]
  /\ Goto(p, "getCas")
  /\ UNCHANGED <<counters, index, contents, freeList, poolIndex>>

GetCas(p) ==
  /\ at[p] = "getCas"
  /\ IF freeHead = my[p].head
       THEN freeHead' = my[p].next /\ Goto(p, "getUnref") /\ UNCHANGED my
       ELSE /\ my' = [my EXCEPT ![p].node = my[p].head, ![p].head = freeHead]
            /\ Goto(p, "getDrop")
            /\ UNCHANGED freeHead
  /\ UNCHANGED <<counters, index, contents, refs, freeNext, poolIndex>>

\* Its own reference and the list's.
GetUnref(p) ==
  /\ at[p] = "getUnref"
  /\ refs' = [refs EXCEPT ![my[p].head] = @ - 2]
  /\ my' = [my EXCEPT ![p].block = my[p].head]
  /\ Goto(p, "reset")
  /\ UNCHANGED <<counters, index, contents, freeNext, freeHead, poolIndex>>

GetDrop(p) ==
  /\ at[p] = "getDrop"
  /\ LET b == my[p].node IN
       /\ refs' = [refs EXCEPT ![b] = @ - 1]
       /\ Goto(p, IF refs[b] = ShouldBeOnFreeList + 1 THEN "addLoad" ELSE "test")
  /\ UNCHANGED <<counters, index, contents, freeNext, freeHead, poolIndex, my>>

-----------------------------------------------------------------------------
(* ImplicitProducer::enqueue.                                               *)

\* At a block's end the entry after the index's tail is taken, if it is free.
BeginEnqueue(p) ==
  /\ p \in cast /\ at[p] = "idle" /\ FoldFunction(+, 0, tailIndex) < MaxPushes
  /\ LET pos == (indexTail[p] + 1) % IndexSize IN
       \/ tailIndex[p] % BlockSize # 0 /\ Goto(p, "write") /\ UNCHANGED my
       \/ /\ tailIndex[p] % BlockSize = 0
          /\ key[p][pos] = Unused \/ value[p][pos] = None
          /\ my' = [my EXCEPT ![p].pos = pos]
          /\ Goto(p, "key")
  /\ UNCHANGED <<counters, index, contents, freeList, poolIndex>>

StoreKey(p) ==
  /\ at[p] = "key"
  /\ key' = [key EXCEPT ![p][my[p].pos] = tailIndex[p]]
  /\ Goto(p, "indexTail")
  /\ UNCHANGED <<counters, indexTail, value, contents, freeList, poolIndex, my>>

StoreIndexTail(p) ==
  /\ at[p] = "indexTail"
  /\ indexTail' = [indexTail EXCEPT ![p] = my[p].pos]
  /\ Goto(p, IF poolIndex < PoolSize THEN "pool" ELSE "get")
  /\ UNCHANGED <<counters, key, value, contents, freeList, poolIndex, my>>

\* The index may pass the end of the pool: several producers saw the last block.
TakeFromPool(p) ==
  /\ at[p] = "pool"
  /\ poolIndex' = poolIndex + 1
  /\ IF poolIndex < PoolSize
       THEN my' = [my EXCEPT ![p].block = poolIndex + 1] /\ Goto(p, "reset")
       ELSE Goto(p, "get") /\ UNCHANGED my
  /\ UNCHANGED <<counters, index, contents, freeList>>

\* No block: the entry is given back.
Rewind(p) ==
  /\ at[p] = "rewind"
  /\ indexTail' = [indexTail EXCEPT ![p] = (@ + IndexSize - 1) % IndexSize]
  /\ Goto(p, "rewound")
  /\ UNCHANGED <<counters, key, value, contents, freeList, poolIndex, my>>

Rewound(p) ==
  /\ at[p] = "rewound"
  /\ value' = [value EXCEPT ![p][my[p].pos] = None]
  /\ Return(p)
  /\ UNCHANGED <<counters, indexTail, key, contents, freeList, poolIndex>>

ResetBlock(p) ==
  /\ at[p] = "reset"
  /\ emptied' = [emptied EXCEPT ![my[p].block] = 0]
  /\ Goto(p, "value")
  /\ UNCHANGED <<counters, index, slots, freeList, poolIndex, my>>

StoreValue(p) ==
  /\ at[p] = "value"
  /\ value' = [value EXCEPT ![p][my[p].pos] = my[p].block]
  /\ current' = [current EXCEPT ![p] = my[p].block]
  /\ Goto(p, "write")
  /\ UNCHANGED <<tailIndex, headIndex, optimisticCount, overcommit, indexTail, key,
                 contents, freeList, poolIndex, my>>

Write(p) ==
  /\ at[p] = "write"
  /\ slots' = [slots EXCEPT ![current[p]][tailIndex[p] % BlockSize] = <<p, tailIndex[p]>>]
  /\ Goto(p, "publish")
  /\ UNCHANGED <<counters, index, emptied, freeList, poolIndex, my>>

Publish(p) ==
  /\ at[p] = "publish"
  /\ tailIndex' = [tailIndex EXCEPT ![p] = @ + 1]
  /\ Return(p)
  /\ UNCHANGED <<headIndex, optimisticCount, overcommit, current, index, contents, freeList, poolIndex>>

-----------------------------------------------------------------------------
(* ImplicitProducer::dequeue.                                               *)

LoadTail(c, p) ==
  /\ {c, p} \subseteq cast /\ at[c] = "idle" /\ overcommit[p] < MaxInVain
  /\ my' = [my EXCEPT ![c].prod = p, ![c].count = tailIndex[p]]
  /\ Goto(c, "overcommit")
  /\ UNCHANGED <<counters, index, contents, freeList, poolIndex>>

LoadOvercommit(c, p) ==
  /\ at[c] = "overcommit" /\ my[c].prod = p
  /\ my' = [my EXCEPT ![c].over = overcommit[p]]
  /\ Goto(c, "look")
  /\ UNCHANGED <<counters, index, contents, freeList, poolIndex>>

\* The count of those that take, or look in vain, is below what was enqueued.
Look(c, p) ==
  /\ at[c] = "look" /\ my[c].prod = p
  /\ IF optimisticCount[p] - my[c].over < my[c].count
       THEN Goto(c, "commit") /\ UNCHANGED my
       ELSE Return(c)
  /\ UNCHANGED <<counters, index, contents, freeList, poolIndex>>

Commit(c, p) ==
  /\ at[c] = "commit" /\ my[c].prod = p
  /\ optimisticCount' = [optimisticCount EXCEPT ![p] = @ + 1]
  /\ my' = [my EXCEPT ![c].count = optimisticCount[p]]
  /\ Goto(c, "check")
  /\ UNCHANGED <<tailIndex, headIndex, overcommit, current, index, contents, freeList, poolIndex>>

\* A mutant: the tail is not looked at again.
CheckNever(c, p) ==
  /\ at[c] = "check" /\ my[c].prod = p
  /\ Goto(c, "claim")
  /\ UNCHANGED <<counters, index, contents, freeList, poolIndex, my>>

Check(c, p) ==
  /\ at[c] = "check" /\ my[c].prod = p
  /\ Goto(c, IF my[c].count - my[c].over < tailIndex[p] THEN "claim" ELSE "undo")
  /\ UNCHANGED <<counters, index, contents, freeList, poolIndex, my>>

Undo(c, p) ==
  /\ at[c] = "undo" /\ my[c].prod = p
  /\ overcommit' = [overcommit EXCEPT ![p] = @ + 1]
  /\ Return(c)
  /\ UNCHANGED <<tailIndex, headIndex, optimisticCount, current, index, contents, freeList, poolIndex>>

Claim(c, p) ==
  /\ at[c] = "claim" /\ my[c].prod = p
  /\ headIndex' = [headIndex EXCEPT ![p] = @ + 1]
  /\ my' = [my EXCEPT ![c].idx = headIndex[p], ![c].count = 0, ![c].over = 0]
  /\ Goto(c, "find")
  /\ UNCHANGED <<tailIndex, optimisticCount, overcommit, current, index, contents, freeList, poolIndex>>

\* get_block_index_index_for_index: the tail of the index, then its key, from
\* which the entry is as far as there are blocks between them.
Find(c, p) ==
  /\ at[c] = "find" /\ my[c].prod = p
  /\ my' = [my EXCEPT ![c].pos = indexTail[p]]
  /\ Goto(c, "entry")
  /\ UNCHANGED <<counters, index, contents, freeList, poolIndex>>

Base(i) == i - (i % BlockSize)

Entry(c, p) ==
  /\ at[c] = "entry" /\ my[c].prod = p
  /\ LET behind == (key[p][my[c].pos] - Base(my[c].idx)) \div BlockSize IN
       my' = [my EXCEPT ![c].pos = (@ - behind) % IndexSize]
  /\ Goto(c, "take")
  /\ UNCHANGED <<counters, index, contents, freeList, poolIndex>>

Take(c, p) ==
  /\ at[c] = "take" /\ my[c].prod = p
  /\ LET b == value[p][my[c].pos] IN
       my' = [my EXCEPT ![c].block = b,
                        ![c].got = IF b = None THEN Free ELSE slots[b][my[c].idx % BlockSize]]
  /\ Goto(c, "empty")
  /\ UNCHANGED <<counters, index, contents, freeList, poolIndex>>

\* A mutant: the last but one gives the block back.
SetEmptyEarly(c, p) ==
  /\ at[c] = "empty" /\ my[c].prod = p
  /\ LET b == my[c].block IN
       /\ slots' = [slots EXCEPT ![b][my[c].idx % BlockSize] = Free]
       /\ emptied' = [emptied EXCEPT ![b] = @ + 1]
       /\ IF emptied[b] = BlockSize - 2 THEN Goto(c, "forget") /\ UNCHANGED my ELSE Return(c)
  /\ UNCHANGED <<counters, index, freeList, poolIndex>>

\* The value is destroyed; the last one of a block gives the block back.
SetEmpty(c, p) ==
  /\ at[c] = "empty" /\ my[c].prod = p
  /\ LET b == my[c].block IN
       /\ slots' = [slots EXCEPT ![b][my[c].idx % BlockSize] = Free]
       /\ emptied' = [emptied EXCEPT ![b] = @ + 1]
       /\ IF emptied[b] = BlockSize - 1 THEN Goto(c, "forget") /\ UNCHANGED my ELSE Return(c)
  /\ UNCHANGED <<counters, index, freeList, poolIndex>>

Forget(c, p) ==
  /\ at[c] = "forget" /\ my[c].prod = p
  /\ value' = [value EXCEPT ![p][my[c].pos] = None]
  /\ my' = [my EXCEPT ![c] = [NoLocals EXCEPT !.node = my[c].block]]
  /\ Goto(c, "add")
  /\ UNCHANGED <<counters, indexTail, key, contents, freeList, poolIndex>>

-----------------------------------------------------------------------------
AddToFreeList(t) == Add(t) \/ AddLoad(t) \/ AddNext(t) \/ AddRefs(t) \/ AddCas(t) \/ AddAgain(t)
TryGet(p) == GetLoad(p) \/ GetTest(p) \/ GetNext(p) \/ GetCas(p) \/ GetUnref(p) \/ GetDrop(p)
TryEnqueue(p) ==
  \/ BeginEnqueue(p) \/ StoreKey(p) \/ StoreIndexTail(p) \/ TakeFromPool(p) \/ Rewind(p) \/ Rewound(p)
  \/ ResetBlock(p) \/ StoreValue(p) \/ Write(p) \/ Publish(p) \/ TryGet(p)
TryDequeue(c, p) ==
  \/ LoadTail(c, p) \/ LoadOvercommit(c, p) \/ Look(c, p) \/ Commit(c, p) \/ Check(c, p) \/ Undo(c, p)
  \/ Claim(c, p) \/ Find(c, p) \/ Entry(c, p) \/ Take(c, p) \/ SetEmpty(c, p) \/ Forget(c, p)

Next ==
  \/ \E t \in Threads : AddToFreeList(t)
  \/ \E p \in Producers : TryEnqueue(p)
  \/ \E c \in Consumers, p \in Producers : TryDequeue(c, p)

Spec == Init /\ [][Next]_cvars

-----------------------------------------------------------------------------
(* Properties                                                               *)

\* A consumer that has claimed an index takes the value its producer enqueued
\* there, out of a block that no one reuses meanwhile; with one consumer after
\* the other this is first in, first out for each producer (lines 2661-2793).
TakesItsValue ==
  \A c \in Consumers : at[c] = "empty" => my[c].got = <<my[c].prod, my[c].idx>>

\* Consumers that look in vain cancel out: those that are counted and not in
\* vain are the ones that claimed or will claim, and never more values are
\* claimed than were enqueued (lines 2728-2739 and 2788).
Claiming(p) == {c \in Consumers : my[c].prod = p /\ at[c] \in {"check", "claim", "undo"}}
ClaimsAreBacked ==
  \A p \in Producers :
    /\ headIndex[p] <= tailIndex[p]
    /\ optimisticCount[p] - overcommit[p] = headIndex[p] + Cardinality(Claiming(p))

\* The blocks on the free list: the least set that holds its head and, with a
\* block, the next one.
Holding(S) == freeHead \in S \cup {None} /\ \A b \in S : freeNext[b] \in S \cup {None}
Chain == {b \in Block : \A S \in SUBSET Block : Holding(S) => b \in S}

\* A block is in one place and none is lost: it is not yet taken from the pool, on
\* the free list, in the index of one producer, or with the one thread that takes
\* it from the list, fills it in, has emptied it or adds it to the list; or it
\* waits to be added by the last producer that refers to it.  A block on the list
\* counts those that refer to it, so that it can be taken (lines 1581-1662).
Referring(b) ==
  {p \in Producers :
     \/ at[p] \in {"getNext", "getCas", "getUnref"} /\ my[p].head = b
     \/ at[p] = "getDrop" /\ my[p].node = b}
Adding(b) ==
  {t \in Threads :
     at[t] \in {"add", "addLoad", "addNext", "addRefs", "addCas", "addAgain"} /\ my[t].node = b}
Places(b) ==
  (IF b > poolIndex THEN {"pool"} ELSE {})
    \cup (IF b \in Chain THEN {"free list"} ELSE {})
    \cup (IF refs[b] >= ShouldBeOnFreeList /\ Adding(b) = {} /\ Referring(b) # {}
            THEN {"waits"} ELSE {})
    \cup {p \in Producers : \E i \in 0 .. IndexSize - 1 : value[p][i] = b}
    \cup {p \in Producers :
            \/ at[p] = "getUnref" /\ my[p].head = b
            \/ at[p] \in {"reset", "value"} /\ my[p].block = b}
    \cup Adding(b)
BlocksAreExclusive ==
  \A b \in Block :
    /\ Cardinality(Places(b)) = 1
    /\ b \in Chain => refs[b] = 1 + Cardinality(Referring(b))
=============================================================================
