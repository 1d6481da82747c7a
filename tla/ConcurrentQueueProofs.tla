------------------------ MODULE ConcurrentQueueProofs ------------------------
(***************************************************************************)
(* The concurrent queue, for any number and size of blocks, any index and  *)
(* any threads.  Its invariant has four parts.                             *)
(*                                                                         *)
(* The consumers' counters: a consumer that counts itself draws a number,  *)
(* the count before it, and goes on if that number, less those that it     *)
(* knows to have looked in vain, is below the tail.  Of the consumers      *)
(* whose number, so reduced, is below T, and those that went on already,   *)
(* there are at most T, for every T from the tail upwards; for a new one   *)
(* is reduced by no more than were in vain.                                *)
(*                                                                         *)
(* The types, with what a thread holds in hand at each label.              *)
(*                                                                         *)
(* The place of every block, of one kind, and what it counts there; the    *)
(* free list as the least set that holds its blocks, with a rank that      *)
(* falls along it.                                                         *)
(*                                                                         *)
(* The index of every producer: which entry is for the tail's block, whose *)
(* keys are there, and that every pending index has its block, its key and *)
(* its value.  A block's count and its pending indices make up the block,  *)
(* so that the one who takes the last gives it back.                       *)
(***************************************************************************)
EXTENDS ConcurrentQueue, FiniteSetTheorems, TLAPS

\* Those that may go on, and those that could if the tail were T.
Winning(p) == {c \in Consumers : my[c].prod = p /\ at[c] = "claim"}
Hoping(p, T) ==
  {c \in Consumers : my[c].prod = p /\ at[c] = "check" /\ my[c].count - my[c].over < T}

Balance(p) == optimisticCount[p] - overcommit[p] = headIndex[p] + Cardinality(Claiming(p))
Bound(p) ==
  \A T \in Nat : T >= tailIndex[p] =>
    headIndex[p] + Cardinality(Winning(p)) + Cardinality(Hoping(p, T)) <= T

CountInv == \A p \in Producers : Balance(p) /\ Bound(p)

Counting == {"check", "claim", "undo"}
Looking == {"overcommit", "look", "commit", "check", "claim", "undo"}

\* What a consumer knows is outdated in one direction only.
LocalInv ==
  \A c \in Consumers :
    /\ at[c] \in Looking => my[c].prod \in Producers
    /\ at[c] \in {"look", "commit", "check"} =>
         my[c].over \in Nat /\ my[c].over <= overcommit[my[c].prod]
    /\ at[c] = "check" => my[c].count \in Nat

Fields == {"prod", "over", "count", "idx", "pos", "block", "head", "next", "node", "seen", "got"}
ShapeInv ==
  /\ tailIndex \in [Producers -> Nat] /\ headIndex \in [Producers -> Nat]
  /\ optimisticCount \in [Producers -> Nat] /\ overcommit \in [Producers -> Nat]
  /\ DOMAIN at = Threads /\ DOMAIN my = Threads
  /\ \A t \in Threads : DOMAIN my[t] = Fields

IInv == ShapeInv /\ LocalInv /\ CountInv

OnlyMoves(t) ==
  /\ DOMAIN at' = Threads /\ DOMAIN my' = Threads /\ DOMAIN my'[t] = Fields
  /\ \A u \in Threads \ {t} : at'[u] = at[u] /\ my'[u] = my[u]

-----------------------------------------------------------------------------
LEMMA SetFacts ==
  ASSUME NEW S \in SUBSET Consumers
  PROVE  /\ IsFiniteSet(S) /\ Cardinality(S) \in Nat
         /\ \A c \in Consumers \ S : Cardinality(S \cup {c}) = Cardinality(S) + 1
         /\ \A c \in S : Cardinality(S \ {c}) = Cardinality(S) - 1
  <1>1. IsFiniteSet(S)
    BY CqAssumption, FS_Subset
  <1> QED BY <1>1, FS_CardinalityType, FS_AddElement, FS_RemoveElement

LEMMA Subsets ==
  ASSUME NEW p
  PROVE  /\ Claiming(p) \in SUBSET Consumers /\ Winning(p) \in SUBSET Consumers
         /\ \A T : Hoping(p, T) \in SUBSET Consumers
  BY DEF Claiming, Winning, Hoping

\* Those that go on, or could, are some of those that count themselves.
LEMMA SomeOfThem ==
  ASSUME NEW p, NEW T
  PROVE  Cardinality(Winning(p)) + Cardinality(Hoping(p, T)) <= Cardinality(Claiming(p))
  <1> DEFINE W == Winning(p)  H == Hoping(p, T)  C == Claiming(p)
  <1>1. W \subseteq C /\ H \subseteq C /\ W \cap H = {}
    BY DEF Winning, Hoping, Claiming
  <1>2. IsFiniteSet(W) /\ IsFiniteSet(H) /\ IsFiniteSet(C)
    BY Subsets, SetFacts
  <1>3. Cardinality(W \cup H) <= Cardinality(C)
    BY <1>1, <1>2, FS_Subset
  <1>4. Cardinality(W \cup H) = Cardinality(W) + Cardinality(H) - Cardinality(W \cap H)
    BY <1>2, FS_Union
  <1>5. Cardinality(W \cap H) = 0
    BY <1>1, FS_EmptySet, Zenon
  <1>6. Cardinality(W) \in Nat /\ Cardinality(H) \in Nat /\ Cardinality(C) \in Nat
    BY <1>2, FS_CardinalityType
  <1> HIDE DEF W, H, C
  <1>7. Cardinality(W) + Cardinality(H) <= Cardinality(C)
    BY <1>3, <1>4, <1>5, <1>6
  <1> QED BY <1>7 DEF W, H, C

LEMMA InitInv == Init => IInv
  <1> SUFFICES ASSUME Init PROVE IInv
    OBVIOUS
  <1>1. ShapeInv /\ LocalInv
    <2>1. DOMAIN NoLocals = Fields
      BY DEF NoLocals, Fields
    <2>2. \A t \in Threads : at[t] = "idle" /\ my[t] = NoLocals
      BY DEF Init
    <2>3. Consumers \subseteq Threads
      BY DEF Threads
    <2> QED BY <2>1, <2>2, <2>3 DEF Init, ShapeInv, LocalInv, Looking
  <1>2. ASSUME NEW p \in Producers PROVE Balance(p) /\ Bound(p)
    <2>1. Claiming(p) = {} /\ Winning(p) = {} /\ \A T : Hoping(p, T) = {}
      BY DEF Init, Threads, Claiming, Winning, Hoping
    <2>2. /\ Cardinality(Claiming(p)) = 0 /\ Cardinality(Winning(p)) = 0
          /\ \A T : Cardinality(Hoping(p, T)) = 0
      BY <2>1, FS_EmptySet, Zenon
    <2> QED BY <2>2 DEF Init, Balance, Bound
  <1> QED BY <1>1, <1>2 DEF IInv, CountInv

-----------------------------------------------------------------------------
\* The sets of a producer change only by one who counts for it.
LEMMA SameSets ==
  ASSUME NEW t \in Threads, OnlyMoves(t), NEW p \in Producers,
         at[t] \in Counting => my[t].prod # p,
         at'[t] \in Counting => my'[t].prod # p
  PROVE  /\ Claiming(p)' = Claiming(p) /\ Winning(p)' = Winning(p)
         /\ \A T : Hoping(p, T)' = Hoping(p, T)
  <1>1. Consumers \subseteq Threads
    BY DEF Threads
  <1> QED BY <1>1 DEF OnlyMoves, Counting, Claiming, Winning, Hoping

LEMMA Unaffected ==
  ASSUME IInv, NEW t \in Threads, OnlyMoves(t), NEW p \in Producers,
         at[t] \in Counting => my[t].prod # p,
         at'[t] \in Counting => my'[t].prod # p,
         optimisticCount'[p] = optimisticCount[p], overcommit'[p] = overcommit[p],
         headIndex'[p] = headIndex[p], tailIndex'[p] >= tailIndex[p], tailIndex'[p] \in Nat
  PROVE  Balance(p)' /\ Bound(p)'
  <1>1. /\ Claiming(p)' = Claiming(p) /\ Winning(p)' = Winning(p)
        /\ \A T : Hoping(p, T)' = Hoping(p, T)
    BY SameSets
  <1>2. Balance(p)'
    BY <1>1 DEF IInv, CountInv, Balance
  <1>3. Bound(p)'
    BY <1>1 DEF IInv, CountInv, Bound, ShapeInv
  <1> QED BY <1>2, <1>3

\* A step of a thread that neither was nor becomes one of the consumers that look.
LEMMA ElsewhereKeepsInv ==
  ASSUME IInv, NEW t \in Threads, OnlyMoves(t),
         at[t] \notin Looking, at'[t] \notin Looking,
         UNCHANGED <<optimisticCount, overcommit, headIndex>>,
         tailIndex' \in [Producers -> Nat], \A p \in Producers : tailIndex'[p] >= tailIndex[p]
  PROVE  IInv'
  <1>1. ShapeInv'
    BY DEF IInv, ShapeInv, OnlyMoves
  <1>2. LocalInv'
    BY DEF IInv, LocalInv, OnlyMoves, Looking, Threads
  <1>3. \A p \in Producers : Balance(p)' /\ Bound(p)'
    BY Unaffected DEF Counting, Looking
  <1> QED BY <1>1, <1>2, <1>3 DEF IInv, CountInv

-----------------------------------------------------------------------------
(* How a step of a thread looks from outside.                              *)

LEMMA GotoFact ==
  ASSUME ShapeInv, NEW t \in Threads, NEW l, Goto(t, l), UNCHANGED my
  PROVE  OnlyMoves(t) /\ at'[t] = l /\ my'[t] = my[t]
  BY DEF ShapeInv, Goto, OnlyMoves

LEMMA ReturnFact ==
  ASSUME ShapeInv, NEW t \in Threads, Return(t)
  PROVE  OnlyMoves(t) /\ at'[t] = "idle"
  BY DEF ShapeInv, Return, Goto, OnlyMoves, NoLocals, Fields

LEMMA FreeListKeepsInv ==
  ASSUME IInv, NEW t \in Threads, AddToFreeList(t) PROVE IInv'
  <1> USE DEF IInv, ShapeInv, Looking, counters
  <1>1. /\ at[t] \in {"add", "addLoad", "addNext", "addRefs", "addCas", "addAgain"}
        /\ UNCHANGED counters
    BY DEF AddToFreeList, Add, AddLoad, AddNext, AddRefs, AddCas, AddAgain
  <1>2. /\ OnlyMoves(t)
        /\ at'[t] \in {"addLoad", "addNext", "addRefs", "addCas", "addAgain", "test", "idle"}
    <2>1. CASE Added(t)
      BY <2>1, GotoFact, ReturnFact DEF Added
    <2>2. CASE Add(t) \/ AddCas(t) \/ AddAgain(t)
      BY <2>1, <2>2, GotoFact DEF Add, AddCas, AddAgain, Goto, OnlyMoves, Fields
    <2>3. CASE AddLoad(t) \/ AddNext(t) \/ AddRefs(t)
      BY <2>3 DEF AddLoad, AddNext, AddRefs, Goto, OnlyMoves, Fields
    <2> QED BY <2>2, <2>3 DEF AddToFreeList
  <1> QED BY <1>1, <1>2, ElsewhereKeepsInv

LEMMA ProducerKeepsInv ==
  ASSUME IInv, NEW p \in Producers, TryEnqueue(p) PROVE IInv'
  <1> USE DEF Threads, Looking, counters, Fields
  <1>1. ShapeInv /\ p \in Threads
    BY DEF IInv
  <1>2. CASE Publish(p)
    <2>1. tailIndex' \in [Producers -> Nat] /\ \A q \in Producers : tailIndex'[q] >= tailIndex[q]
      BY <1>1, <1>2 DEF Publish, ShapeInv
    <2> QED BY <1>1, <1>2, <2>1, ReturnFact, ElsewhereKeepsInv DEF Publish
  <1>3. ASSUME UNCHANGED <<tailIndex, headIndex, optimisticCount, overcommit>>, OnlyMoves(p),
               at[p] \notin Looking, at'[p] \notin Looking
        PROVE  IInv'
    BY <1>1, <1>3, ElsewhereKeepsInv DEF ShapeInv
  <1>4. CASE Rewound(p)
    BY <1>1, <1>3, <1>4, ReturnFact DEF Rewound
  <1>5. CASE BeginEnqueue(p) \/ StoreKey(p) \/ StoreIndexTail(p)
    BY <1>1, <1>3, <1>5 DEF BeginEnqueue, StoreKey, StoreIndexTail, Goto, OnlyMoves, ShapeInv
  <1>6. CASE TakeFromPool(p) \/ Rewind(p) \/ ResetBlock(p)
    BY <1>1, <1>3, <1>6 DEF TakeFromPool, Rewind, ResetBlock, Goto, OnlyMoves, ShapeInv
  <1>7. CASE StoreValue(p) \/ Write(p)
    BY <1>1, <1>3, <1>7 DEF StoreValue, Write, Goto, OnlyMoves, ShapeInv
  <1>8. CASE GetLoad(p) \/ GetTest(p) \/ GetNext(p)
    BY <1>1, <1>3, <1>8 DEF GetLoad, GetTest, GetNext, Goto, OnlyMoves, ShapeInv
  <1>9. CASE GetCas(p) \/ GetUnref(p) \/ GetDrop(p)
    BY <1>1, <1>3, <1>9 DEF GetCas, GetUnref, GetDrop, Goto, OnlyMoves, ShapeInv
  <1> QED BY <1>2, <1>4, <1>5, <1>6, <1>7, <1>8, <1>9 DEF TryEnqueue, TryGet

-----------------------------------------------------------------------------
(* A consumer.                                                             *)

\* The steps of a consumer that does not count itself, or no longer.
LEMMA OtherStepsKeepInv ==
  ASSUME IInv, NEW c \in Consumers, NEW p \in Producers,
         \/ LoadTail(c, p) \/ LoadOvercommit(c, p) \/ Look(c, p)
         \/ Find(c, p) \/ Entry(c, p) \/ Take(c, p) \/ SetEmpty(c, p) \/ Forget(c, p)
  PROVE  IInv'
  <1> USE DEF counters
  <1>1. c \in Threads /\ ShapeInv
    BY DEF Threads, IInv
  <1>2. UNCHANGED <<tailIndex, headIndex, optimisticCount, overcommit>>
    BY DEF LoadTail, LoadOvercommit, Look, Find, Entry, Take, SetEmpty, Forget
  <1>3. CASE Find(c, p) \/ Entry(c, p) \/ Take(c, p) \/ SetEmpty(c, p) \/ Forget(c, p)
    <2>1. OnlyMoves(c) /\ at[c] \notin Looking /\ at'[c] \notin Looking
      <3>1. CASE Return(c) /\ at[c] = "empty"
        BY <1>1, <3>1, ReturnFact DEF Looking
      <3>2. CASE Find(c, p) \/ Entry(c, p) \/ Take(c, p)
        BY <1>1, <3>2 DEF Find, Entry, Take, Goto, OnlyMoves, ShapeInv, Fields, Looking
      <3>3. CASE SetEmpty(c, p)
        BY <1>1, <3>1, <3>3, GotoFact DEF SetEmpty, Looking
      <3>4. CASE Forget(c, p)
        BY <1>1, <3>4 DEF Forget, Goto, OnlyMoves, ShapeInv, Fields, NoLocals, Looking
      <3> QED BY <1>3, <3>2, <3>3, <3>4
    <2> QED BY <1>1, <1>2, <2>1, ElsewhereKeepsInv DEF ShapeInv
  <1>4. CASE LoadTail(c, p) \/ LoadOvercommit(c, p) \/ Look(c, p)
    <2>1. /\ OnlyMoves(c) /\ at[c] \notin Counting
          /\ at'[c] \in {"overcommit", "look", "commit", "idle"}
          /\ at'[c] # "idle" => my'[c].prod = p
          /\ at'[c] = "look" => my'[c].over = overcommit[p]
          /\ at'[c] = "commit" => at[c] = "look" /\ my[c].prod = p /\ my'[c] = my[c]
      <3>1. CASE LoadTail(c, p)
        BY <1>1, <3>1 DEF LoadTail, Goto, OnlyMoves, ShapeInv, Fields, Counting
      <3>2. CASE LoadOvercommit(c, p)
        BY <1>1, <3>2 DEF LoadOvercommit, Goto, OnlyMoves, ShapeInv, Fields, Counting
      <3>3. CASE Look(c, p)
        BY <1>1, <3>3, GotoFact, ReturnFact DEF Look, Counting
      <3> QED BY <1>4, <3>1, <3>2, <3>3
    <2>2. ShapeInv'
      BY <1>1, <1>2, <2>1 DEF ShapeInv, OnlyMoves
    <2>3. LocalInv'
      BY <1>1, <1>2, <2>1 DEF IInv, ShapeInv, LocalInv, OnlyMoves, Looking, Threads
    <2>4. \A q \in Producers : Balance(q)' /\ Bound(q)'
      BY <1>1, <1>2, <2>1, Unaffected DEF Counting, ShapeInv
    <2> QED BY <2>2, <2>3, <2>4 DEF IInv, CountInv
  <1> QED BY <1>3, <1>4

\* A consumer counts itself: whoever could go on with it could be one too many
\* only if more had looked in vain than have.
LEMMA CommitKeepsInv ==
  ASSUME IInv, NEW c \in Consumers, NEW p \in Producers, Commit(c, p)
  PROVE  IInv'
  <1> DEFINE n == optimisticCount[p]  o == my[c].over
  <1>1. /\ c \in Threads /\ ShapeInv /\ at[c] = "commit" /\ my[c].prod = p
        /\ n \in Nat /\ o \in Nat /\ o <= overcommit[p]
        /\ overcommit[p] \in Nat /\ headIndex[p] \in Nat
    BY DEF Threads, IInv, ShapeInv, LocalInv, Commit
  <1>2. /\ OnlyMoves(c) /\ at'[c] = "check"
        /\ my'[c].prod = p /\ my'[c].over = o /\ my'[c].count = n
    BY <1>1 DEF Commit, Goto, OnlyMoves, ShapeInv, Fields
  <1>3. /\ UNCHANGED <<tailIndex, headIndex, overcommit>>
        /\ optimisticCount' = [optimisticCount EXCEPT ![p] = @ + 1]
    BY DEF Commit
  <1>4. ShapeInv'
    BY <1>1, <1>2, <1>3 DEF ShapeInv, OnlyMoves
  <1>5. LocalInv'
    BY <1>1, <1>2, <1>3 DEF IInv, LocalInv, OnlyMoves, Looking, Threads
  <1>6. ASSUME NEW q \in Producers \ {p} PROVE Balance(q)' /\ Bound(q)'
    <2>1. optimisticCount'[q] = optimisticCount[q] /\ tailIndex[q] \in Nat
      BY <1>1, <1>3 DEF ShapeInv
    <2> QED BY <1>1, <1>2, <1>3, <2>1, Unaffected
  <1>7. optimisticCount'[p] = n + 1
    BY <1>1, <1>3 DEF ShapeInv
  <1>8. Balance(p) /\ Bound(p)
    BY DEF IInv, CountInv
  <1>9. /\ Claiming(p)' = Claiming(p) \cup {c} /\ c \notin Claiming(p) /\ Winning(p)' = Winning(p)
        /\ \A T : c \notin Hoping(p, T)
        /\ \A T : Hoping(p, T)' = IF n - o < T THEN Hoping(p, T) \cup {c} ELSE Hoping(p, T)
    BY <1>1, <1>2 DEF OnlyMoves, Claiming, Winning, Hoping, Threads
  <1>10. Balance(p)'
    <2>1. /\ Cardinality(Claiming(p)') = Cardinality(Claiming(p)) + 1
          /\ Cardinality(Claiming(p)) \in Nat
      BY <1>9, Subsets, SetFacts
    <2> HIDE DEF n
    <2> QED BY <1>1, <1>3, <1>7, <1>8, <2>1 DEF Balance, n
  <1>11. ASSUME NEW T \in Nat, T >= tailIndex[p]
         PROVE  headIndex[p] + Cardinality(Winning(p)') + Cardinality(Hoping(p, T)') <= T
    <2>1. headIndex[p] + Cardinality(Winning(p)) + Cardinality(Hoping(p, T)) <= T
      BY <1>8, <1>11 DEF Bound
    <2>2. Cardinality(Winning(p)) + Cardinality(Hoping(p, T)) <= Cardinality(Claiming(p))
      BY SomeOfThem
    <2>3. /\ Cardinality(Winning(p)) \in Nat /\ Cardinality(Hoping(p, T)) \in Nat
          /\ Cardinality(Claiming(p)) \in Nat
      BY Subsets, SetFacts
    <2>4. CASE n - o < T
      <3>1. Cardinality(Hoping(p, T)') = Cardinality(Hoping(p, T)) + 1
        BY <1>9, <2>4, Subsets, SetFacts
      <3>2. n - overcommit[p] = headIndex[p] + Cardinality(Claiming(p))
        BY <1>8 DEF Balance
      <3> HIDE DEF n, o
      <3> QED BY <1>1, <1>9, <2>2, <2>3, <2>4, <3>1, <3>2
    <2>5. CASE ~(n - o < T)
      BY <1>9, <2>1, <2>5
    <2> QED BY <2>4, <2>5
  <1>12. Bound(p)'
    BY <1>3, <1>11 DEF Bound
  <1> QED BY <1>4, <1>5, <1>6, <1>10, <1>12 DEF IInv, CountInv

LEMMA CheckKeepsInv ==
  ASSUME IInv, NEW c \in Consumers, NEW p \in Producers, Check(c, p)
  PROVE  IInv'
  <1> DEFINE d == my[c].count - my[c].over
  <1>1. /\ c \in Threads /\ ShapeInv /\ at[c] = "check" /\ my[c].prod = p
        /\ d \in Int /\ headIndex[p] \in Nat /\ tailIndex[p] \in Nat
    BY DEF Threads, IInv, ShapeInv, LocalInv, Check
  <1>2. /\ OnlyMoves(c) /\ my'[c] = my[c]
        /\ at'[c] = IF d < tailIndex[p] THEN "claim" ELSE "undo"
    BY <1>1, GotoFact DEF Check
  <1>3. UNCHANGED <<tailIndex, headIndex, overcommit, optimisticCount>>
    BY DEF Check, counters
  <1>4. ShapeInv'
    BY <1>1, <1>2, <1>3 DEF ShapeInv, OnlyMoves
  <1>5. LocalInv'
    BY <1>1, <1>2, <1>3 DEF IInv, LocalInv, OnlyMoves, Looking, Threads
  <1>6. ASSUME NEW q \in Producers \ {p} PROVE Balance(q)' /\ Bound(q)'
    <2>1. tailIndex[q] \in Nat
      BY <1>1 DEF ShapeInv
    <2> QED BY <1>1, <1>2, <1>3, <2>1, Unaffected
  <1>7. Balance(p) /\ Bound(p)
    BY DEF IInv, CountInv
  <1>8. Claiming(p)' = Claiming(p)
    BY <1>1, <1>2 DEF OnlyMoves, Claiming, Threads
  <1>9. Balance(p)'
    BY <1>3, <1>7, <1>8 DEF Balance
  <1>10. ASSUME NEW T \in Nat, T >= tailIndex[p]
         PROVE  headIndex[p] + Cardinality(Winning(p)') + Cardinality(Hoping(p, T)') <= T
    <2>1. headIndex[p] + Cardinality(Winning(p)) + Cardinality(Hoping(p, T)) <= T
      BY <1>7, <1>10 DEF Bound
    <2>2. Cardinality(Winning(p)) \in Nat /\ Cardinality(Hoping(p, T)) \in Nat
      BY Subsets, SetFacts
    <2>3. Hoping(p, T)' = Hoping(p, T) \ {c}
      BY <1>1, <1>2 DEF OnlyMoves, Hoping, Threads
    <2>4. CASE d < tailIndex[p]
      <3>1. c \in Hoping(p, T)
        BY <1>1, <1>10, <2>4 DEF Hoping
      <3>2. Winning(p)' = Winning(p) \cup {c} /\ c \notin Winning(p)
        BY <1>1, <1>2, <2>4 DEF OnlyMoves, Winning, Threads
      <3>3. /\ Cardinality(Hoping(p, T)') = Cardinality(Hoping(p, T)) - 1
            /\ Cardinality(Winning(p)') = Cardinality(Winning(p)) + 1
        BY <2>3, <3>1, <3>2, Subsets, SetFacts
      <3> QED BY <1>1, <2>1, <2>2, <3>3
    <2>5. CASE ~(d < tailIndex[p])
      <3>1. Winning(p)' = Winning(p)
        BY <1>1, <1>2, <2>5 DEF OnlyMoves, Winning, Threads
      <3>2. /\ Cardinality(Hoping(p, T)') <= Cardinality(Hoping(p, T))
            /\ Cardinality(Hoping(p, T)') \in Nat
        BY <2>3, Subsets, SetFacts, FS_Subset
      <3> QED BY <1>1, <2>1, <2>2, <3>1, <3>2
    <2> QED BY <2>4, <2>5
  <1>11. Bound(p)'
    BY <1>3, <1>10 DEF Bound
  <1> QED BY <1>4, <1>5, <1>6, <1>9, <1>11 DEF IInv, CountInv

LEMMA UndoKeepsInv ==
  ASSUME IInv, NEW c \in Consumers, NEW p \in Producers, Undo(c, p)
  PROVE  IInv'
  <1>1. /\ c \in Threads /\ ShapeInv /\ at[c] = "undo" /\ my[c].prod = p
        /\ optimisticCount[p] \in Nat /\ overcommit[p] \in Nat /\ headIndex[p] \in Nat
    BY DEF Threads, IInv, ShapeInv, Undo
  <1>2. OnlyMoves(c) /\ at'[c] = "idle"
    BY <1>1, ReturnFact DEF Undo
  <1>3. /\ UNCHANGED <<tailIndex, headIndex, optimisticCount>>
        /\ overcommit' = [overcommit EXCEPT ![p] = @ + 1]
    BY DEF Undo
  <1>4. ShapeInv'
    BY <1>1, <1>2, <1>3 DEF ShapeInv, OnlyMoves
  <1>5. \A q \in Producers : overcommit'[q] = (IF q = p THEN overcommit[q] + 1 ELSE overcommit[q])
                             /\ overcommit[q] \in Nat
    BY <1>1, <1>3 DEF ShapeInv
  <1>6. LocalInv'
    BY <1>1, <1>2, <1>5 DEF IInv, LocalInv, OnlyMoves, Looking, Threads
  <1>7. ASSUME NEW q \in Producers \ {p} PROVE Balance(q)' /\ Bound(q)'
    <2>1. overcommit'[q] = overcommit[q] /\ tailIndex[q] \in Nat
      BY <1>1, <1>5 DEF ShapeInv
    <2> QED BY <1>1, <1>2, <1>3, <2>1, Unaffected DEF Counting
  <1>8. Balance(p) /\ Bound(p)
    BY DEF IInv, CountInv
  <1>9. /\ Claiming(p)' = Claiming(p) \ {c} /\ c \in Claiming(p) /\ Winning(p)' = Winning(p)
        /\ \A T : Hoping(p, T)' = Hoping(p, T)
    BY <1>1, <1>2 DEF OnlyMoves, Claiming, Winning, Hoping, Threads
  <1>10. Balance(p)'
    <2>1. /\ Cardinality(Claiming(p)') = Cardinality(Claiming(p)) - 1
          /\ Cardinality(Claiming(p)) \in Nat
      BY <1>9, Subsets, SetFacts
    <2> QED BY <1>1, <1>3, <1>5, <1>8, <2>1 DEF Balance
  <1>11. Bound(p)'
    BY <1>3, <1>8, <1>9 DEF Bound
  <1> QED BY <1>4, <1>6, <1>7, <1>10, <1>11 DEF IInv, CountInv

LEMMA ClaimKeepsInv ==
  ASSUME IInv, NEW c \in Consumers, NEW p \in Producers, Claim(c, p)
  PROVE  IInv'
  <1>1. /\ c \in Threads /\ ShapeInv /\ at[c] = "claim" /\ my[c].prod = p
        /\ optimisticCount[p] \in Nat /\ overcommit[p] \in Nat /\ headIndex[p] \in Nat
    BY DEF Threads, IInv, ShapeInv, Claim
  <1>2. OnlyMoves(c) /\ at'[c] = "find"
    BY <1>1 DEF Claim, Goto, OnlyMoves, ShapeInv, Fields
  <1>3. /\ UNCHANGED <<tailIndex, overcommit, optimisticCount>>
        /\ headIndex' = [headIndex EXCEPT ![p] = @ + 1]
    BY DEF Claim
  <1>4. ShapeInv'
    BY <1>1, <1>2, <1>3 DEF ShapeInv, OnlyMoves
  <1>5. LocalInv'
    BY <1>1, <1>2, <1>3 DEF IInv, LocalInv, OnlyMoves, Looking, Threads
  <1>6. headIndex'[p] = headIndex[p] + 1
    BY <1>1, <1>3 DEF ShapeInv
  <1>7. ASSUME NEW q \in Producers \ {p} PROVE Balance(q)' /\ Bound(q)'
    <2>1. headIndex'[q] = headIndex[q] /\ tailIndex[q] \in Nat
      BY <1>1, <1>3 DEF ShapeInv
    <2> QED BY <1>1, <1>2, <1>3, <2>1, Unaffected DEF Counting
  <1>8. Balance(p) /\ Bound(p)
    BY DEF IInv, CountInv
  <1>9. /\ Claiming(p)' = Claiming(p) \ {c} /\ c \in Claiming(p)
        /\ Winning(p)' = Winning(p) \ {c} /\ c \in Winning(p)
        /\ \A T : Hoping(p, T)' = Hoping(p, T)
    BY <1>1, <1>2 DEF OnlyMoves, Claiming, Winning, Hoping, Threads
  <1>10. /\ Cardinality(Claiming(p)') = Cardinality(Claiming(p)) - 1
         /\ Cardinality(Winning(p)') = Cardinality(Winning(p)) - 1
         /\ Cardinality(Claiming(p)) \in Nat /\ Cardinality(Winning(p)) \in Nat
         /\ \A T : Cardinality(Hoping(p, T)) \in Nat
    BY <1>9, Subsets, SetFacts
  <1>11. Balance(p)'
    BY <1>1, <1>3, <1>6, <1>8, <1>10 DEF Balance
  <1>12. Bound(p)'
    BY <1>1, <1>3, <1>6, <1>8, <1>9, <1>10 DEF Bound
  <1> QED BY <1>4, <1>5, <1>7, <1>11, <1>12 DEF IInv, CountInv

LEMMA NextInv == IInv /\ [Next]_cvars => IInv'
  <1> SUFFICES ASSUME IInv, [Next]_cvars PROVE IInv'
    OBVIOUS
  <1>1. CASE UNCHANGED cvars
    <2>1. ShapeInv' /\ LocalInv'
      BY <1>1 DEF cvars, counters, IInv, ShapeInv, LocalInv
    <2>2. CountInv'
      BY <1>1 DEF cvars, counters, IInv, CountInv, Balance, Bound, Claiming, Winning, Hoping
    <2> QED BY <2>1, <2>2 DEF IInv
  <1>2. ASSUME NEW c \in Consumers, NEW p \in Producers, TryDequeue(c, p) PROVE IInv'
    BY <1>2, OtherStepsKeepInv, CommitKeepsInv, CheckKeepsInv, UndoKeepsInv, ClaimKeepsInv
       DEF TryDequeue
  <1> QED BY <1>1, <1>2, FreeListKeepsInv, ProducerKeepsInv DEF Next

\* However many consumers race for a producer's values, no more of them go on to
\* claim one than there are values, and the two counts tell how many
\* (moodycamel_concurrent_queue.hpp:2728-2739).
THEOREM ClaimsAreAlwaysBacked == Spec => []ClaimsAreBacked
  <1>1. IInv => ClaimsAreBacked
    <2> SUFFICES ASSUME IInv, NEW p \in Producers
                 PROVE  headIndex[p] <= tailIndex[p] /\ Balance(p)
      BY DEF ClaimsAreBacked, Balance
    <2>1. /\ headIndex[p] \in Nat /\ tailIndex[p] \in Nat
          /\ headIndex[p] + Cardinality(Winning(p)) + Cardinality(Hoping(p, tailIndex[p]))
               <= tailIndex[p]
      BY DEF IInv, ShapeInv, CountInv, Bound
    <2>2. Cardinality(Winning(p)) \in Nat /\ Cardinality(Hoping(p, tailIndex[p])) \in Nat
      BY Subsets, SetFacts
    <2> QED BY <2>1, <2>2 DEF IInv, CountInv
  <1> QED BY <1>1, InitInv, NextInv, PTL DEF Spec

-----------------------------------------------------------------------------
(* Indices: the number of the block that holds one, its place in the       *)
(* block, the entry of the ring for a block, and a block's first index.    *)

Num(n) == n \div BlockSize
Off(n) == n % BlockSize
Ent(m) == m % IndexSize
First(m) == BlockSize * m
Entries == 0 .. IndexSize - 1

LEMMA Division ==
  ASSUME NEW x \in Int, NEW m \in Nat, m > 0
  PROVE  /\ x \div m \in Int /\ x % m \in 0 .. m - 1
         /\ x = m * (x \div m) + (x % m)
  OBVIOUS

LEMMA Quotient ==
  ASSUME NEW m \in Nat, m > 0, NEW q \in Int, NEW r \in 0 .. m - 1
  PROVE  (m * q + r) \div m = q /\ (m * q + r) % m = r
  <1> DEFINE x == m * q + r
  <1>1. PICK y \in Int : y = x
    OBVIOUS
  <1>2. PICK a \in Int, b \in 0 .. m - 1 : y \div m = a /\ y % m = b /\ y = m * a + b
    BY Division
  <1>3. m * (a - q) = r - b
    BY <1>1, <1>2
  <1>4. a - q = 0
    <2>1. PICK d \in Int : d = a - q
      OBVIOUS
    <2>2. m * d = r - b /\ r - b < m /\ r - b > -m
      BY <1>3, <2>1
    <2>3. d >= 1 => m * d >= m
      OBVIOUS
    <2>4. d <= -1 => m * d <= -m
      OBVIOUS
    <2> QED BY <2>1, <2>2, <2>3, <2>4
  <1> QED BY <1>1, <1>2, <1>3, <1>4

LEMMA IndexFacts ==
  ASSUME NEW n \in Nat
  PROVE  /\ Num(n) \in Nat /\ Off(n) \in 0 .. BlockSize - 1
         /\ First(Num(n)) \in Nat /\ n = First(Num(n)) + Off(n)
         /\ First(Num(n)) # Unused
  <1>1. PICK a \in Int, b \in 0 .. BlockSize - 1 :
          n \div BlockSize = a /\ n % BlockSize = b /\ n = BlockSize * a + b
    BY Division, CqAssumption
  <1>2. a >= 0
    <2>1. a <= -1 => BlockSize * a <= -BlockSize
      BY CqAssumption
    <2>2. PICK x \in Int : x = BlockSize * a
      BY CqAssumption
    <2> QED BY <1>1, <2>1, <2>2, CqAssumption
  <1>3. BlockSize * a \in Nat
    BY <1>2, CqAssumption
  <1> QED BY <1>1, <1>2, <1>3 DEF Num, Off, First, Unused

LEMMA FirstFacts ==
  ASSUME NEW m \in Nat
  PROVE  /\ First(m) \in Nat /\ First(m) # Unused
         /\ Num(First(m)) = m /\ Off(First(m)) = 0
  <1>1. BlockSize * m \in Nat
    BY CqAssumption
  <1>2. (BlockSize * m + 0) \div BlockSize = m /\ (BlockSize * m + 0) % BlockSize = 0
    <2>1. m \in Int /\ 0 \in 0 .. BlockSize - 1 /\ BlockSize > 0 /\ BlockSize \in Nat
      BY CqAssumption
    <2> QED BY <2>1, Quotient
  <1>3. PICK x \in Nat : x = BlockSize * m
    BY <1>1
  <1>4. x + 0 = x
    OBVIOUS
  <1>5. x \div BlockSize = m /\ x % BlockSize = 0
    BY <1>2, <1>3, <1>4
  <1> QED BY <1>3, <1>5 DEF Num, Off, First, Unused

LEMMA SameIndex ==
  ASSUME NEW n \in Nat, NEW k \in Nat, Num(n) = Num(k), Off(n) = Off(k)
  PROVE  n = k
  BY IndexFacts, Zenon

\* The index after one is in the same block, or the first of the next.
LEMMA NextIndex ==
  ASSUME NEW n \in Nat
  PROVE  /\ Off(n + 1) # 0 => Num(n + 1) = Num(n)
         /\ Off(n + 1) = 0 => Num(n + 1) = Num(n) + 1
  <1>1. PICK a \in Nat, b \in 0 .. BlockSize - 1 :
          Num(n) = a /\ Off(n) = b /\ n = BlockSize * a + b
    BY IndexFacts DEF First
  <1>2. PICK k \in Nat : k = n + 1
    OBVIOUS
  <1>3. CASE b + 1 < BlockSize
    <2>1. k = BlockSize * a + (b + 1) /\ b + 1 \in 0 .. BlockSize - 1
      BY <1>1, <1>2, <1>3, CqAssumption
    <2>2. PICK r \in 0 .. BlockSize - 1 : r = b + 1 /\ k = BlockSize * a + r
      BY <2>1
    <2>3. k \div BlockSize = a /\ k % BlockSize = r
      BY <2>2, Quotient, CqAssumption
    <2> QED BY <1>1, <1>2, <2>2, <2>3 DEF Num, Off
  <1>4. CASE b + 1 = BlockSize
    <2>1. k = BlockSize * (a + 1)
      BY <1>1, <1>2, <1>4, CqAssumption
    <2>2. PICK d \in Nat : d = a + 1 /\ k = First(d)
      BY <2>1 DEF First
    <2>3. Num(k) = d /\ Off(k) = 0
      BY <2>2, FirstFacts
    <2> QED BY <1>1, <1>2, <2>2, <2>3
  <1> QED BY <1>1, <1>3, <1>4, CqAssumption

\* The end of a block that is not the first one.
LEMMA LastBlock ==
  ASSUME NEW n \in Nat, n > 0, Off(n) = 0
  PROVE  Num(n) - 1 \in Nat /\ First(Num(n) - 1) < n
  <1>1. PICK a \in Nat : Num(n) = a /\ n = BlockSize * a
    BY IndexFacts DEF First
  <1>2. a > 0
    BY <1>1, CqAssumption
  <1>3. BlockSize * (a - 1) = BlockSize * a - BlockSize
    BY CqAssumption
  <1> QED BY <1>1, <1>2, <1>3, CqAssumption DEF First

LEMMA EntFacts ==
  ASSUME NEW m \in Nat
  PROVE  /\ Ent(m) \in Entries
         /\ (Ent(m + IndexSize - 1) + 1) % IndexSize = Ent(m)
         /\ (Ent(m) + IndexSize - 1) % IndexSize = Ent(m + IndexSize - 1)
         /\ Ent(m + 1 + IndexSize - 1) = Ent(m)
         /\ m > 0 => Ent(m + IndexSize - 1) = Ent(m - 1)
  <1> DEFINE I == IndexSize
  <1>1. I \in Nat /\ I > 0
    BY CqAssumption
  <1> HIDE DEF I
  <1>2. PICK q \in Int, r \in 0 .. I - 1 : m % I = r /\ m = I * q + r
    BY <1>1, Division
  <1>3. PICK iq \in Int : iq = I * q
    BY <1>1
  <1>4. ASSUME NEW s \in 0 .. I - 1, NEW x \in Int,
               x \in {iq + s, iq + I + s, iq - I + s, s, I + s}
        PROVE  x % I = s
    <2>1. I * q + s = iq + s /\ I * (q + 1) + s = iq + I + s /\ I * (q - 1) + s = iq - I + s
          /\ I * 0 + s = s /\ I * 1 + s = I + s
      BY <1>1, <1>3
    <2>2. /\ (I * q + s) % I = s /\ (I * (q + 1) + s) % I = s /\ (I * (q - 1) + s) % I = s
          /\ (I * 0 + s) % I = s /\ (I * 1 + s) % I = s
      <3>1. {q, q + 1, q - 1, 0, 1} \subseteq Int
        OBVIOUS
      <3> QED BY <1>1, <3>1, Quotient
    <2> QED BY <1>4, <2>1, <2>2, Zenon
  <1>5. (m + 1 + I - 1) % I = r
    BY <1>1, <1>2, <1>3, <1>4
  <1>6. CASE r = 0
    <2>1. /\ I - 1 \in 0 .. I - 1 /\ m + I - 1 = iq + (I - 1) /\ I - 1 + 1 = I + r
          /\ r + I - 1 = I - 1 /\ m - 1 = iq - I + (I - 1)
      BY <1>1, <1>2, <1>3, <1>6
    <2>2. /\ (m + I - 1) % I = I - 1 /\ (I - 1 + 1) % I = r
          /\ (r + I - 1) % I = I - 1 /\ (m - 1) % I = I - 1
      <3>1. m + I - 1 \in Int /\ I - 1 + 1 \in Int /\ r + I - 1 \in Int /\ m - 1 \in Int
        BY <1>1
      <3> QED BY <1>4, <2>1, <3>1
    <2> QED BY <1>1, <1>2, <1>5, <2>2 DEF Ent, Entries, I
  <1>7. CASE r > 0
    <2>1. /\ r - 1 \in 0 .. I - 1 /\ m + I - 1 = iq + I + (r - 1) /\ r - 1 + 1 = r
          /\ r + I - 1 = I + (r - 1) /\ m - 1 = iq + (r - 1)
      BY <1>1, <1>2, <1>3, <1>7
    <2>2. /\ (m + I - 1) % I = r - 1 /\ (r - 1 + 1) % I = r
          /\ (r + I - 1) % I = r - 1 /\ (m - 1) % I = r - 1
      <3>1. m + I - 1 \in Int /\ r - 1 + 1 \in Int /\ r + I - 1 \in Int /\ m - 1 \in Int
        BY <1>1
      <3> QED BY <1>4, <2>1, <3>1
    <2> QED BY <1>1, <1>2, <1>5, <2>2 DEF Ent, Entries, I
  <1> QED BY <1>6, <1>7

\* From the entry of one block, the entry of another by the blocks between.
LEMMA EntryFacts ==
  ASSUME NEW m \in Nat, NEW n \in Nat
  PROVE  (Ent(m) - ((First(m) - Base(n)) \div BlockSize)) % IndexSize = Ent(Num(n))
  <1>1. PICK a \in Nat, b \in 0 .. BlockSize - 1 :
          /\ n = BlockSize * a + b /\ Num(n) = a /\ n % BlockSize = b
    BY IndexFacts DEF First, Off
  <1>2. First(m) - Base(n) = BlockSize * (m - a) + 0
    <2>1. BlockSize * (m - a) = BlockSize * m - BlockSize * a
      BY CqAssumption
    <2>2. PICK x \in Int, y \in Int : x = BlockSize * m /\ y = BlockSize * a
      BY CqAssumption
    <2> QED BY <1>1, <2>1, <2>2 DEF First, Base
  <1>3. (First(m) - Base(n)) \div BlockSize = m - a
    <2>1. m - a \in Int /\ 0 \in 0 .. BlockSize - 1 /\ BlockSize > 0 /\ BlockSize \in Nat
      BY CqAssumption
    <2> QED BY <1>2, <2>1, Quotient
  <1> DEFINE I == IndexSize
  <1>4. I \in Nat /\ I > 0
    BY CqAssumption
  <1> HIDE DEF I
  <1>5. PICK q \in Int, r \in 0 .. I - 1 : m % I = r /\ m = I * q + r
    BY <1>4, Division
  <1>6. PICK u \in Int, s \in 0 .. I - 1 : a % I = s /\ a = I * u + s
    BY <1>4, Division
  <1>7. r - (m - a) = I * (u - q) + s
    <2>1. I * (u - q) = I * u - I * q
      BY <1>4
    <2>2. PICK x \in Int, y \in Int : x = I * u /\ y = I * q
      BY <1>4
    <2> QED BY <1>5, <1>6, <2>1, <2>2
  <1>8. (r - (m - a)) % I = s
    <2>1. u - q \in Int
      OBVIOUS
    <2>2. (I * (u - q) + s) % I = s
      BY <1>4, <2>1, Quotient
    <2> QED BY <1>7, <2>2
  <1> QED BY <1>1, <1>3, <1>5, <1>6, <1>8 DEF Ent, I

LEMMA WholeBlock ==
  ASSUME NEW m \in Nat
  PROVE  /\ IsFiniteSet({n \in Nat : Num(n) = m})
         /\ Cardinality({n \in Nat : Num(n) = m}) = BlockSize
  <1>1. PICK f \in Nat : f = BlockSize * m
    BY CqAssumption
  <1>2. ASSUME NEW n \in Nat PROVE Num(n) = m <=> n \in f .. f + BlockSize - 1
    <2>1. CASE Num(n) = m
      <3>1. n = First(m) + Off(n) /\ Off(n) \in 0 .. BlockSize - 1
        BY <2>1, IndexFacts
      <3>2. PICK o \in 0 .. BlockSize - 1 : o = Off(n) /\ n = f + o
        BY <1>1, <2>1, <3>1 DEF First
      <3> QED BY <1>1, <2>1, <3>2, CqAssumption
    <2>2. CASE n \in f .. f + BlockSize - 1
      <3>1. PICK r \in 0 .. BlockSize - 1 : r = n - f
        BY <2>2, CqAssumption
      <3>2. n = BlockSize * m + r
        BY <1>1, <3>1
      <3>3. m \in Int /\ BlockSize > 0 /\ BlockSize \in Nat
        BY CqAssumption
      <3>4. (BlockSize * m + r) \div BlockSize = m
        BY <3>3, Quotient
      <3> QED BY <2>2, <3>2, <3>4 DEF Num
    <2> QED BY <2>1, <2>2
  <1>3. {n \in Nat : Num(n) = m} = f .. f + BlockSize - 1
    <2>1. f .. f + BlockSize - 1 \subseteq Nat
      BY CqAssumption
    <2> QED BY <1>2, <2>1
  <1>4. f \in Int /\ f + BlockSize - 1 \in Int
    BY <1>1, CqAssumption
  <1>5. /\ IsFiniteSet(f .. f + BlockSize - 1)
        /\ Cardinality(f .. f + BlockSize - 1) =
             IF f > f + BlockSize - 1 THEN 0 ELSE (f + BlockSize - 1) - f + 1
    BY <1>4, FS_Interval
  <1>6. (IF f > f + BlockSize - 1 THEN 0 ELSE (f + BlockSize - 1) - f + 1) = BlockSize
    BY <1>1, CqAssumption
  <1> QED BY <1>3, <1>5, <1>6, Zenon

-----------------------------------------------------------------------------
(* The free list.  Its blocks are the least set that holds them; a rank    *)
(* that falls along the list shows that no block comes twice.              *)

Holds(S, h, f) == h \in S \cup {None} /\ \A b \in S : f[b] \in S \cup {None}
ListOf(h, f) == {b \in Block : \A S \in SUBSET Block : Holds(S, h, f) => b \in S}
Links == [Block -> Block \cup {None}]

LEMMA ChainIsList == Chain = ListOf(freeHead, freeNext)
  BY DEF Chain, Holding, ListOf, Holds

LEMMA ListHolds ==
  ASSUME NEW h \in Block \cup {None}, NEW f \in Links
  PROVE  ListOf(h, f) \in SUBSET Block /\ Holds(ListOf(h, f), h, f)
  <1> DEFINE L == ListOf(h, f)
  <1>1. L \subseteq Block
    BY DEF ListOf
  <1>2. h \in L \cup {None}
    BY DEF ListOf, Holds
  <1>3. ASSUME NEW b \in L PROVE f[b] \in L \cup {None}
    <2>1. f[b] \in Block \cup {None}
      BY <1>1 DEF Links
    <2>2. ASSUME NEW S \in SUBSET Block, Holds(S, h, f) PROVE f[b] \in S \cup {None}
      BY <2>2, <1>3 DEF ListOf, Holds
    <2> QED BY <2>1, <2>2 DEF ListOf
  <1> QED BY <1>1, <1>2, <1>3 DEF Holds

LEMMA ListIsLeast ==
  ASSUME NEW h, NEW f, NEW S \in SUBSET Block, Holds(S, h, f)
  PROVE  ListOf(h, f) \subseteq S
  BY DEF ListOf

\* What is not on the list may change its next block.
LEMMA ListKept ==
  ASSUME NEW h \in Block \cup {None}, NEW f \in Links, NEW g \in Links,
         \A b \in ListOf(h, f) : g[b] = f[b]
  PROVE  ListOf(h, g) = ListOf(h, f)
  <1>1. Holds(ListOf(h, f), h, g) /\ ListOf(h, f) \in SUBSET Block
    BY ListHolds DEF Holds
  <1>2. ListOf(h, g) \subseteq ListOf(h, f)
    BY <1>1, ListIsLeast
  <1>3. Holds(ListOf(h, g), h, f) /\ ListOf(h, g) \in SUBSET Block
    BY <1>2, ListHolds DEF Holds
  <1> QED BY <1>2, <1>3, ListIsLeast

LEMMA ListPushed ==
  ASSUME NEW h \in Block \cup {None}, NEW f \in Links, NEW n \in Block, f[n] = h
  PROVE  ListOf(n, f) = ListOf(h, f) \cup {n}
  <1> DEFINE L == ListOf(h, f)  K == ListOf(n, f)
  <1>1. L \in SUBSET Block /\ Holds(L, h, f) /\ K \in SUBSET Block /\ Holds(K, n, f)
    BY ListHolds
  <1>2. n \in K
    BY <1>1 DEF Holds, None, Block
  <1>3. K \subseteq L \cup {n}
    <2>1. Holds(L \cup {n}, n, f) /\ L \cup {n} \in SUBSET Block
      BY <1>1 DEF Holds
    <2> QED BY <2>1, ListIsLeast
  <1>4. L \subseteq K
    <2>1. Holds(K, h, f)
      BY <1>1, <1>2 DEF Holds
    <2> QED BY <1>1, <2>1, ListIsLeast
  <1> QED BY <1>2, <1>3, <1>4

Falls(rank, h, f) ==
  \A b \in ListOf(h, f) : f[b] # None => rank[f[b]] < rank[b]

LEMMA ListPopped ==
  ASSUME NEW h \in Block, NEW f \in Links, NEW rank \in [Block -> Nat], Falls(rank, h, f)
  PROVE  ListOf(f[h], f) = ListOf(h, f) \ {h} /\ h \in ListOf(h, f)
  <1> DEFINE L == ListOf(h, f)  n == f[h]  K == ListOf(n, f)
             R == {x \in L : rank[x] < rank[h]}
  <1>1. n \in Block \cup {None}
    BY DEF Links
  <1>2. L \in SUBSET Block /\ Holds(L, h, f) /\ K \in SUBSET Block /\ Holds(K, n, f)
    BY <1>1, ListHolds
  <1>3. h \in L
    BY <1>2 DEF Holds, None, Block
  <1>4. L \subseteq R \cup {h}
    <2>1. ASSUME NEW b \in R \cup {h}, f[b] # None PROVE f[b] \in R
      <3>1. b \in L /\ f[b] \in L /\ rank[f[b]] < rank[b]
        BY <1>2, <1>3, <2>1 DEF Falls, Holds
      <3>2. rank[b] \in Nat /\ rank[f[b]] \in Nat /\ rank[h] \in Nat /\ rank[b] <= rank[h]
        BY <1>2, <3>1
      <3> QED BY <3>1, <3>2
    <2>2. Holds(R \cup {h}, h, f)
      BY <2>1 DEF Holds
    <2> QED BY <1>2, <2>2, ListIsLeast
  <1>5. K \subseteq L \ {h}
    <2>1. ASSUME NEW b \in L, f[b] # None PROVE f[b] # h /\ f[b] \in L
      <3>1. rank[f[b]] < rank[b] /\ f[b] \in L
        BY <1>2, <2>1 DEF Falls, Holds
      <3>2. rank[b] \in Nat /\ rank[f[b]] \in Nat /\ rank[h] \in Nat
        BY <1>2, <3>1
      <3>3. rank[b] <= rank[h]
        BY <1>4, <3>2
      <3> QED BY <3>1, <3>2, <3>3
    <2>2. Holds(L \ {h}, n, f)
      BY <1>3, <2>1 DEF Holds
    <2>3. L \ {h} \in SUBSET Block
      BY <1>2
    <2> QED BY <2>2, <2>3, ListIsLeast
  <1>6. L \ {h} \subseteq K
    <2>1. Holds(K \cup {h}, h, f)
      BY <1>2 DEF Holds
    <2>2. K \cup {h} \in SUBSET Block
      BY <1>2
    <2> QED BY <2>1, <2>2, ListIsLeast
  <1> QED BY <1>3, <1>5, <1>6

-----------------------------------------------------------------------------
(* Types, and the labels of each thread.                                   *)

Joining == {"addLoad", "addNext", "addRefs", "addCas", "addAgain"}
Seeking ==
  Joining \cup {"pool", "get", "test", "getNext", "getCas", "getUnref", "getDrop",
                "reset", "value", "rewind"}
ProducerLabels == Seeking \cup {"idle", "key", "indexTail", "rewound", "write", "publish"}
Claimed == {"find", "entry", "take", "empty"}
ConsumerLabels == Looking \cup Claimed \cup Joining \cup {"idle", "forget", "add"}

Link == Block \cup {None}
LocalType(t) ==
  /\ my[t].pos \in Entries /\ my[t].idx \in Nat /\ my[t].block \in Link
  /\ my[t].head \in Link /\ my[t].next \in Link /\ my[t].node \in Link /\ my[t].seen \in Link
\* What a thread holds in hand where it goes on with it.
Known(t) ==
  /\ at[t] \in {"getNext", "getCas", "getUnref"} => my[t].head \in Block
  /\ at[t] \in Joining \cup {"add", "getDrop"} => my[t].node \in Block
  /\ at[t] \in {"reset", "value"} => my[t].block \in Block

TypeInv ==
  /\ current \in [Producers -> Link] /\ indexTail \in [Producers -> Entries]
  /\ key \in [Producers -> [Entries -> Int]] /\ value \in [Producers -> [Entries -> Link]]
  /\ DOMAIN slots = Block /\ \A b \in Block : DOMAIN slots[b] = 0 .. BlockSize - 1
  /\ emptied \in [Block -> Nat]
  /\ refs \in [Block -> Int] /\ freeNext \in [Block -> Link] /\ freeHead \in Link
  /\ poolIndex \in Nat
  /\ \A t \in Threads : LocalType(t) /\ Known(t)
  /\ \A p \in Producers : at[p] \in ProducerLabels
  /\ \A c \in Consumers : at[c] \in ConsumerLabels

LEMMA InitType == Init => TypeInv
  <1> SUFFICES ASSUME Init PROVE TypeInv
    OBVIOUS
  <1>1. 0 \in Entries /\ IndexSize - 1 \in Entries
    BY CqAssumption DEF Entries
  <1>2. \A t \in Threads : at[t] = "idle" /\ LocalType(t) /\ Known(t)
    BY <1>1 DEF Init, LocalType, Known, NoLocals, Link, Joining
  <1>3. \A p \in Producers : at[p] \in ProducerLabels
    BY <1>2 DEF Threads, ProducerLabels
  <1>4. \A c \in Consumers : at[c] \in ConsumerLabels
    BY <1>2 DEF Threads, ConsumerLabels
  <1>5. /\ key \in [Producers -> [Entries -> Int]] /\ value \in [Producers -> [Entries -> Link]]
        /\ current \in [Producers -> Link] /\ indexTail \in [Producers -> Entries]
    BY <1>1 DEF Init, Entries, Link, Unused
  <1>6. DOMAIN slots = Block /\ \A b \in Block : DOMAIN slots[b] = 0 .. BlockSize - 1
    BY DEF Init
  <1> QED BY <1>2, <1>3, <1>4, <1>5, <1>6 DEF Init, TypeInv, Link

\* What is left to show of a step of one thread.
LEMMA StepType ==
  ASSUME TypeInv, NEW t \in Threads, OnlyMoves(t), LocalType(t)', Known(t)',
         t \in Producers => at'[t] \in ProducerLabels,
         t \in Consumers => at'[t] \in ConsumerLabels,
         /\ current' \in [Producers -> Link] /\ indexTail' \in [Producers -> Entries]
         /\ key' \in [Producers -> [Entries -> Int]] /\ value' \in [Producers -> [Entries -> Link]]
         /\ DOMAIN slots' = Block /\ \A b \in Block : DOMAIN slots'[b] = 0 .. BlockSize - 1
         /\ emptied' \in [Block -> Nat]
         /\ refs' \in [Block -> Int] /\ freeNext' \in [Block -> Link] /\ freeHead' \in Link
         /\ poolIndex' \in Nat
  PROVE  TypeInv'
  <1>1. \A u \in Threads : LocalType(u)' /\ Known(u)'
    BY DEF TypeInv, OnlyMoves, LocalType, Known
  <1>2. \A p \in Producers : at'[p] \in ProducerLabels
    BY DEF TypeInv, OnlyMoves, Threads
  <1>3. \A c \in Consumers : at'[c] \in ConsumerLabels
    BY DEF TypeInv, OnlyMoves, Threads
  <1> QED BY <1>1, <1>2, <1>3 DEF TypeInv

LEMMA AddMoves ==
  ASSUME ShapeInv, NEW t \in Threads, AddToFreeList(t) PROVE OnlyMoves(t)
  <1>1. CASE Added(t)
    BY <1>1, GotoFact, ReturnFact DEF Added
  <1>2. CASE Add(t) \/ AddAgain(t)
    BY <1>1, <1>2, GotoFact DEF Add, AddAgain
  <1>3. CASE AddCas(t)
    BY <1>1, <1>3 DEF AddCas, Goto, OnlyMoves, ShapeInv, Fields
  <1>4. CASE AddLoad(t) \/ AddNext(t) \/ AddRefs(t)
    BY <1>4 DEF AddLoad, AddNext, AddRefs, Goto, OnlyMoves, ShapeInv, Fields
  <1> QED BY <1>2, <1>3, <1>4 DEF AddToFreeList

LEMMA EnqueueMoves ==
  ASSUME ShapeInv, NEW p \in Producers, TryEnqueue(p) PROVE OnlyMoves(p)
  <1> USE DEF Threads, Fields
  <1>1. CASE Publish(p) \/ Rewound(p)
    BY <1>1, ReturnFact DEF Publish, Rewound
  <1>2. CASE BeginEnqueue(p) \/ StoreKey(p) \/ StoreIndexTail(p)
    BY <1>2 DEF BeginEnqueue, StoreKey, StoreIndexTail, Goto, OnlyMoves, ShapeInv
  <1>3. CASE TakeFromPool(p) \/ Rewind(p) \/ ResetBlock(p)
    BY <1>3 DEF TakeFromPool, Rewind, ResetBlock, Goto, OnlyMoves, ShapeInv
  <1>4. CASE StoreValue(p) \/ Write(p)
    BY <1>4 DEF StoreValue, Write, Goto, OnlyMoves, ShapeInv
  <1>5. CASE GetLoad(p) \/ GetTest(p) \/ GetNext(p)
    BY <1>5 DEF GetLoad, GetTest, GetNext, Goto, OnlyMoves, ShapeInv
  <1>6. CASE GetCas(p) \/ GetUnref(p) \/ GetDrop(p)
    BY <1>6 DEF GetCas, GetUnref, GetDrop, Goto, OnlyMoves, ShapeInv
  <1> QED BY <1>1, <1>2, <1>3, <1>4, <1>5, <1>6 DEF TryEnqueue, TryGet

LEMMA DequeueMoves ==
  ASSUME ShapeInv, NEW c \in Consumers, NEW p \in Producers, TryDequeue(c, p) PROVE OnlyMoves(c)
  <1> USE DEF Threads, Fields
  <1>1. CASE Look(c, p) \/ Check(c, p) \/ Undo(c, p) \/ SetEmpty(c, p)
    BY <1>1, GotoFact, ReturnFact DEF Look, Check, Undo, SetEmpty
  <1>2. CASE LoadTail(c, p) \/ LoadOvercommit(c, p) \/ Commit(c, p) \/ Claim(c, p)
    BY <1>2 DEF LoadTail, LoadOvercommit, Commit, Claim, Goto, OnlyMoves, ShapeInv
  <1>3. CASE Find(c, p) \/ Entry(c, p) \/ Take(c, p) \/ Forget(c, p)
    BY <1>3 DEF Find, Entry, Take, Forget, Goto, OnlyMoves, ShapeInv, NoLocals
  <1> QED BY <1>1, <1>2, <1>3 DEF TryDequeue

-----------------------------------------------------------------------------
LEMMA AddType ==
  ASSUME ShapeInv, TypeInv, NEW t \in Threads, AddToFreeList(t) PROVE TypeInv'
  <1> USE DEF counters, index, contents, freeList
  <1>1. OnlyMoves(t) /\ LocalType(t) /\ Known(t)
    BY AddMoves DEF TypeInv
  <1>2. UNCHANGED <<current, indexTail, key, value, slots, emptied, poolIndex>>
    BY DEF AddToFreeList, Add, AddLoad, AddNext, AddRefs, AddCas, AddAgain
  <1>3. refs' \in [Block -> Int] /\ freeNext' \in [Block -> Link] /\ freeHead' \in Link
    <2>1. CASE Add(t) \/ AddAgain(t) \/ AddRefs(t)
      BY <2>1 DEF Add, AddAgain, AddRefs, TypeInv, ShouldBeOnFreeList
    <2>2. CASE AddLoad(t) \/ AddNext(t) \/ AddCas(t)
      BY <1>1, <2>2 DEF AddLoad, AddNext, AddCas, TypeInv, LocalType
    <2> QED BY <2>1, <2>2 DEF AddToFreeList
  <1>4. /\ LocalType(t)' /\ Known(t)'
        /\ t \in Producers => at'[t] \in ProducerLabels
        /\ t \in Consumers => at'[t] \in ConsumerLabels
    <2> USE CqAssumption DEF ProducerLabels, ConsumerLabels, Seeking, Joining
    <2>1. CASE Added(t) /\ t \in Producers
      BY <1>1, <2>1, GotoFact DEF Added, LocalType, Known
    <2>2. CASE Added(t) /\ t \notin Producers
      <3>1. my'[t] = NoLocals /\ 0 \in Entries /\ at'[t] = "idle" /\ t \in Consumers
        BY <2>2 DEF Added, Return, Goto, ShapeInv, Entries, Threads
      <3> QED BY <2>2, <3>1 DEF NoLocals, LocalType, Known, Link
    <2>3. CASE Add(t) \/ AddAgain(t)
      BY <1>1, <2>1, <2>2, <2>3, GotoFact DEF Add, AddAgain, LocalType, Known
    <2>4. CASE AddLoad(t)
      BY <1>1, <2>4 DEF AddLoad, Goto, LocalType, Known, TypeInv, ShapeInv, Fields
    <2>5. CASE AddNext(t) \/ AddRefs(t)
      BY <1>1, <2>5, GotoFact DEF AddNext, AddRefs, LocalType, Known
    <2>6. CASE AddCas(t)
      <3>1. CASE at'[t] = "addAgain" /\ my' = [my EXCEPT ![t].seen = freeHead]
        BY <1>1, <2>6, <3>1 DEF AddCas, LocalType, Known, TypeInv, ShapeInv, Fields
      <3> QED BY <2>1, <2>2, <2>6, <3>1 DEF AddCas, Goto, ShapeInv, Threads
    <2> QED BY <2>3, <2>4, <2>5, <2>6 DEF AddToFreeList
  <1> QED BY <1>1, <1>2, <1>3, <1>4, StepType DEF TypeInv

\* Without the bound on the number of values.
LEMMA BeginEnqueueFacts ==
  ASSUME NEW p \in Producers, BeginEnqueue(p)
  PROVE  /\ at[p] = "idle" /\ UNCHANGED <<counters, index, contents, freeList, poolIndex>>
         /\ \/ tailIndex[p] % BlockSize # 0 /\ Goto(p, "write") /\ UNCHANGED my
            \/ LET pos == (indexTail[p] + 1) % IndexSize IN
                 /\ tailIndex[p] % BlockSize = 0
                 /\ key[p][pos] = Unused \/ value[p][pos] = None
                 /\ my' = [my EXCEPT ![p].pos = pos] /\ Goto(p, "key")
  BY Zenon DEF BeginEnqueue

LEMMA EnqueueType ==
  ASSUME ShapeInv, TypeInv, NEW p \in Producers, TryEnqueue(p) PROVE TypeInv'
  <1> USE DEF counters, index, contents, freeList
  <1>1. p \in Threads /\ p \notin Consumers /\ OnlyMoves(p) /\ LocalType(p) /\ Known(p)
    BY CqAssumption, EnqueueMoves DEF Threads, TypeInv
  <1>2. UNCHANGED my => LocalType(p)'
    BY <1>1 DEF LocalType
  <1>3. Return(p) => LocalType(p)' /\ Known(p)' /\ at'[p] = "idle"
    <2> SUFFICES ASSUME Return(p) PROVE LocalType(p)' /\ Known(p)' /\ at'[p] = "idle"
      OBVIOUS
    <2>1. my'[p] = NoLocals /\ 0 \in Entries /\ at'[p] = "idle"
      BY <1>1, CqAssumption DEF Return, Goto, ShapeInv, Entries
    <2> QED BY <2>1 DEF NoLocals, LocalType, Known, Link, Joining
  <1>4. CASE BeginEnqueue(p) \/ StoreKey(p) \/ StoreIndexTail(p) \/ TakeFromPool(p)
    <2>1. /\ indexTail' \in [Producers -> Entries] /\ key' \in [Producers -> [Entries -> Int]]
          /\ poolIndex' \in Nat
          /\ UNCHANGED <<current, value, slots, emptied, refs, freeNext, freeHead>>
      <3>1. CASE BeginEnqueue(p) \/ TakeFromPool(p)
        BY <3>1, BeginEnqueueFacts DEF TakeFromPool, TypeInv
      <3>2. CASE StoreKey(p)
        <4>1. tailIndex[p] \in Int
          BY DEF ShapeInv
        <4> QED BY <3>2, <4>1 DEF StoreKey, TypeInv
      <3>3. CASE StoreIndexTail(p)
        BY <1>1, <3>3 DEF StoreIndexTail, TypeInv, LocalType
      <3> QED BY <1>4, <3>1, <3>2, <3>3
    <2>2. LocalType(p)' /\ Known(p)' /\ at'[p] \in ProducerLabels
      <3> USE DEF ProducerLabels, Seeking, Joining
      <3>1. CASE BeginEnqueue(p)
        <4>1. (indexTail[p] + 1) % IndexSize \in Entries
          BY CqAssumption DEF TypeInv, Entries
        <4> QED BY <1>1, <1>2, <3>1, <4>1, BeginEnqueueFacts
                DEF Goto, LocalType, Known, ShapeInv, Fields
      <3>2. CASE TakeFromPool(p)
        <4>1. poolIndex < PoolSize => poolIndex + 1 \in Block
          BY CqAssumption DEF TypeInv, Block
        <4> QED BY <1>1, <1>2, <3>2, <4>1
                DEF TakeFromPool, Goto, LocalType, Known, ShapeInv, Fields, Link
      <3>3. CASE StoreKey(p) \/ StoreIndexTail(p)
        BY <1>1, <1>2, <3>3 DEF StoreKey, StoreIndexTail, Goto, Known, ShapeInv
      <3> QED BY <1>4, <3>1, <3>2, <3>3
    <2> QED BY <1>1, <2>1, <2>2, StepType DEF TypeInv
  <1>5. CASE Rewind(p) \/ Rewound(p) \/ ResetBlock(p) \/ StoreValue(p) \/ Write(p) \/ Publish(p)
    <2>1. indexTail' \in [Producers -> Entries]
      <3>1. (indexTail[p] + IndexSize - 1) % IndexSize \in Entries
        BY CqAssumption DEF TypeInv, Entries
      <3> QED BY <1>5, <3>1 DEF Rewind, Rewound, ResetBlock, StoreValue, Write, Publish, TypeInv
    <2>2. value' \in [Producers -> [Entries -> Link]]
      <3>1. None \in Link
        BY DEF Link
      <3>2. CASE Rewound(p)
        BY <1>1, <3>1, <3>2 DEF Rewound, TypeInv, LocalType
      <3>3. CASE StoreValue(p)
        BY <1>1, <3>3 DEF StoreValue, TypeInv, LocalType
      <3> QED BY <1>5, <3>2, <3>3 DEF Rewind, ResetBlock, Write, Publish, TypeInv
    <2>3. current' \in [Producers -> Link] /\ emptied' \in [Block -> Nat]
      <3>1. CASE ResetBlock(p)
        BY <3>1 DEF ResetBlock, TypeInv
      <3>2. CASE StoreValue(p)
        BY <1>1, <3>2 DEF StoreValue, TypeInv, LocalType
      <3> QED BY <1>5, <3>1, <3>2 DEF Rewind, Rewound, Write, Publish, TypeInv
    <2>4. DOMAIN slots' = Block /\ \A b \in Block : DOMAIN slots'[b] = 0 .. BlockSize - 1
      BY <1>5 DEF Rewind, Rewound, ResetBlock, StoreValue, Write, Publish, TypeInv
    <2>5. UNCHANGED <<key, refs, freeNext, freeHead, poolIndex>>
      BY <1>5 DEF Rewind, Rewound, ResetBlock, StoreValue, Write, Publish
    <2>6. LocalType(p)' /\ Known(p)' /\ at'[p] \in ProducerLabels
      <3> USE DEF ProducerLabels, Seeking, Joining
      <3>1. CASE Rewound(p) \/ Publish(p)
        BY <1>3, <3>1 DEF Rewound, Publish
      <3>2. CASE Rewind(p) \/ ResetBlock(p) \/ StoreValue(p) \/ Write(p)
        BY <1>1, <1>2, <3>2 DEF Rewind, ResetBlock, StoreValue, Write, Goto, Known, ShapeInv
      <3> QED BY <1>5, <3>1, <3>2
    <2> QED BY <1>1, <2>1, <2>2, <2>3, <2>4, <2>5, <2>6, StepType DEF TypeInv
  <1>6. CASE TryGet(p)
    <2>1. UNCHANGED <<current, indexTail, key, value, slots, emptied, freeNext, poolIndex>>
      BY <1>6 DEF TryGet, GetLoad, GetTest, GetNext, GetCas, GetUnref, GetDrop
    <2>2. refs' \in [Block -> Int] /\ freeHead' \in Link
      <3>1. CASE GetLoad(p) \/ GetTest(p) \/ GetNext(p)
        BY <3>1 DEF GetLoad, GetTest, GetNext, TypeInv
      <3>2. CASE GetCas(p) \/ GetUnref(p) \/ GetDrop(p)
        BY <1>1, <3>2 DEF GetCas, GetUnref, GetDrop, TypeInv, LocalType
      <3> QED BY <1>6, <3>1, <3>2 DEF TryGet
    <2>3. LocalType(p)' /\ Known(p)' /\ at'[p] \in ProducerLabels
      <3> USE DEF ProducerLabels, Seeking, Joining
      <3>1. CASE GetLoad(p)
        BY <1>1, <3>1 DEF GetLoad, Goto, LocalType, Known, TypeInv, ShapeInv, Fields
      <3>2. CASE GetTest(p)
        BY <1>1, <1>2, <3>2 DEF GetTest, Goto, LocalType, Known, ShapeInv, Link
      <3>3. CASE GetNext(p)
        BY <1>1, <3>3 DEF GetNext, Goto, LocalType, Known, TypeInv, ShapeInv, Fields
      <3>4. CASE GetCas(p)
        BY <1>1, <1>2, <3>4 DEF GetCas, Goto, LocalType, Known, TypeInv, ShapeInv, Fields
      <3>5. CASE GetUnref(p)
        BY <1>1, <3>5 DEF GetUnref, Goto, LocalType, Known, TypeInv, ShapeInv, Fields
      <3>6. CASE GetDrop(p)
        BY <1>1, <1>2, <3>6 DEF GetDrop, Goto, LocalType, Known, ShapeInv
      <3> QED BY <1>6, <3>1, <3>2, <3>3, <3>4, <3>5, <3>6 DEF TryGet
    <2> QED BY <1>1, <2>1, <2>2, <2>3, StepType DEF TypeInv
  <1> QED BY <1>4, <1>5, <1>6 DEF TryEnqueue

LEMMA DequeueType ==
  ASSUME IInv, TypeInv, NEW c \in Consumers, NEW p \in Producers, TryDequeue(c, p),
         at[c] = "forget" => my[c].block \in Block
  PROVE  TypeInv'
  <1> USE DEF counters, index, contents, freeList
  <1>1. /\ c \in Threads /\ c \notin Producers /\ OnlyMoves(c) /\ LocalType(c) /\ Known(c)
        /\ ShapeInv
    BY CqAssumption, DequeueMoves DEF Threads, TypeInv, IInv
  <1>2. UNCHANGED my => LocalType(c)'
    BY <1>1 DEF LocalType
  <1>3. Return(c) => LocalType(c)' /\ Known(c)' /\ at'[c] = "idle"
    <2> SUFFICES ASSUME Return(c) PROVE LocalType(c)' /\ Known(c)' /\ at'[c] = "idle"
      OBVIOUS
    <2>1. my'[c] = NoLocals /\ 0 \in Entries /\ at'[c] = "idle"
      BY <1>1, CqAssumption DEF Return, Goto, ShapeInv, Entries
    <2> QED BY <2>1 DEF NoLocals, LocalType, Known, Link, Joining
  <1>4. /\ UNCHANGED <<current, indexTail, key, refs, freeNext, freeHead, poolIndex>>
        /\ value' \in [Producers -> [Entries -> Link]]
        /\ DOMAIN slots' = Block /\ \A b \in Block : DOMAIN slots'[b] = 0 .. BlockSize - 1
        /\ emptied' \in [Block -> Nat]
    <2>1. CASE Forget(c, p)
      BY <2>1 DEF Forget, TypeInv, Link
    <2>2. CASE SetEmpty(c, p)
      <3>1. DOMAIN slots' = Block /\ \A b \in Block : DOMAIN slots'[b] = 0 .. BlockSize - 1
        BY <2>2 DEF SetEmpty, TypeInv
      <3>2. emptied' \in [Block -> Nat]
        <4>1. PICK b : emptied' = [emptied EXCEPT ![b] = @ + 1]
          BY <2>2 DEF SetEmpty
        <4>2. emptied \in [Block -> Nat]
          BY DEF TypeInv
        <4>3. CASE b \in Block
          <5>1. emptied[b] + 1 \in Nat
            BY <4>2, <4>3
          <5> QED BY <4>1, <4>2, <5>1
        <4>4. CASE b \notin Block
          BY <4>1, <4>2, <4>4
        <4> QED BY <4>3, <4>4
      <3> QED BY <2>2, <3>1, <3>2 DEF SetEmpty, TypeInv
    <2>3. CASE ~Forget(c, p) /\ ~SetEmpty(c, p)
      BY <2>3 DEF TypeInv, TryDequeue, LoadTail, LoadOvercommit, Look, Commit, Check, Undo, Claim,
                  Find, Entry, Take
    <2> QED BY <2>1, <2>2, <2>3
  <1>5. LocalType(c)' /\ Known(c)' /\ at'[c] \in ConsumerLabels
    <2> USE DEF ConsumerLabels, Looking, Claimed, Joining
    <2>1. CASE LoadTail(c, p)
      BY <1>1, <2>1 DEF LoadTail, Goto, LocalType, Known, ShapeInv, Fields
    <2>2. CASE LoadOvercommit(c, p)
      BY <1>1, <2>2 DEF LoadOvercommit, Goto, LocalType, Known, ShapeInv, Fields
    <2>3. CASE Look(c, p) \/ Check(c, p) \/ Undo(c, p)
      BY <1>1, <1>2, <1>3, <2>3 DEF Look, Check, Undo, Goto, Known, ShapeInv
    <2>4. CASE Commit(c, p)
      BY <1>1, <2>4 DEF Commit, Goto, LocalType, Known, ShapeInv, Fields
    <2>5. CASE Claim(c, p)
      BY <1>1, <2>5 DEF Claim, Goto, LocalType, Known, ShapeInv, Fields
    <2>6. CASE Find(c, p)
      BY <1>1, <2>6 DEF Find, Goto, LocalType, Known, TypeInv, ShapeInv, Fields
    <2>7. CASE Entry(c, p)
      <3>1. my'[c].pos \in Entries
        <4>1. \A x \in Int : x % IndexSize \in Entries
          BY CqAssumption DEF Entries
        <4>2. PICK k \in Int, n \in Int, e \in Int :
                k = key[p][my[c].pos] /\ n = Base(my[c].idx) /\ e = my[c].pos
          <5>1. key[p][my[c].pos] \in Int /\ my[c].pos \in Int
            <6>1. Entries \subseteq Int
              BY DEF Entries
            <6>2. my[c].pos \in Entries /\ key[p] \in [Entries -> Int]
              BY <1>1 DEF TypeInv, LocalType
            <6> QED BY <6>1, <6>2
          <5>2. Base(my[c].idx) \in Int
            BY <1>1, CqAssumption DEF LocalType, Base
          <5> QED BY <5>1, <5>2
        <4>3. (e - ((k - n) \div BlockSize)) \in Int
          BY CqAssumption
        <4> QED BY <1>1, <2>7, <4>1, <4>2, <4>3 DEF Entry, ShapeInv, Fields
      <3> QED BY <1>1, <2>7, <3>1 DEF Entry, Goto, LocalType, Known, ShapeInv, Fields
    <2>8. CASE Take(c, p)
      BY <1>1, <2>8 DEF Take, Goto, LocalType, Known, TypeInv, ShapeInv, Fields
    <2>9. CASE SetEmpty(c, p)
      BY <1>1, <1>2, <1>3, <2>9 DEF SetEmpty, Goto, Known, ShapeInv
    <2>10. CASE Forget(c, p)
      <3>1. my'[c] = [NoLocals EXCEPT !.node = my[c].block] /\ 0 \in Entries /\ at'[c] = "add"
            /\ my[c].block \in Block
        BY <1>1, <2>10, CqAssumption DEF Forget, Goto, ShapeInv, Entries
      <3> QED BY <3>1 DEF NoLocals, LocalType, Known, Link
    <2> QED BY <2>1, <2>2, <2>3, <2>4, <2>5, <2>6, <2>7, <2>8, <2>9, <2>10 DEF TryDequeue
  <1> QED BY <1>1, <1>4, <1>5, StepType DEF TypeInv

-----------------------------------------------------------------------------
(* Where a block is: its kind of place, and the thread or the producer and *)
(* the entry there; and what it counts besides those that refer to it.     *)

Kinds == {"pool", "list", "entry", "hand", "adding", "waits"}
Alone == {"addLoad", "addNext", "addRefs"}
InHand(p, b) ==
  \/ at[p] = "getUnref" /\ my[p].head = b
  \/ at[p] \in {"reset", "value"} /\ my[p].block = b

Owed(k, label) ==
  IF k = "waits" \/ (k = "adding" /\ label \in Alone) THEN ShouldBeOnFreeList
  ELSE IF \/ k = "list" \/ (k = "hand" /\ label = "getUnref")
          \/ (k = "adding" /\ label \in {"addCas", "addAgain"})
    THEN 1 ELSE 0

Placed(b, k, w, i) ==
  /\ k \in Kinds
  /\ k = "entry" => w \in Producers /\ i \in Entries
  /\ k = "hand" => w \in Producers
  /\ k = "adding" => w \in Threads
  /\ b > poolIndex <=> k = "pool"
  /\ b \in Chain <=> k = "list"
  /\ \A p \in Producers, j \in Entries : value[p][j] = b <=> k = "entry" /\ w = p /\ i = j
  /\ \A p \in Producers : InHand(p, b) <=> k = "hand" /\ w = p
  /\ \A t \in Threads : t \in Adding(b) <=> k = "adding" /\ w = t

Counted(b, k, w) ==
  /\ refs[b] = Cardinality(Referring(b)) + Owed(k, at[w])
  /\ k = "adding" /\ at[w] \in Alone => Referring(b) = {}
  /\ k = "waits" => Referring(b) # {}

PlaceInv == \A b \in Block : \E k, w, i : Placed(b, k, w, i) /\ Counted(b, k, w)

\* What a thread read of the list is still so where it relies on it.
LinkOf(t) ==
  /\ at[t] = "getCas" => my[t].next = freeNext[my[t].head]
  /\ at[t] \in {"addRefs", "addCas"} => freeNext[my[t].node] = my[t].seen

RankInv == \E rank \in [Block -> Nat] : Falls(rank, freeHead, freeNext)
ListInv == PlaceInv /\ (\A t \in Threads : LinkOf(t)) /\ RankInv

-----------------------------------------------------------------------------
LEMMA RefersFacts ==
  ASSUME NEW b
  PROVE  /\ Cardinality(Referring(b)) \in Nat
         /\ Cardinality(Referring(b)) < ShouldBeOnFreeList - 1
         /\ Cardinality(Referring(b)) = 0 <=> Referring(b) = {}
  <1>1. Referring(b) \subseteq Producers
    BY DEF Referring
  <1>2. /\ IsFiniteSet(Referring(b)) /\ IsFiniteSet(Producers)
        /\ Cardinality(Referring(b)) <= Cardinality(Producers)
    BY <1>1, CqAssumption, FS_Subset
  <1>3. /\ Cardinality(Referring(b)) \in Nat /\ Cardinality(Producers) \in Nat
        /\ Cardinality(Referring(b)) = 0 <=> Referring(b) = {}
    BY <1>2, FS_CardinalityType, FS_EmptySet
  <1> QED BY <1>2, <1>3, CqAssumption DEF ShouldBeOnFreeList

\* How the set of those that refer to a block changes with a step of a thread.
LEMMA RefersSame ==
  ASSUME NEW t \in Threads, OnlyMoves(t), NEW b, t \in Referring(b)' <=> t \in Referring(b)
  PROVE  Referring(b)' = Referring(b)
  BY DEF OnlyMoves, Referring, Threads

LEMMA RefersJoin ==
  ASSUME NEW t \in Threads, OnlyMoves(t), NEW b, t \in Referring(b)', t \notin Referring(b)
  PROVE  Cardinality(Referring(b)') = Cardinality(Referring(b)) + 1 /\ Referring(b)' # {}
  <1>1. Referring(b)' = Referring(b) \cup {t}
    BY DEF OnlyMoves, Referring, Threads
  <1>2. IsFiniteSet(Referring(b))
    BY CqAssumption, FS_Subset DEF Referring
  <1> QED BY <1>1, <1>2, FS_AddElement

LEMMA RefersLeave ==
  ASSUME NEW t \in Threads, OnlyMoves(t), NEW b, t \notin Referring(b)', t \in Referring(b)
  PROVE  Cardinality(Referring(b)') = Cardinality(Referring(b)) - 1
  <1>1. Referring(b)' = Referring(b) \ {t}
    BY DEF OnlyMoves, Referring, Threads
  <1>2. IsFiniteSet(Referring(b))
    BY CqAssumption, FS_Subset DEF Referring
  <1> QED BY <1>1, <1>2, FS_RemoveElement

\* A block that a step does not concern.
Unheld(t, b) == t \notin Adding(b) /\ t \notin Referring(b) /\ ~InHand(t, b)
Aside(t, b) ==
  /\ Unheld(t, b) /\ Unheld(t, b)' /\ refs'[b] = refs[b]
  /\ b > poolIndex' <=> b > poolIndex
  /\ b \in Chain' <=> b \in Chain
  /\ \A p \in Producers, j \in Entries : value'[p][j] = b <=> value[p][j] = b

\* A block that stays where it is.
Stays(t, b) ==
  /\ t \notin Adding(b) /\ t \notin Adding(b)' /\ ~InHand(t, b) /\ ~InHand(t, b)'
  /\ b > poolIndex' <=> b > poolIndex
  /\ b \in Chain' <=> b \in Chain
  /\ \A p \in Producers, j \in Entries : value'[p][j] = b <=> value[p][j] = b

LEMMA StaysPlaced ==
  ASSUME NEW t \in Threads, OnlyMoves(t), NEW b \in Block, Stays(t, b), NEW k, NEW w, NEW i,
         Placed(b, k, w, i)
  PROVE  Placed(b, k, w, i)' /\ Owed(k, at'[w]) = Owed(k, at[w]) /\ (k = "adding" => at'[w] = at[w])
  <1>1. \A u \in Threads : /\ u \in Adding(b)' <=> u \in Adding(b)
                           /\ InHand(u, b)' <=> InHand(u, b)
    BY DEF Stays, OnlyMoves, Adding, InHand
  <1>2. Placed(b, k, w, i)'
    BY <1>1 DEF Placed, Stays, Threads
  <1>3. k \in {"hand", "adding"} => at'[w] = at[w]
    BY DEF Placed, Stays, OnlyMoves, Threads
  <1>4. Owed(k, at'[w]) = Owed(k, at[w])
    BY <1>3 DEF Owed
  <1> QED BY <1>2, <1>3, <1>4

LEMMA AsideKept ==
  ASSUME NEW t \in Threads, OnlyMoves(t), NEW b \in Block, Aside(t, b), NEW k, NEW w, NEW i,
         Placed(b, k, w, i), Counted(b, k, w)
  PROVE  Placed(b, k, w, i)' /\ Counted(b, k, w)'
  <1>1. Referring(b)' = Referring(b)
    BY RefersSame DEF Aside, Unheld
  <1>2. Stays(t, b)
    BY DEF Stays, Aside, Unheld
  <1>3. Placed(b, k, w, i)' /\ Owed(k, at'[w]) = Owed(k, at[w]) /\ (k = "adding" => at'[w] = at[w])
    BY <1>2, StaysPlaced
  <1>4. Counted(b, k, w)'
    BY <1>1, <1>3 DEF Counted, Aside
  <1> QED BY <1>3, <1>4

\* One block is concerned, at most.
LEMMA PlaceStep ==
  ASSUME PlaceInv, NEW t \in Threads, OnlyMoves(t), NEW a,
         \A b \in Block \ {a} : Aside(t, b),
         a \in Block => \E k, w, i : Placed(a, k, w, i)' /\ Counted(a, k, w)'
  PROVE  PlaceInv'
  <1>1. ASSUME NEW b \in Block \ {a} PROVE \E k, w, i : Placed(b, k, w, i)' /\ Counted(b, k, w)'
    <2>1. PICK k, w, i : Placed(b, k, w, i) /\ Counted(b, k, w)
      BY DEF PlaceInv
    <2>2. Placed(b, k, w, i)' /\ Counted(b, k, w)'
      BY <2>1, AsideKept
    <2> QED BY <2>2
  <1> QED BY <1>1 DEF PlaceInv

LEMMA LinksKept ==
  ASSUME ListInv, NEW t \in Threads, OnlyMoves(t), UNCHANGED <<freeNext, freeHead>>, LinkOf(t)',
         PlaceInv'
  PROVE  ListInv'
  <1>1. \A u \in Threads : LinkOf(u)'
    BY DEF ListInv, LinkOf, OnlyMoves
  <1>2. RankInv'
    BY DEF ListInv, RankInv
  <1> QED BY <1>1, <1>2 DEF ListInv

\* The labels at which a thread holds a block, in hand or by a reference.
Carrying == Joining \cup {"add", "getNext", "getCas", "getUnref", "getDrop", "reset", "value"}

LEMMA QuietKeepsLists ==
  ASSUME ListInv, NEW t \in Threads, OnlyMoves(t), at[t] \notin Carrying, at'[t] \notin Carrying,
         UNCHANGED <<refs, freeNext, freeHead, value>>,
         \A b \in Block : b > poolIndex' <=> b > poolIndex
  PROVE  ListInv'
  <1>1. Chain' = Chain
    BY ChainIsList DEF Chain, Holding
  <1>2. ASSUME NEW b \in Block PROVE Aside(t, b)
    BY <1>1 DEF Aside, Unheld, Adding, Referring, InHand, Carrying, Joining
  <1>3. PlaceInv'
    <2>1. PICK a : a \notin Block
      BY DEF Block
    <2> QED BY <1>2, <2>1, PlaceStep DEF ListInv
  <1>4. LinkOf(t)'
    BY DEF LinkOf, Carrying, Joining
  <1> QED BY <1>3, <1>4, LinksKept

\* The thread that adds a block, and where the block is.
LEMMA AdderFacts ==
  ASSUME ListInv, TypeInv, NEW t \in Threads, at[t] \in Joining \cup {"add"}
  PROVE  LET b == my[t].node IN
         /\ b \in Block /\ refs[b] \in Int
         /\ \E i : Placed(b, "adding", t, i) /\ Counted(b, "adding", t)
         /\ \A a \in Block \ {b} : Unheld(t, a)
         /\ ~InHand(t, b) /\ t \notin Referring(b) /\ t \in Adding(b)
         /\ b \notin Chain
  <1> DEFINE b == my[t].node
  <1>1. b \in Block /\ refs[b] \in Int
    BY DEF TypeInv, Known
  <1>2. PICK k, w, i : Placed(b, k, w, i) /\ Counted(b, k, w)
    BY <1>1 DEF ListInv, PlaceInv
  <1>3. t \in Adding(b)
    BY DEF Adding, Joining
  <1>4. k = "adding" /\ w = t
    BY <1>2, <1>3 DEF Placed
  <1>5. \A a : ~InHand(t, a) /\ t \notin Referring(a)
    BY DEF InHand, Referring, Joining
  <1>6. b \notin Chain
    BY <1>1, <1>2, <1>4 DEF Placed
  <1>7. \A a \in Block \ {b} : Unheld(t, a)
    BY <1>5 DEF Unheld, Adding
  <1> QED BY <1>1, <1>2, <1>3, <1>4, <1>5, <1>6, <1>7

\* What is left to show of its steps: the block's next place and its references.
LEMMA AdderStep ==
  ASSUME ListInv, TypeInv, NEW t \in Threads, at[t] \in Joining \cup {"add"}, OnlyMoves(t),
         UNCHANGED <<value, poolIndex>>,
         NEW b, b = my[t].node, NEW k \in {"adding", "waits", "list"},
         k = "adding" => at'[t] \in Joining \cup {"add"} /\ my'[t].node = b,
         k # "adding" => at'[t] \notin Carrying,
         \A a \in Block \ {b} : refs'[a] = refs[a] /\ (a \in Chain' <=> a \in Chain),
         b \in Chain' <=> k = "list",
         refs'[b] = Cardinality(Referring(b)) + Owed(k, at'[t]),
         k = "adding" /\ at'[t] \in Alone => Referring(b) = {},
         k = "waits" => Referring(b) # {}
  PROVE  PlaceInv'
  <1>1. PICK i : Placed(b, "adding", t, i) /\ Counted(b, "adding", t)
    BY AdderFacts
  <1>2. \A a : ~InHand(t, a)' /\ t \notin Referring(a)'
    BY DEF InHand, Referring, Carrying, Joining
  <1>3. t \notin Referring(b) /\ ~InHand(t, b)
    BY AdderFacts
  <1>4. \A a \in Block \ {b} : Unheld(t, a)
    BY AdderFacts
  <1>5. \A a \in Block \ {b} : t \notin Adding(a)'
    BY DEF Adding, Carrying, Joining
  <1>6. \A a \in Block \ {b} : Unheld(t, a)'
    BY <1>2, <1>5 DEF Unheld
  <1>7. \A a \in Block \ {b} : Aside(t, a)
    BY <1>4, <1>6 DEF Aside
  <1>8. Referring(b)' = Referring(b)
    BY <1>2, <1>3, RefersSame
  <1>9. Counted(b, k, t)'
    BY <1>8 DEF Counted
  <1>10. Placed(b, k, t, i)'
    <2>1. \A u \in Threads \ {t} : u \notin Adding(b)'
      BY <1>1 DEF Placed, OnlyMoves, Adding
    <2>2. t \in Adding(b)' <=> k = "adding"
      BY DEF Adding, Carrying, Joining
    <2>3. \A p \in Producers : ~InHand(p, b)'
      BY <1>1, <1>2 DEF Placed, OnlyMoves, InHand, Threads
    <2>4. ~(b > poolIndex') /\ \A p \in Producers, j \in Entries : value'[p][j] # b
      BY <1>1 DEF Placed
    <2> QED BY <2>1, <2>2, <2>3, <2>4 DEF Placed, Kinds
  <1> QED BY <1>7, <1>9, <1>10, PlaceStep DEF ListInv

LEMMA AddedFacts ==
  ASSUME ShapeInv, NEW t \in Threads, Added(t)
  PROVE  at'[t] \notin Carrying /\ LinkOf(t)'
  BY GotoFact, ReturnFact DEF Added, Carrying, Joining, LinkOf

LEMMA AddKeepsLists ==
  ASSUME ShapeInv, TypeInv, ListInv, NEW t \in Threads, Add(t) \/ AddAgain(t) PROVE ListInv'
  <1> DEFINE b == my[t].node  n == Cardinality(Referring(b))
  <1>1. OnlyMoves(t)
    BY AddMoves DEF AddToFreeList
  <1>2. /\ at[t] \in Joining \cup {"add"} /\ b \in Block /\ refs[b] \in Int
        /\ UNCHANGED <<freeNext, freeHead, value, poolIndex>> /\ Chain' = Chain
    <2>1. at[t] \in Joining \cup {"add"} /\ UNCHANGED <<freeNext, freeHead, value, poolIndex>>
      BY DEF Add, AddAgain, index, Joining
    <2>2. Chain' = Chain
      BY <2>1 DEF Chain, Holding
    <2> QED BY <2>1, <2>2, AdderFacts
  <1>3. Counted(b, "adding", t) /\ b \notin Chain
    BY <1>2, AdderFacts
  <1>4. n \in Nat /\ (n = 0 <=> Referring(b) = {})
    BY RefersFacts
  <1>5. /\ refs[b] = n + (IF at[t] = "add" THEN 0 ELSE 1)
        /\ refs' = [refs EXCEPT ![b] = n + ShouldBeOnFreeList]
        /\ IF n = 0 THEN Goto(t, IF at[t] = "add" THEN "addLoad" ELSE "addNext") /\ UNCHANGED my
           ELSE Added(t)
    <2>1. CASE Add(t)
      <3>1. refs[b] = n
        BY <1>3, <1>4, <2>1 DEF Counted, Owed, Add, Alone
      <3>2. refs[b] + ShouldBeOnFreeList = n + ShouldBeOnFreeList
        BY <3>1
      <3>3. at[t] = "add" /\ n + 0 = n
        BY <1>4, <2>1 DEF Add
      <3> QED BY <2>1, <3>1, <3>2, <3>3, <1>4 DEF Add
    <2>2. CASE AddAgain(t)
      <3>1. refs[b] = n + 1
        BY <1>3, <1>4, <2>2 DEF Counted, Owed, AddAgain, Alone
      <3>2. refs[b] + ShouldBeOnFreeList - 1 = n + ShouldBeOnFreeList
        BY <1>4, <3>1 DEF ShouldBeOnFreeList
      <3>3. refs[b] = 1 <=> n = 0
        BY <1>4, <3>1
      <3> QED BY <2>2, <3>1, <3>2, <3>3 DEF AddAgain
    <2> QED BY <2>1, <2>2
  <1>6. \A a \in Block : refs'[a] = IF a = b THEN n + ShouldBeOnFreeList ELSE refs[a]
    BY <1>5 DEF TypeInv
  <1> HIDE DEF b, n
  <1>7. CASE n = 0
    <2>1. at'[t] \in {"addLoad", "addNext"} /\ my'[t] = my[t]
      BY <1>5, <1>7, GotoFact
    <2>2. Owed("adding", at'[t]) = ShouldBeOnFreeList
      BY <2>1 DEF Owed, Alone
    <2>3. PlaceInv'
      BY <1>1, <1>2, <1>3, <1>4, <1>6, <1>7, <2>1, <2>2, AdderStep DEF Joining, b, n
    <2>4. LinkOf(t)'
      BY <2>1 DEF LinkOf
    <2> QED BY <1>1, <1>2, <2>3, <2>4, LinksKept
  <1>8. CASE n # 0
    <2>1. at'[t] \notin Carrying /\ LinkOf(t)'
      BY <1>5, <1>8, AddedFacts
    <2>2. Owed("waits", at'[t]) = ShouldBeOnFreeList
      BY DEF Owed
    <2>3. PlaceInv'
      BY <1>1, <1>2, <1>3, <1>4, <1>6, <1>8, <2>1, <2>2, AdderStep DEF b, n
    <2> QED BY <1>1, <1>2, <2>1, <2>3, LinksKept
  <1> QED BY <1>7, <1>8

LEMMA AddReadsKeepLists ==
  ASSUME ShapeInv, TypeInv, ListInv, NEW t \in Threads, AddLoad(t) \/ AddRefs(t) PROVE ListInv'
  <1> DEFINE b == my[t].node  n == Cardinality(Referring(b))
  <1>1. OnlyMoves(t)
    BY AddMoves DEF AddToFreeList
  <1>2. /\ at[t] \in Alone /\ at[t] \in Joining \cup {"add"} /\ my'[t].node = b
        /\ at'[t] = IF AddLoad(t) THEN "addNext" ELSE "addCas"
        /\ UNCHANGED <<freeNext, freeHead, value, poolIndex>>
    BY <1>1 DEF AddLoad, AddRefs, Goto, index, freeList, Joining, Alone, ShapeInv, Fields
  <1>3. /\ Counted(b, "adding", t) /\ b \notin Chain /\ b \in Block /\ refs[b] \in Int
        /\ Chain' = Chain
    BY <1>2, AdderFacts DEF Chain, Holding
  <1>4. n = 0 /\ Referring(b) = {} /\ refs[b] = ShouldBeOnFreeList
    BY <1>2, <1>3, RefersFacts DEF Counted, Owed, ShouldBeOnFreeList
  <1>5. \A a \in Block : refs'[a] = IF a = b /\ ~AddLoad(t) THEN 1 ELSE refs[a]
    <2>1. CASE AddLoad(t)
      BY <2>1 DEF AddLoad, freeList
    <2>2. CASE ~AddLoad(t)
      BY <2>2 DEF AddRefs, TypeInv
    <2> QED BY <2>1, <2>2
  <1>6. refs'[b] = n + Owed("adding", at'[t])
    BY <1>2, <1>3, <1>4, <1>5 DEF Owed, Alone, ShouldBeOnFreeList
  <1> HIDE DEF b, n
  <1>7. PlaceInv'
    <2>1. at'[t] \in Joining \cup {"add"}
      BY <1>2 DEF Joining
    <2> QED BY <1>1, <1>2, <1>3, <1>4, <1>5, <1>6, <2>1, AdderStep DEF b, n
  <1>8. LinkOf(t)'
    <2>1. CASE AddLoad(t)
      BY <1>2, <2>1 DEF LinkOf
    <2>2. CASE ~AddLoad(t)
      <3>1. LinkOf(t) /\ at[t] = "addRefs" /\ my'[t] = my[t]
        BY <2>2 DEF AddRefs, ListInv
      <3> QED BY <1>2, <2>2, <3>1 DEF LinkOf
    <2> QED BY <2>1, <2>2
  <1> QED BY <1>1, <1>2, <1>7, <1>8, LinksKept

\* No one that refers to the block relies on what comes after it: there is none.
LEMMA AddNextKeepsLists ==
  ASSUME ShapeInv, TypeInv, ListInv, NEW t \in Threads, AddNext(t) PROVE ListInv'
  <1> DEFINE b == my[t].node  n == Cardinality(Referring(b))
  <1>1. OnlyMoves(t)
    BY AddMoves DEF AddToFreeList
  <1>2. /\ at[t] = "addNext" /\ my' = my /\ at'[t] = "addRefs"
        /\ freeNext' = [freeNext EXCEPT ![b] = my[t].seen]
        /\ UNCHANGED <<refs, freeHead, value, poolIndex>>
    BY <1>1 DEF AddNext, Goto, index, ShapeInv
  <1>3. /\ Counted(b, "adding", t) /\ b \notin Chain /\ b \in Block /\ refs[b] \in Int
        /\ \E i : Placed(b, "adding", t, i)
    BY <1>2, AdderFacts DEF Joining
  <1>4. Chain' = Chain /\ RankInv'
    <2>1. freeHead \in Block \cup {None} /\ freeNext \in Links /\ freeNext' \in Links
      BY <1>2 DEF TypeInv, Links, Link, LocalType
    <2>2. \A a \in Chain : freeNext'[a] = freeNext[a] /\ a \in Block
      BY <1>2, <1>3, <2>1 DEF Links, Chain
    <2>3. ListOf(freeHead, freeNext') = ListOf(freeHead, freeNext)
      BY <2>1, <2>2, ListKept, ChainIsList
    <2>4. Chain' = ListOf(freeHead, freeNext')
      BY <1>2 DEF Chain, Holding, ListOf, Holds
    <2>5. PICK rank \in [Block -> Nat] : Falls(rank, freeHead, freeNext)
      BY DEF ListInv, RankInv
    <2>6. Falls(rank, freeHead', freeNext')
      BY <1>2, <2>2, <2>3, <2>5, ChainIsList DEF Falls
    <2> QED BY <2>3, <2>4, <2>5, <2>6, ChainIsList DEF RankInv
  <1>5. Referring(b) = {} /\ n \in Nat
    BY <1>2, <1>3, RefersFacts DEF Counted, Alone
  <1>6. PlaceInv'
    <2>1. at'[t] \in Joining \cup {"add"} /\ at[t] \in Joining \cup {"add"}
      BY <1>2 DEF Joining
    <2>2. refs'[b] = n + Owed("adding", at'[t])
      BY <1>2, <1>3 DEF Counted, Owed, Alone
    <2> HIDE DEF b, n
    <2> QED BY <1>1, <1>2, <1>3, <1>4, <1>5, <2>1, <2>2, AdderStep DEF b, n
  <1>7. ASSUME NEW u \in Threads PROVE LinkOf(u)'
    <2>1. LinkOf(u)
      BY DEF ListInv
    <2>2. CASE u = t
      BY <1>2, <1>3, <2>2 DEF LinkOf, TypeInv
    <2>3. CASE u # t
      <3>1. at'[u] = at[u] /\ my'[u] = my[u]
        BY <1>1, <2>3 DEF OnlyMoves
      <3>2. at[u] = "getCas" => my[u].head # b
        BY <1>5 DEF Referring, TypeInv, Threads, ConsumerLabels, Looking, Claimed, Joining
      <3>3. at[u] \in {"addRefs", "addCas"} => my[u].node # b
        <4>1. u \notin Adding(b)
          BY <1>3, <2>3 DEF Placed
        <4> QED BY <4>1 DEF Adding
      <3>4. \A a \in Block \ {b} : freeNext'[a] = freeNext[a]
        BY <1>2 DEF TypeInv
      <3>5. Known(u)
        BY DEF TypeInv
      <3> QED BY <2>1, <3>1, <3>2, <3>3, <3>4, <3>5 DEF LinkOf, Known, Joining
    <2> QED BY <2>2, <2>3
  <1> QED BY <1>4, <1>6, <1>7 DEF ListInv

LEMMA AddCasKeepsLists ==
  ASSUME ShapeInv, TypeInv, ListInv, NEW t \in Threads, AddCas(t) PROVE ListInv'
  <1> DEFINE b == my[t].node  n == Cardinality(Referring(b))
  <1>1. OnlyMoves(t)
    BY AddMoves DEF AddToFreeList
  <1>2. /\ at[t] = "addCas" /\ at[t] \in Joining \cup {"add"}
        /\ UNCHANGED <<refs, freeNext, value, poolIndex>>
    BY DEF AddCas, index, Joining
  <1>3. /\ Counted(b, "adding", t) /\ b \notin Chain /\ b \in Block /\ refs[b] \in Int
    BY <1>2, AdderFacts
  <1>4. refs[b] = n + 1 /\ n \in Nat
    BY <1>2, <1>3, RefersFacts DEF Counted, Owed, Alone
  <1>5. CASE freeHead = my[t].seen
    <2>1. freeHead' = b /\ at'[t] \notin Carrying /\ LinkOf(t)'
      BY <1>5, AddedFacts DEF AddCas
    <2>2. LinkOf(t)
      BY DEF ListInv
    <2>3. freeNext[b] = freeHead
      BY <1>2, <1>5, <2>2 DEF LinkOf
    <2>4. freeHead \in Block \cup {None} /\ freeNext \in Links
      BY DEF TypeInv, Links, Link
    <2>5. ListOf(b, freeNext) = ListOf(freeHead, freeNext) \cup {b}
      BY <1>3, <2>3, <2>4, ListPushed
    <2>6. Chain' = ListOf(freeHead', freeNext')
      BY DEF Chain, Holding, ListOf, Holds
    <2>7. Chain' = Chain \cup {b}
      BY <1>2, <2>1, <2>5, <2>6, ChainIsList
    <2>8. PlaceInv'
      <3>1. refs'[b] = n + Owed("list", at'[t])
        BY <1>2, <1>4 DEF Owed
      <3>2. "list" \in {"adding", "waits", "list"} /\ \A a \in Block \ {b} : refs'[a] = refs[a]
        BY <1>2
      <3> HIDE DEF b, n
      <3> QED BY <1>1, <1>2, <1>3, <2>1, <2>7, <3>1, <3>2, AdderStep DEF b, n
    <2>9. \A u \in Threads : LinkOf(u)'
      BY <1>1, <1>2, <2>1 DEF ListInv, LinkOf, OnlyMoves
    <2>10. RankInv'
      <3>1. PICK rank \in [Block -> Nat] : Falls(rank, freeHead, freeNext)
        BY DEF ListInv, RankInv
      <3> DEFINE top == IF freeHead = None THEN 0 ELSE rank[freeHead] + 1
      <3>2. top \in Nat
        BY <2>4
      <3>3. [rank EXCEPT ![b] = top] \in [Block -> Nat]
        BY <3>2
      <3>4. freeHead # None => freeHead # b
        <4>1. freeHead # None => freeHead \in Chain
          BY <2>4, ListHolds, ChainIsList DEF Holds
        <4> QED BY <1>3, <4>1
      <3>5. Falls([rank EXCEPT ![b] = top], b, freeNext)
        <4>1. ASSUME NEW a \in ListOf(b, freeNext), freeNext[a] # None
              PROVE  [rank EXCEPT ![b] = top][freeNext[a]] < [rank EXCEPT ![b] = top][a]
          <5>1. CASE a = b
            <6>1. freeNext[a] = freeHead /\ freeHead # b /\ freeHead \in Block
              BY <2>3, <2>4, <3>4, <4>1, <5>1
            <6>2. top = rank[freeHead] + 1 /\ rank[freeHead] \in Nat
              BY <6>1, <5>1, <4>1
            <6> QED BY <1>3, <5>1, <6>1, <6>2
          <5>2. CASE a # b
            <6>1. a \in ListOf(freeHead, freeNext) /\ a \in Block
              BY <2>5, <4>1, <5>2 DEF ListOf
            <6>2. rank[freeNext[a]] < rank[a] /\ freeNext[a] \in ListOf(freeHead, freeNext)
              BY <2>4, <3>1, <4>1, <6>1, ListHolds DEF Falls, Holds
            <6>3. freeNext[a] # b /\ freeNext[a] \in Block
              BY <1>3, <6>2, ChainIsList DEF ListOf
            <6> QED BY <5>2, <6>1, <6>2, <6>3
          <5> QED BY <5>1, <5>2
        <4> QED BY <4>1 DEF Falls
      <3> QED BY <1>2, <2>1, <3>3, <3>5 DEF RankInv
    <2> QED BY <2>8, <2>9, <2>10 DEF ListInv
  <1>6. CASE freeHead # my[t].seen
    <2>1. at'[t] = "addAgain" /\ my'[t].node = b /\ freeHead' = freeHead
      BY <1>1, <1>6 DEF AddCas, Goto, ShapeInv, Fields
    <2>2. Chain' = Chain /\ at'[t] \in Joining \cup {"add"}
      BY <1>2, <2>1 DEF Chain, Holding, Joining
    <2>3. refs'[b] = n + Owed("adding", at'[t]) /\ \A a \in Block \ {b} : refs'[a] = refs[a]
      BY <1>2, <1>4, <2>1 DEF Owed, Alone
    <2>4. PlaceInv'
      <3> HIDE DEF b, n
      <3> QED BY <1>1, <1>2, <1>3, <2>1, <2>2, <2>3, AdderStep DEF b, n, Alone
    <2>5. LinkOf(t)'
      BY <2>1 DEF LinkOf
    <2> QED BY <1>1, <1>2, <2>1, <2>4, <2>5, LinksKept
  <1> QED BY <1>5, <1>6

LEMMA AddKeepsListInv ==
  ASSUME ShapeInv, TypeInv, ListInv, NEW t \in Threads, AddToFreeList(t) PROVE ListInv'
  BY AddKeepsLists, AddReadsKeepLists, AddNextKeepsLists, AddCasKeepsLists DEF AddToFreeList

-----------------------------------------------------------------------------
(* FreeList::try_get.                                                      *)

LEMMA GetTestKeepsLists ==
  ASSUME ShapeInv, TypeInv, ListInv, NEW p \in Producers, GetTest(p) PROVE ListInv'
  <1>1. PICK b, n : b = my[p].head /\ n = Cardinality(Referring(b))
    OBVIOUS
  <1>2. p \in Threads /\ OnlyMoves(p)
    BY EnqueueMoves DEF Threads, TryEnqueue, TryGet
  <1>3. /\ at[p] = "test" /\ UNCHANGED <<freeNext, freeHead, value, poolIndex>> /\ my' = my
        /\ Chain' = Chain
    <2>1. at[p] = "test" /\ UNCHANGED <<freeNext, freeHead, value, poolIndex>> /\ my' = my
      BY DEF GetTest, index
    <2> QED BY <2>1 DEF Chain, Holding
  <1>4. CASE UNCHANGED refs /\ at'[p] \in {"rewind", "get"}
    BY <1>2, <1>3, <1>4, QuietKeepsLists DEF Carrying, Joining
  <1>5. CASE /\ b # None /\ refs[b] % ShouldBeOnFreeList # 0
             /\ refs' = [refs EXCEPT ![b] = @ + 1] /\ at'[p] = "getNext"
    <2>1. b \in Block
      BY <1>1, <1>2, <1>5 DEF TypeInv, LocalType, Link
    <2>2. PICK k, w, i : Placed(b, k, w, i) /\ Counted(b, k, w)
      BY <2>1 DEF ListInv, PlaceInv
    <2>3. Stays(p, b)
      BY <1>1, <1>3, <1>5 DEF Stays, Adding, InHand
    <2>4. Placed(b, k, w, i)' /\ Owed(k, at'[w]) = Owed(k, at[w]) /\ (k = "adding" => at'[w] = at[w])
      BY <1>2, <2>1, <2>2, <2>3, StaysPlaced
    <2>5. Cardinality(Referring(b)') = n + 1 /\ Referring(b)' # {}
      <3>1. p \in Referring(b)' /\ p \notin Referring(b)
        BY <1>1, <1>3, <1>5 DEF Referring
      <3> QED BY <1>1, <1>2, <3>1, RefersJoin
    <2>6. ~(k = "adding" /\ at[w] \in Alone)
      <3>1. n \in Nat /\ (n = 0 <=> Referring(b) = {})
        BY <1>1, RefersFacts
      <3>2. SUFFICES ASSUME k = "adding", at[w] \in Alone PROVE FALSE
        OBVIOUS
      <3>3. refs[b] = ShouldBeOnFreeList
        BY <1>1, <2>2, <3>1, <3>2 DEF Counted, Owed, ShouldBeOnFreeList
      <3> QED BY <1>5, <3>3 DEF ShouldBeOnFreeList
    <2>7. refs'[b] = n + 1 + Owed(k, at[w])
      <3>1. n \in Nat /\ Owed(k, at[w]) \in Nat
        BY <1>1, RefersFacts DEF Owed, ShouldBeOnFreeList
      <3>2. refs'[b] = refs[b] + 1 /\ refs[b] = n + Owed(k, at[w])
        BY <1>1, <1>5, <2>1, <2>2 DEF TypeInv, Counted
      <3> QED BY <3>1, <3>2
    <2>8. Counted(b, k, w)'
      BY <2>4, <2>5, <2>6, <2>7 DEF Counted
    <2>9. \A a \in Block \ {b} : Aside(p, a)
      BY <1>1, <1>3, <1>5, <2>1 DEF Aside, Unheld, Adding, Referring, InHand, TypeInv
    <2>10. PlaceInv'
      BY <1>2, <2>4, <2>8, <2>9, PlaceStep DEF ListInv
    <2>11. LinkOf(p)'
      BY <1>5 DEF LinkOf
    <2> QED BY <1>2, <1>3, <2>10, <2>11, LinksKept
  <1> QED BY <1>1, <1>2, <1>4, <1>5 DEF GetTest, Goto, ShapeInv

\* A step that leaves the thread's reference where it is.
LEMMA ReferStep ==
  ASSUME ListInv, NEW p \in Producers, OnlyMoves(p), NEW b \in Block,
         p \in Referring(b), p \in Referring(b)', Stays(p, b),
         UNCHANGED <<refs, freeNext, freeHead, value, poolIndex>>,
         at[p] \notin Joining, at'[p] \notin Joining
  PROVE  PlaceInv'
  <1>1. p \in Threads
    BY DEF Threads
  <1>2. PICK k, w, i : Placed(b, k, w, i) /\ Counted(b, k, w)
    BY DEF ListInv, PlaceInv
  <1>3. Placed(b, k, w, i)' /\ Owed(k, at'[w]) = Owed(k, at[w]) /\ (k = "adding" => at'[w] = at[w])
    BY <1>1, <1>2, StaysPlaced
  <1>4. Referring(b)' = Referring(b)
    BY <1>1, RefersSame
  <1>5. Counted(b, k, w)'
    BY <1>2, <1>3, <1>4 DEF Counted
  <1>6. Chain' = Chain
    BY DEF Chain, Holding
  <1>7. \A a \in Block \ {b} : Unheld(p, a) /\ Unheld(p, a)'
    BY DEF Stays, Unheld, Adding, Referring, InHand, Joining
  <1>8. \A a \in Block \ {b} : Aside(p, a)
    BY <1>6, <1>7 DEF Aside
  <1> QED BY <1>1, <1>3, <1>5, <1>8, PlaceStep DEF ListInv

LEMMA GetNextKeepsLists ==
  ASSUME ShapeInv, TypeInv, ListInv, NEW p \in Producers,
         GetNext(p) \/ (GetCas(p) /\ freeHead # my[p].head)
  PROVE  ListInv'
  <1>1. PICK b : b = my[p].head
    OBVIOUS
  <1>2. p \in Threads /\ OnlyMoves(p)
    BY EnqueueMoves DEF Threads, TryEnqueue, TryGet
  <1>3. /\ at[p] \in {"getNext", "getCas"} /\ b \in Block
        /\ UNCHANGED <<refs, freeNext, freeHead, value, poolIndex>> /\ Chain' = Chain
    <2>1. /\ at[p] \in {"getNext", "getCas"}
          /\ UNCHANGED <<refs, freeNext, freeHead, value, poolIndex>>
      BY DEF GetNext, GetCas, index, freeList
    <2> QED BY <1>1, <1>2, <2>1 DEF Chain, Holding, TypeInv, Known
  <1>4. CASE GetNext(p)
    <2>1. at'[p] = "getCas" /\ my'[p].head = b /\ my'[p].next = freeNext[b]
      BY <1>1, <1>2, <1>4 DEF GetNext, Goto, ShapeInv, Fields
    <2>2. p \in Referring(b) /\ p \in Referring(b)' /\ Stays(p, b)
      BY <1>1, <1>3, <2>1 DEF Referring, Stays, Adding, InHand
    <2>3. PlaceInv'
      BY <1>1, <1>2, <1>3, <2>1, <2>2, ReferStep DEF Joining
    <2>4. LinkOf(p)'
      BY <1>1, <1>3, <2>1 DEF LinkOf
    <2> QED BY <1>1, <1>2, <1>3, <2>3, <2>4, LinksKept
  <1>5. CASE GetCas(p) /\ freeHead # b
    <2>1. at'[p] = "getDrop" /\ my'[p].node = b
      BY <1>1, <1>2, <1>5 DEF GetCas, Goto, ShapeInv, Fields
    <2>2. p \in Referring(b) /\ p \in Referring(b)' /\ Stays(p, b)
      BY <1>1, <1>3, <2>1 DEF Referring, Stays, Adding, InHand
    <2>3. PlaceInv'
      BY <1>1, <1>2, <1>3, <2>1, <2>2, ReferStep DEF Joining
    <2>4. LinkOf(p)'
      BY <2>1 DEF LinkOf
    <2> QED BY <1>1, <1>2, <1>3, <2>3, <2>4, LinksKept
  <1> QED BY <1>1, <1>4, <1>5

\* A block that a thread takes from one place to another.
LEMMA MovesTo ==
  ASSUME NEW t \in Threads, OnlyMoves(t), NEW b \in Block, NEW k, NEW w, NEW i, Placed(b, k, w, i),
         k \in {"hand", "adding"} => w = t,
         NEW k2 \in Kinds, NEW w2, NEW i2,
         k2 \in {"hand", "adding"} => w2 = t,
         k2 = "hand" => t \in Producers,
         k2 = "entry" => w2 \in Producers /\ i2 \in Entries,
         b > poolIndex' <=> k2 = "pool",
         b \in Chain' <=> k2 = "list",
         \A p \in Producers, j \in Entries : value'[p][j] = b <=> k2 = "entry" /\ w2 = p /\ i2 = j,
         InHand(t, b)' <=> k2 = "hand",
         t \in Adding(b)' <=> k2 = "adding"
  PROVE  Placed(b, k2, w2, i2)'
  <1>1. \A u \in Threads \ {t} : u \notin Adding(b)'
    BY DEF Placed, OnlyMoves, Adding
  <1>2. \A p \in Producers \ {t} : ~InHand(p, b)'
    BY DEF Placed, OnlyMoves, InHand, Threads
  <1> QED BY <1>1, <1>2 DEF Placed

LEMMA GetCasKeepsLists ==
  ASSUME ShapeInv, TypeInv, ListInv, NEW p \in Producers, GetCas(p), freeHead = my[p].head
  PROVE  ListInv'
  <1>1. PICK b, n : b = my[p].head /\ n = my[p].next
    OBVIOUS
  <1>2. p \in Threads /\ OnlyMoves(p) /\ LinkOf(p)
    BY EnqueueMoves DEF Threads, TryEnqueue, TryGet, ListInv
  <1>3. /\ at[p] = "getCas" /\ at'[p] = "getUnref" /\ my' = my /\ b \in Block
        /\ freeHead' = n /\ n = freeNext[b]
        /\ UNCHANGED <<refs, freeNext, value, poolIndex>>
    BY <1>1, <1>2 DEF GetCas, Goto, index, ShapeInv, TypeInv, Known, LinkOf
  <1>4. freeHead = b /\ freeNext \in Links
    BY <1>1 DEF TypeInv, Links, Link
  <1>5. PICK rank \in [Block -> Nat] : Falls(rank, freeHead, freeNext)
    BY DEF ListInv, RankInv
  <1>6. Chain' = Chain \ {b} /\ b \in Chain
    <2>1. Chain' = ListOf(freeHead', freeNext')
      BY DEF Chain, Holding, ListOf, Holds
    <2> QED BY <1>3, <1>4, <1>5, <2>1, ListPopped, ChainIsList
  <1>7. RankInv'
    <2>1. ListOf(freeHead', freeNext') \subseteq ListOf(freeHead, freeNext)
      BY <1>3, <1>4, <1>5, ListPopped
    <2>2. Falls(rank, freeHead', freeNext')
      BY <1>3, <1>5, <2>1 DEF Falls
    <2> QED BY <2>2 DEF RankInv
  <1>8. PICK k, w, i : Placed(b, k, w, i) /\ Counted(b, k, w)
    BY <1>3 DEF ListInv, PlaceInv
  <1>9. k = "list"
    BY <1>6, <1>8 DEF Placed
  <1>10. Placed(b, "hand", p, i)'
    <2>1. InHand(p, b)' /\ p \notin Adding(b)'
      BY <1>1, <1>3 DEF InHand, Adding
    <2>2. ~(b > poolIndex') /\ \A q \in Producers, j \in Entries : value'[q][j] # b
      BY <1>3, <1>8, <1>9 DEF Placed
    <2> QED BY <1>2, <1>3, <1>6, <1>8, <1>9, <2>1, <2>2, MovesTo DEF Kinds
  <1>11. Counted(b, "hand", p)'
    <2>1. p \in Referring(b) /\ p \in Referring(b)'
      BY <1>1, <1>3 DEF Referring
    <2>2. Referring(b)' = Referring(b)
      BY <1>2, <2>1, RefersSame
    <2>3. Owed("hand", at'[p]) = 1 /\ Owed(k, at[w]) = 1
      BY <1>3, <1>9 DEF Owed
    <2> QED BY <1>3, <1>8, <2>2, <2>3 DEF Counted
  <1>12. \A a \in Block \ {b} : Unheld(p, a) /\ Unheld(p, a)'
    BY <1>1, <1>3 DEF Unheld, Adding, Referring, InHand
  <1>13. \A a \in Block \ {b} : Aside(p, a)
    BY <1>3, <1>6, <1>12 DEF Aside
  <1>14. PlaceInv'
    BY <1>2, <1>10, <1>11, <1>13, PlaceStep DEF ListInv
  <1>15. \A u \in Threads : LinkOf(u)'
    BY <1>2, <1>3 DEF ListInv, LinkOf, OnlyMoves
  <1> QED BY <1>7, <1>14, <1>15 DEF ListInv

LEMMA GetUnrefKeepsLists ==
  ASSUME ShapeInv, TypeInv, ListInv, NEW p \in Producers, GetUnref(p) PROVE ListInv'
  <1>1. PICK b : b = my[p].head
    OBVIOUS
  <1>2. p \in Threads /\ OnlyMoves(p)
    BY EnqueueMoves DEF Threads, TryEnqueue, TryGet
  <1>3. /\ at[p] = "getUnref" /\ at'[p] = "reset" /\ my'[p].block = b /\ b \in Block
        /\ refs' = [refs EXCEPT ![b] = @ - 2]
        /\ UNCHANGED <<freeNext, freeHead, value, poolIndex>>
    BY <1>1, <1>2 DEF GetUnref, Goto, index, ShapeInv, Fields, TypeInv, Known
  <1>4. Chain' = Chain /\ refs[b] \in Int /\ \A a \in Block \ {b} : refs'[a] = refs[a]
    BY <1>3 DEF Chain, Holding, TypeInv
  <1>5. PICK k, w, i : Placed(b, k, w, i) /\ Counted(b, k, w)
    BY <1>3 DEF ListInv, PlaceInv
  <1>6. k = "hand" /\ w = p
    <2>1. InHand(p, b)
      BY <1>1, <1>3 DEF InHand
    <2> QED BY <1>5, <2>1 DEF Placed
  <1>7. Placed(b, "hand", p, i)'
    <2>1. InHand(p, b)' /\ p \notin Adding(b)'
      BY <1>3 DEF InHand, Adding
    <2>2. /\ ~(b > poolIndex') /\ b \notin Chain'
          /\ \A q \in Producers, j \in Entries : value'[q][j] # b
      BY <1>3, <1>4, <1>5, <1>6 DEF Placed
    <2> QED BY <1>2, <1>3, <1>5, <1>6, <2>1, <2>2, MovesTo DEF Kinds
  <1>8. Counted(b, "hand", p)'
    <2>1. p \in Referring(b) /\ p \notin Referring(b)'
      BY <1>1, <1>3 DEF Referring
    <2>2. Cardinality(Referring(b)') = Cardinality(Referring(b)) - 1
      BY <1>2, <2>1, RefersLeave
    <2>3. Owed("hand", at'[p]) = 0 /\ Owed(k, at[w]) = 1
      BY <1>3, <1>6 DEF Owed
    <2>4. refs'[b] = refs[b] - 2 /\ refs[b] = Cardinality(Referring(b)) + 1
      BY <1>3, <1>5, <2>3 DEF TypeInv, Counted
    <2>5. Cardinality(Referring(b)) \in Nat
      BY RefersFacts
    <2>6. refs'[b] = Cardinality(Referring(b)') + 0
      BY <2>2, <2>4, <2>5
    <2> QED BY <2>3, <2>6 DEF Counted
  <1>9. \A a \in Block \ {b} : Unheld(p, a) /\ Unheld(p, a)'
    BY <1>1, <1>3 DEF Unheld, Adding, Referring, InHand
  <1>10. \A a \in Block \ {b} : Aside(p, a)
    BY <1>3, <1>4, <1>9 DEF Aside
  <1>11. PlaceInv'
    BY <1>2, <1>7, <1>8, <1>10, PlaceStep DEF ListInv
  <1>12. LinkOf(p)'
    BY <1>3 DEF LinkOf
  <1> QED BY <1>2, <1>3, <1>11, <1>12, LinksKept

\* The last to drop a block that waits adds it.
LEMMA GetDropKeepsLists ==
  ASSUME ShapeInv, TypeInv, ListInv, NEW p \in Producers, GetDrop(p) PROVE ListInv'
  <1>1. PICK b, n : b = my[p].node /\ n = Cardinality(Referring(b))
    OBVIOUS
  <1>2. p \in Threads /\ OnlyMoves(p)
    BY EnqueueMoves DEF Threads, TryEnqueue, TryGet
  <1>3. /\ at[p] = "getDrop" /\ my' = my /\ b \in Block /\ refs[b] \in Int
        /\ at'[p] = IF refs[b] = ShouldBeOnFreeList + 1 THEN "addLoad" ELSE "test"
        /\ refs' = [refs EXCEPT ![b] = @ - 1]
        /\ UNCHANGED <<freeNext, freeHead, value, poolIndex>>
    BY <1>1, <1>2 DEF GetDrop, Goto, index, ShapeInv, TypeInv, Known
  <1>4. Chain' = Chain /\ \A a \in Block : refs'[a] = IF a = b THEN refs[b] - 1 ELSE refs[a]
    BY <1>3 DEF Chain, Holding, TypeInv
  <1>5. PICK k, w, i : Placed(b, k, w, i) /\ Counted(b, k, w)
    BY <1>3 DEF ListInv, PlaceInv
  <1>6. p \in Referring(b) /\ p \notin Referring(b)' /\ p \notin Adding(b) /\ ~InHand(p, b)
    BY <1>1, <1>3 DEF Referring, Adding, InHand
  <1>7. n \in Nat /\ n < ShouldBeOnFreeList - 1 /\ Cardinality(Referring(b)') = n - 1
    BY <1>1, <1>2, <1>6, RefersLeave, RefersFacts
  <1>8. ~(k = "adding" /\ at[w] \in Alone)
    BY <1>5, <1>6 DEF Counted
  <1>9. /\ Owed(k, at[w]) \in {0, 1, ShouldBeOnFreeList} /\ refs[b] = n + Owed(k, at[w])
        /\ Owed(k, at[w]) = ShouldBeOnFreeList <=> k = "waits"
    BY <1>1, <1>5, <1>8 DEF Owed, Counted, ShouldBeOnFreeList
  <1>10. \A a \in Block \ {b} : Unheld(p, a) /\ Unheld(p, a)'
    BY <1>1, <1>3 DEF Unheld, Adding, Referring, InHand
  <1>11. \A a \in Block \ {b} : Aside(p, a)
    BY <1>3, <1>4, <1>10 DEF Aside
  <1>12. LinkOf(p)'
    BY <1>3 DEF LinkOf
  <1>13. CASE refs[b] = ShouldBeOnFreeList + 1
    <2>1. k = "waits" /\ n = 1 /\ refs'[b] = ShouldBeOnFreeList
      BY <1>3, <1>4, <1>7, <1>9, <1>13 DEF ShouldBeOnFreeList
    <2>2. Placed(b, "adding", p, i)'
      <3>1. p \in Adding(b)' /\ ~InHand(p, b)'
        BY <1>1, <1>2, <1>3, <1>13 DEF Adding, InHand
      <3>2. /\ ~(b > poolIndex') /\ b \notin Chain'
            /\ \A q \in Producers, j \in Entries : value'[q][j] # b
        BY <1>3, <1>4, <1>5, <2>1 DEF Placed
      <3> QED BY <1>2, <1>3, <1>5, <2>1, <3>1, <3>2, MovesTo DEF Kinds
    <2>3. Counted(b, "adding", p)'
      <3>1. Owed("adding", at'[p]) = ShouldBeOnFreeList
        BY <1>3, <1>13 DEF Owed, Alone
      <3>2. Cardinality(Referring(b)') = 0 /\ Referring(b)' \subseteq Referring(b)
        BY <1>2, <1>6, <1>7, <2>1 DEF OnlyMoves, Referring, Threads
      <3>3. Referring(b)' = {}
        <4>1. IsFiniteSet(Referring(b)')
          BY <3>2, CqAssumption, FS_Subset DEF Referring
        <4> QED BY <3>2, <4>1, FS_EmptySet
      <3> QED BY <2>1, <3>1, <3>2, <3>3 DEF Counted, ShouldBeOnFreeList
    <2>4. PlaceInv'
      BY <1>2, <1>11, <2>2, <2>3, PlaceStep DEF ListInv
    <2> QED BY <1>2, <1>3, <1>12, <2>4, LinksKept
  <1>14. CASE refs[b] # ShouldBeOnFreeList + 1
    <2>1. Stays(p, b)
      BY <1>3, <1>4, <1>6, <1>14 DEF Stays, Adding, InHand
    <2>2. Placed(b, k, w, i)' /\ Owed(k, at'[w]) = Owed(k, at[w]) /\ (k = "adding" => at'[w] = at[w])
      BY <1>2, <1>3, <1>5, <2>1, StaysPlaced
    <2>3. refs'[b] = n - 1 + Owed(k, at[w])
      BY <1>3, <1>4, <1>7, <1>9 DEF ShouldBeOnFreeList
    <2>4. k = "waits" => Referring(b)' # {}
      <3>1. k = "waits" => n # 1
        BY <1>7, <1>9, <1>14 DEF ShouldBeOnFreeList
      <3>2. Referring(b)' = {} => Cardinality(Referring(b)') = 0
        BY FS_EmptySet
      <3> QED BY <1>7, <3>1, <3>2
    <2>5. Counted(b, k, w)'
      BY <1>7, <1>8, <2>2, <2>3, <2>4 DEF Counted
    <2>6. PlaceInv'
      BY <1>2, <1>11, <2>2, <2>5, PlaceStep DEF ListInv
    <2> QED BY <1>2, <1>3, <1>12, <2>6, LinksKept
  <1> QED BY <1>13, <1>14

LEMMA GetKeepsListInv ==
  ASSUME ShapeInv, TypeInv, ListInv, NEW p \in Producers, TryGet(p) PROVE ListInv'
  <1>1. CASE GetLoad(p)
    <2>1. p \in Threads /\ OnlyMoves(p)
      BY <1>1, EnqueueMoves DEF Threads, TryEnqueue, TryGet
    <2>2. /\ at[p] \notin Carrying /\ at'[p] \notin Carrying
          /\ UNCHANGED <<refs, freeNext, freeHead, value, poolIndex>>
      BY <1>1, <2>1 DEF GetLoad, Goto, ShapeInv, index, freeList, Carrying, Joining
    <2> QED BY <2>1, <2>2, QuietKeepsLists
  <1>2. CASE GetCas(p)
    BY <1>2, GetCasKeepsLists, GetNextKeepsLists
  <1> QED BY <1>1, <1>2, GetTestKeepsLists, GetNextKeepsLists, GetUnrefKeepsLists,
             GetDropKeepsLists DEF TryGet

-----------------------------------------------------------------------------
(* A producer's block until it is in the index, and an emptied one.         *)

LEMMA TakeFromPoolKeepsLists ==
  ASSUME ShapeInv, TypeInv, ListInv, NEW p \in Producers, TakeFromPool(p) PROVE ListInv'
  <1>1. p \in Threads /\ OnlyMoves(p)
    BY EnqueueMoves DEF Threads, TryEnqueue
  <1>2. /\ at[p] = "pool" /\ poolIndex' = poolIndex + 1 /\ poolIndex \in Nat
        /\ UNCHANGED <<refs, freeNext, freeHead, value>> /\ Chain' = Chain
    BY DEF TakeFromPool, TypeInv, freeList, index, Chain, Holding
  <1>3. CASE poolIndex < PoolSize
    <2>1. PICK b : b = poolIndex + 1
      OBVIOUS
    <2>2. b \in Block /\ my'[p].block = b /\ at'[p] = "reset"
      BY <1>1, <1>2, <1>3, <2>1, CqAssumption DEF TakeFromPool, Goto, ShapeInv, Fields, Block
    <2>3. PICK k, w, i : Placed(b, k, w, i) /\ Counted(b, k, w)
      BY <2>2 DEF ListInv, PlaceInv
    <2>4. k = "pool"
      BY <1>2, <2>1, <2>3 DEF Placed
    <2>5. \A a \in Block : ~InHand(p, a) /\ p \notin Referring(a) /\ p \notin Adding(a)
                           /\ p \notin Referring(a)' /\ p \notin Adding(a)'
                           /\ (InHand(p, a)' <=> a = b)
      BY <1>2, <2>2 DEF InHand, Referring, Adding
    <2>6. Placed(b, "hand", p, i)'
      <3>1. /\ ~(b > poolIndex') /\ b \notin Chain'
            /\ \A q \in Producers, j \in Entries : value'[q][j] # b
        BY <1>2, <2>1, <2>3, <2>4 DEF Placed
      <3> QED BY <1>1, <2>2, <2>3, <2>4, <2>5, <3>1, MovesTo DEF Kinds
    <2>7. Counted(b, "hand", p)'
      <3>1. Referring(b)' = Referring(b)
        BY <1>1, <2>2, <2>5, RefersSame
      <3>2. Owed("hand", at'[p]) = 0 /\ Owed(k, at[w]) = 0
        BY <2>2, <2>4 DEF Owed
      <3> QED BY <1>2, <2>3, <3>1, <3>2 DEF Counted
    <2>8. \A a \in Block \ {b} : a > poolIndex' <=> a > poolIndex
      BY <1>2, <2>1 DEF Block
    <2>9. \A a \in Block \ {b} : Aside(p, a)
      BY <1>2, <2>5, <2>8 DEF Aside, Unheld
    <2>10. PlaceInv'
      BY <1>1, <2>6, <2>7, <2>9, PlaceStep DEF ListInv
    <2>11. LinkOf(p)'
      BY <2>2 DEF LinkOf
    <2> QED BY <1>1, <1>2, <2>10, <2>11, LinksKept
  <1>4. CASE ~(poolIndex < PoolSize)
    <2>1. at'[p] = "get" /\ \A a \in Block : ~(a > poolIndex) /\ ~(a > poolIndex')
      BY <1>1, <1>2, <1>4, CqAssumption DEF TakeFromPool, Goto, ShapeInv, Block
    <2> QED BY <1>1, <1>2, <2>1, QuietKeepsLists DEF Carrying, Joining
  <1> QED BY <1>3, <1>4

LEMMA ResetBlockKeepsLists ==
  ASSUME ShapeInv, TypeInv, ListInv, NEW p \in Producers, ResetBlock(p) PROVE ListInv'
  <1>1. PICK b : b = my[p].block
    OBVIOUS
  <1>2. p \in Threads /\ OnlyMoves(p)
    BY EnqueueMoves DEF Threads, TryEnqueue
  <1>3. /\ at[p] = "reset" /\ at'[p] = "value" /\ my' = my /\ b \in Block
        /\ UNCHANGED <<refs, freeNext, freeHead, value, poolIndex>> /\ Chain' = Chain
    BY <1>1, <1>2
       DEF ResetBlock, Goto, index, freeList, ShapeInv, TypeInv, Known, Chain, Holding
  <1>4. PICK k, w, i : Placed(b, k, w, i) /\ Counted(b, k, w)
    BY <1>3 DEF ListInv, PlaceInv
  <1>5. k = "hand" /\ w = p
    <2>1. InHand(p, b)
      BY <1>1, <1>3 DEF InHand
    <2> QED BY <1>4, <2>1 DEF Placed
  <1>6. \A a \in Block : /\ p \notin Referring(a) /\ p \notin Adding(a)
                         /\ p \notin Referring(a)' /\ p \notin Adding(a)'
                         /\ InHand(p, a) <=> a = b
                         /\ InHand(p, a)' <=> a = b
    BY <1>1, <1>3 DEF InHand, Referring, Adding
  <1>7. Placed(b, "hand", p, i)'
    <2>1. /\ ~(b > poolIndex') /\ b \notin Chain'
          /\ \A q \in Producers, j \in Entries : value'[q][j] # b
      BY <1>3, <1>4, <1>5 DEF Placed
    <2> QED BY <1>2, <1>3, <1>4, <1>5, <1>6, <2>1, MovesTo DEF Kinds
  <1>8. Counted(b, "hand", p)'
    <2>1. Referring(b)' = Referring(b)
      BY <1>2, <1>3, <1>6, RefersSame
    <2>2. Owed("hand", at'[p]) = 0 /\ Owed(k, at[w]) = 0
      BY <1>3, <1>5 DEF Owed
    <2> QED BY <1>3, <1>4, <2>1, <2>2 DEF Counted
  <1>9. \A a \in Block \ {b} : Aside(p, a)
    BY <1>3, <1>6 DEF Aside, Unheld
  <1>10. PlaceInv'
    BY <1>2, <1>7, <1>8, <1>9, PlaceStep DEF ListInv
  <1>11. LinkOf(p)'
    BY <1>3 DEF LinkOf
  <1> QED BY <1>2, <1>3, <1>10, <1>11, LinksKept

LEMMA StoreValueKeepsLists ==
  ASSUME ShapeInv, TypeInv, ListInv, NEW p \in Producers, StoreValue(p),
         value[p][my[p].pos] = None
  PROVE  ListInv'
  <1>1. PICK b, e : b = my[p].block /\ e = my[p].pos
    OBVIOUS
  <1>2. p \in Threads /\ OnlyMoves(p) /\ e \in Entries
    BY <1>1, EnqueueMoves DEF Threads, TryEnqueue, TypeInv, LocalType
  <1>3. /\ at[p] = "value" /\ at'[p] = "write" /\ b \in Block
        /\ value' = [value EXCEPT ![p][e] = b]
        /\ UNCHANGED <<refs, freeNext, freeHead, poolIndex>> /\ Chain' = Chain
    BY <1>1, <1>2
       DEF StoreValue, Goto, index, freeList, ShapeInv, TypeInv, Known, Chain, Holding
  <1>4. PICK k, w, i : Placed(b, k, w, i) /\ Counted(b, k, w)
    BY <1>3 DEF ListInv, PlaceInv
  <1>5. k = "hand" /\ w = p
    <2>1. InHand(p, b)
      BY <1>1, <1>3 DEF InHand
    <2> QED BY <1>4, <2>1 DEF Placed
  <1>6. \A a \in Block : /\ p \notin Referring(a) /\ p \notin Adding(a)
                         /\ p \notin Referring(a)' /\ p \notin Adding(a)'
                         /\ InHand(p, a) <=> a = b
                         /\ ~InHand(p, a)'
    BY <1>1, <1>3 DEF InHand, Referring, Adding
  <1>7. \A q \in Producers, j \in Entries :
          value'[q][j] = IF q = p /\ j = e THEN b ELSE value[q][j]
    BY <1>2, <1>3 DEF TypeInv
  <1>8. Placed(b, "entry", p, e)'
    <2>1. /\ ~(b > poolIndex') /\ b \notin Chain'
          /\ \A q \in Producers, j \in Entries : value[q][j] # b
      BY <1>3, <1>4, <1>5 DEF Placed
    <2>2. \A q \in Producers, j \in Entries : value'[q][j] = b <=> p = q /\ e = j
      BY <1>7, <2>1
    <2> QED BY <1>2, <1>3, <1>4, <1>5, <1>6, <2>1, <2>2, MovesTo DEF Kinds
  <1>9. Counted(b, "entry", p)'
    <2>1. Referring(b)' = Referring(b)
      BY <1>2, <1>3, <1>6, RefersSame
    <2>2. Owed("entry", at'[p]) = 0 /\ Owed(k, at[w]) = 0
      BY <1>3, <1>5 DEF Owed
    <2> QED BY <1>3, <1>4, <2>1, <2>2 DEF Counted
  <1>10. \A a \in Block \ {b}, q \in Producers, j \in Entries : value'[q][j] = a <=> value[q][j] = a
    BY <1>1, <1>7 DEF None, Block
  <1>11. \A a \in Block \ {b} : Aside(p, a)
    BY <1>3, <1>6, <1>10 DEF Aside, Unheld
  <1>12. PlaceInv'
    BY <1>2, <1>8, <1>9, <1>11, PlaceStep DEF ListInv
  <1>13. LinkOf(p)'
    BY <1>3 DEF LinkOf
  <1> QED BY <1>2, <1>3, <1>12, <1>13, LinksKept

LEMMA ForgetKeepsLists ==
  ASSUME ShapeInv, TypeInv, ListInv, NEW c \in Consumers, NEW p \in Producers, Forget(c, p),
         value[p][my[c].pos] = my[c].block, my[c].block \in Block
  PROVE  ListInv'
  <1>1. PICK b, e : b = my[c].block /\ e = my[c].pos
    OBVIOUS
  <1>2. c \in Threads /\ c \notin Producers /\ OnlyMoves(c) /\ e \in Entries
    BY <1>1, DequeueMoves, CqAssumption DEF Threads, TryDequeue, TypeInv, LocalType
  <1>3. /\ at[c] = "forget" /\ at'[c] = "add" /\ b \in Block /\ my'[c].node = b
        /\ value' = [value EXCEPT ![p][e] = None]
        /\ UNCHANGED <<refs, freeNext, freeHead, poolIndex>> /\ Chain' = Chain
    <2>1. my'[c] = [NoLocals EXCEPT !.node = b]
      BY <1>1, <1>2 DEF Forget, ShapeInv
    <2> QED BY <1>1, <1>2, <2>1 DEF Forget, Goto, freeList, ShapeInv, NoLocals, Chain, Holding
  <1>4. PICK k, w, i : Placed(b, k, w, i) /\ Counted(b, k, w)
    BY <1>3 DEF ListInv, PlaceInv
  <1>5. k = "entry" /\ w = p /\ i = e
    BY <1>1, <1>2, <1>4 DEF Placed
  <1>6. \A a \in Block : /\ c \notin Referring(a) /\ c \notin Adding(a)
                         /\ ~InHand(c, a) /\ ~InHand(c, a)'
                         /\ c \notin Referring(a)' /\ (c \in Adding(a)' <=> a = b)
    BY <1>2, <1>3 DEF InHand, Referring, Adding
  <1>7. \A q \in Producers, j \in Entries :
          value'[q][j] = IF q = p /\ j = e THEN None ELSE value[q][j]
    BY <1>2, <1>3 DEF TypeInv
  <1>8. Placed(b, "adding", c, e)'
    <2>1. /\ ~(b > poolIndex') /\ b \notin Chain'
      BY <1>3, <1>4, <1>5 DEF Placed
    <2>2. \A q \in Producers, j \in Entries : value'[q][j] # b
      BY <1>3, <1>4, <1>5, <1>7 DEF Placed, None, Block
    <2> QED BY <1>2, <1>3, <1>4, <1>5, <1>6, <2>1, <2>2, MovesTo DEF Kinds
  <1>9. Counted(b, "adding", c)'
    <2>1. Referring(b)' = Referring(b)
      BY <1>2, <1>3, <1>6, RefersSame
    <2>2. Owed("adding", at'[c]) = 0 /\ Owed(k, at[w]) = 0 /\ at'[c] \notin Alone
      BY <1>3, <1>5 DEF Owed, Alone
    <2> QED BY <1>3, <1>4, <2>1, <2>2 DEF Counted
  <1>10. \A a \in Block \ {b}, q \in Producers, j \in Entries : value'[q][j] = a <=> value[q][j] = a
    BY <1>1, <1>7 DEF None, Block
  <1>11. \A a \in Block \ {b} : Aside(c, a)
    BY <1>3, <1>6, <1>10 DEF Aside, Unheld
  <1>12. PlaceInv'
    BY <1>2, <1>8, <1>9, <1>11, PlaceStep DEF ListInv
  <1>13. LinkOf(c)'
    BY <1>3 DEF LinkOf
  <1> QED BY <1>2, <1>3, <1>12, <1>13, LinksKept

LEMMA EnqueueKeepsListInv ==
  ASSUME ShapeInv, TypeInv, ListInv, NEW p \in Producers, TryEnqueue(p),
         at[p] \in {"value", "rewound"} => value[p][my[p].pos] = None
  PROVE  ListInv'
  <1>1. p \in Threads /\ OnlyMoves(p)
    BY EnqueueMoves DEF Threads
  <1>2. ASSUME at[p] \notin Carrying, at'[p] \notin Carrying,
               UNCHANGED <<refs, freeNext, freeHead, value, poolIndex>>
        PROVE  ListInv'
    BY <1>1, <1>2, QuietKeepsLists
  <1>3. CASE BeginEnqueue(p)
    BY <1>1, <1>2, <1>3, BeginEnqueueFacts DEF Goto, ShapeInv, index, freeList, Carrying, Joining
  <1>4. CASE StoreKey(p) \/ StoreIndexTail(p) \/ Rewind(p)
    BY <1>1, <1>2, <1>4
       DEF StoreKey, StoreIndexTail, Rewind, Goto, ShapeInv, freeList, Carrying, Joining
  <1>5. CASE Rewound(p)
    <2>1. value' = value
      <3>1. value[p][my[p].pos] = None /\ value' = [value EXCEPT ![p][my[p].pos] = None]
        BY <1>5 DEF Rewound
      <3> QED BY <3>1 DEF TypeInv
    <2>2. at[p] = "rewound" /\ at'[p] = "idle" /\ UNCHANGED <<refs, freeNext, freeHead, poolIndex>>
      BY <1>1, <1>5, ReturnFact DEF Rewound, freeList
    <2> QED BY <1>2, <2>1, <2>2 DEF Carrying, Joining
  <1>6. CASE Write(p) \/ Publish(p)
    BY <1>1, <1>2, <1>6, ReturnFact
       DEF Write, Publish, Goto, ShapeInv, index, freeList, Carrying, Joining
  <1>7. CASE StoreValue(p)
    BY <1>7, StoreValueKeepsLists DEF StoreValue
  <1> QED BY <1>3, <1>4, <1>5, <1>6, <1>7, TakeFromPoolKeepsLists, ResetBlockKeepsLists,
             GetKeepsListInv DEF TryEnqueue

LEMMA DequeueKeepsListInv ==
  ASSUME ShapeInv, TypeInv, ListInv, NEW c \in Consumers, NEW p \in Producers, TryDequeue(c, p),
         at[c] = "forget" => value[p][my[c].pos] = my[c].block /\ my[c].block \in Block
  PROVE  ListInv'
  <1>1. c \in Threads /\ OnlyMoves(c)
    BY DequeueMoves DEF Threads
  <1>2. ASSUME at[c] \notin Carrying, at'[c] \notin Carrying,
               UNCHANGED <<refs, freeNext, freeHead, value, poolIndex>>
        PROVE  ListInv'
    BY <1>1, <1>2, QuietKeepsLists
  <1>3. CASE Forget(c, p)
    BY <1>3, ForgetKeepsLists DEF Forget
  <1>4. CASE Look(c, p) \/ Check(c, p) \/ Undo(c, p) \/ SetEmpty(c, p)
    BY <1>1, <1>2, <1>4, GotoFact, ReturnFact
       DEF Look, Check, Undo, SetEmpty, index, freeList, Carrying, Joining
  <1>5. CASE LoadTail(c, p) \/ LoadOvercommit(c, p) \/ Commit(c, p) \/ Claim(c, p)
    BY <1>1, <1>2, <1>5
       DEF LoadTail, LoadOvercommit, Commit, Claim, Goto, ShapeInv, index, freeList, Carrying, Joining
  <1>6. CASE Find(c, p) \/ Entry(c, p) \/ Take(c, p)
    BY <1>1, <1>2, <1>6
       DEF Find, Entry, Take, Goto, ShapeInv, index, freeList, Carrying, Joining
  <1> QED BY <1>3, <1>4, <1>5, <1>6 DEF TryDequeue

LEMMA InitLists == Init => ListInv
  <1> SUFFICES ASSUME Init PROVE ListInv
    OBVIOUS
  <1>1. (\A t \in Threads : at[t] = "idle") /\ Producers \subseteq Threads
    BY DEF Init, Threads
  <1>2. Chain = {}
    <2>1. Holding({})
      BY DEF Init, Holding
    <2> QED BY <2>1 DEF Chain
  <1>3. ASSUME NEW b \in Block PROVE Placed(b, "pool", 0, 0) /\ Counted(b, "pool", 0)
    <2>1. Referring(b) = {} /\ Adding(b) = {} /\ \A p \in Producers : ~InHand(p, b)
      <3>1. \A p \in Producers : at[p] = "idle"
        BY <1>1
      <3> QED BY <1>1, <3>1 DEF Referring, Adding, InHand
    <2>2. Cardinality(Referring(b)) = 0
      BY <2>1, FS_EmptySet
    <2>3. b > poolIndex /\ refs[b] = 0 /\ \A p \in Producers, j \in Entries : value[p][j] # b
      BY DEF Init, Block, None, Entries
    <2>4. Placed(b, "pool", 0, 0)
      BY <1>2, <2>1, <2>3 DEF Placed, Kinds
    <2>5. Counted(b, "pool", 0)
      BY <2>2, <2>3 DEF Counted, Owed
    <2> QED BY <2>4, <2>5
  <1>4. RankInv
    <2>1. [b \in Block |-> 0] \in [Block -> Nat] /\ Falls([b \in Block |-> 0], freeHead, freeNext)
      BY <1>2, ChainIsList DEF Falls
    <2> QED BY <2>1 DEF RankInv
  <1>5. \A t \in Threads : LinkOf(t)
    BY <1>1 DEF LinkOf
  <1> QED BY <1>3, <1>4, <1>5 DEF ListInv, PlaceInv

LEMMA OnePlace == TypeInv /\ ListInv => BlocksAreExclusive
  <1> SUFFICES ASSUME TypeInv, ListInv, NEW b \in Block
               PROVE  /\ Cardinality(Places(b)) = 1
                      /\ b \in Chain => refs[b] = 1 + Cardinality(Referring(b))
    BY DEF BlocksAreExclusive
  <1>1. PICK k, w, i : Placed(b, k, w, i) /\ Counted(b, k, w)
    BY DEF ListInv, PlaceInv
  <1>2. PICK n \in Nat : n = Cardinality(Referring(b)) /\ n < ShouldBeOnFreeList - 1
    BY RefersFacts
  <1>3. refs[b] = n + Owed(k, at[w])
    BY <1>1, <1>2 DEF Counted
  <1>4. refs[b] >= ShouldBeOnFreeList /\ Adding(b) = {} /\ Referring(b) # {} <=> k = "waits"
    <2>1. Adding(b) = {} <=> k # "adding"
      BY <1>1 DEF Placed, Adding
    <2>2. k # "adding" => (Owed(k, at[w]) = ShouldBeOnFreeList <=> k = "waits")
                          /\ Owed(k, at[w]) \in {0, 1, ShouldBeOnFreeList}
      BY DEF Owed, ShouldBeOnFreeList
    <2>3. CASE k # "adding"
      <3>1. refs[b] >= ShouldBeOnFreeList <=> k = "waits"
        BY <1>2, <1>3, <2>2, <2>3 DEF ShouldBeOnFreeList
      <3> QED BY <1>1, <2>1, <2>3, <3>1 DEF Counted
    <2>4. CASE k = "adding"
      BY <2>1, <2>4
    <2> QED BY <2>3, <2>4
  <1>5. b \in Chain => refs[b] = 1 + n
    BY <1>1, <1>2, <1>3 DEF Placed, Owed
  <1> DEFINE A == IF b > poolIndex THEN {"pool"} ELSE {}
             L == IF b \in Chain THEN {"free list"} ELSE {}
             W == IF refs[b] >= ShouldBeOnFreeList /\ Adding(b) = {} /\ Referring(b) # {}
                    THEN {"waits"} ELSE {}
             V == {p \in Producers : \E j \in 0 .. IndexSize - 1 : value[p][j] = b}
             H == {p \in Producers : InHand(p, b)}
  <1>6. Places(b) = A \cup L \cup W \cup V \cup H \cup Adding(b)
    BY DEF Places, InHand
  <1>7. /\ A = IF k = "pool" THEN {"pool"} ELSE {}
        /\ L = IF k = "list" THEN {"free list"} ELSE {}
        /\ W = IF k = "waits" THEN {"waits"} ELSE {}
    BY <1>1, <1>4 DEF Placed
  <1>8. V = IF k = "entry" THEN {w} ELSE {}
    BY <1>1 DEF Placed, Entries
  <1>9. H = IF k = "hand" THEN {w} ELSE {}
    BY <1>1 DEF Placed
  <1>10. Adding(b) = IF k = "adding" THEN {w} ELSE {}
    BY <1>1 DEF Placed, Adding
  <1> HIDE DEF A, L, W, V, H
  <1>11. \E x : Places(b) = {x}
    <2>1. CASE k \in {"pool", "list", "waits"}
      <3>1. V = {} /\ H = {} /\ Adding(b) = {}
        BY <1>8, <1>9, <1>10, <2>1
      <3>2. \E x : A \cup L \cup W = {x}
        BY <1>7, <2>1
      <3> QED BY <1>6, <3>1, <3>2
    <2>2. CASE k \in {"entry", "hand", "adding"}
      <3>1. A = {} /\ L = {} /\ W = {}
        BY <1>7, <2>2
      <3>2. V \cup H \cup Adding(b) = {w}
        BY <1>8, <1>9, <1>10, <2>2
      <3> QED BY <1>6, <3>1, <3>2
    <2> QED BY <1>1, <2>1, <2>2 DEF Placed, Kinds
  <1>12. Cardinality(Places(b)) = 1
    BY <1>11, FS_Singleton
  <1> QED BY <1>2, <1>5, <1>12

-----------------------------------------------------------------------------
(* The index of a producer.  An index of a value is pending until its      *)
(* value is taken; as long as one of a block is, the entry and the slot    *)
(* are its own.                                                            *)

Taking(c, p, n) == at[c] \in Claimed /\ my[c].prod = p /\ my[c].idx = n
Pending(p, n) == n >= headIndex[p] \/ \E c \in Consumers : Taking(c, p, n)
Left(p, m) == {n \in Nat : Num(n) = m /\ Pending(p, n)}

\* The tail's block is in the index; or the entry for it is sought, or not yet.
Filling(p) == at[p] \in {"write", "publish"} \/ Off(tailIndex[p]) # 0
Home(p) == Ent(Num(tailIndex[p]))
EnqInv(p) ==
  /\ at[p] \in Seeking \cup {"key", "indexTail", "rewound"} =>
       Off(tailIndex[p]) = 0 /\ my[p].pos = Home(p) /\ value[p][Home(p)] = None
  /\ at[p] \in Seeking \cup {"indexTail"} => key[p][Home(p)] = First(Num(tailIndex[p]))
  /\ indexTail[p] = IF at[p] \in Seeking \/ Filling(p)
                      THEN Home(p) ELSE Ent(Num(tailIndex[p]) + IndexSize - 1)
  /\ Filling(p) =>
       /\ current[p] \in Block /\ value[p][Home(p)] = current[p]
       /\ key[p][Home(p)] = First(Num(tailIndex[p]))
  /\ at[p] = "publish" => slots[current[p]][Off(tailIndex[p])] = <<p, tailIndex[p]>>
  /\ at[p] = "value" => emptied[my[p].block] = 0

KeyInv(p) ==
  /\ \A i \in Entries : key[p][i] # Unused => \E m \in Nat : key[p][i] = First(m) /\ Ent(m) = i
  /\ \A i \in Entries : key[p][i] = Unused => value[p][i] = None
  /\ \A m \in Nat : First(m) < tailIndex[p] => key[p][Ent(m)] # Unused

Holder(p, n) == value[p][Ent(Num(n))]
ValueInv(p) ==
  \A n \in Nat : n < tailIndex[p] /\ Pending(p, n) =>
    /\ Holder(p, n) # None /\ key[p][Ent(Num(n))] = First(Num(n))
    /\ slots[Holder(p, n)][Off(n)] = <<p, n>>

\* A block in the index counts the values taken out of it.
LeftInv(p) ==
  \A m \in Nat : value[p][Ent(m)] # None /\ key[p][Ent(m)] = First(m) =>
    emptied[value[p][Ent(m)]] + Cardinality(Left(p, m)) = BlockSize

DeqInv(c) ==
  LET p == my[c].prod  n == my[c].idx  e == my[c].pos IN
    /\ at[c] \in Claimed \cup {"forget"} => p \in Producers
    /\ at[c] \in Claimed => n < headIndex[p]
    /\ at[c] = "entry" => key[p][e] # Unused
    /\ at[c] \in {"take", "empty"} => e = Ent(Num(n))
    /\ at[c] = "empty" => my[c].block = value[p][e] /\ my[c].got = <<p, n>>
    /\ at[c] = "forget" =>
         /\ my[c].block = value[p][e] /\ my[c].block # None
         /\ \E m \in Nat : Ent(m) = e /\ key[p][e] = First(m) /\ Left(p, m) = {}

Apart ==
  \A c, d \in Consumers : c # d =>
    /\ at[c] \in Claimed /\ at[d] \in Claimed /\ my[c].prod = my[d].prod => my[c].idx # my[d].idx
    /\ at[c] = "forget" /\ at[d] = "forget" => my[c].block # my[d].block

IndexInv ==
  /\ \A p \in Producers : EnqInv(p) /\ KeyInv(p) /\ ValueInv(p) /\ LeftInv(p)
  /\ \A c \in Consumers : DeqInv(c)
  /\ Apart

-----------------------------------------------------------------------------
LEMMA PendingSame ==
  ASSUME NEW t \in Threads, OnlyMoves(t), NEW p \in Producers, headIndex'[p] = headIndex[p],
         t \in Consumers => \A n : Taking(t, p, n)' <=> Taking(t, p, n)
  PROVE  /\ \A n : Pending(p, n)' <=> Pending(p, n)
         /\ \A m : Left(p, m)' = Left(p, m)
  <1>1. \A c \in Consumers : \A n : Taking(c, p, n)' <=> Taking(c, p, n)
    BY DEF Taking, OnlyMoves, Threads
  <1>2. \A n : Pending(p, n)' <=> Pending(p, n)
    BY <1>1 DEF Pending
  <1> QED BY <1>2 DEF Left

\* What one producer's thread and index were, they still are.
Untouched(q) ==
  /\ tailIndex'[q] = tailIndex[q] /\ headIndex'[q] = headIndex[q]
  /\ indexTail'[q] = indexTail[q] /\ current'[q] = current[q]
  /\ key'[q] = key[q] /\ value'[q] = value[q]

LEMMA EnqUntouched ==
  ASSUME NEW q, EnqInv(q), Untouched(q), at'[q] = at[q], my'[q] = my[q],
         at[q] = "publish" =>
           slots'[current[q]][Off(tailIndex[q])] = slots[current[q]][Off(tailIndex[q])],
         at[q] = "value" => emptied'[my[q].block] \in {0, emptied[my[q].block]}
  PROVE  EnqInv(q)'
  <1>1. Filling(q)' <=> Filling(q)
    BY DEF Filling, Untouched
  <1>2. Home(q)' = Home(q)
    BY DEF Home, Untouched
  <1> QED BY <1>1, <1>2 DEF EnqInv, Untouched

LEMMA IndexUntouched ==
  ASSUME NEW q \in Producers, KeyInv(q), ValueInv(q), LeftInv(q), Untouched(q),
         \A n : Pending(q, n)' <=> Pending(q, n), \A m : Left(q, m)' = Left(q, m),
         \A n \in Nat : n < tailIndex[q] /\ Pending(q, n) =>
           slots'[Holder(q, n)][Off(n)] = slots[Holder(q, n)][Off(n)],
         \A m \in Nat : value[q][Ent(m)] # None => emptied'[value[q][Ent(m)]] = emptied[value[q][Ent(m)]]
  PROVE  KeyInv(q)' /\ ValueInv(q)' /\ LeftInv(q)'
  <1>1. KeyInv(q)'
    BY DEF KeyInv, Untouched
  <1>2. ValueInv(q)'
    <2>1. \A n : Holder(q, n)' = Holder(q, n)
      BY DEF Holder, Untouched
    <2> QED BY <2>1 DEF ValueInv, Untouched
  <1>3. LeftInv(q)'
    BY DEF LeftInv, Untouched
  <1> QED BY <1>1, <1>2, <1>3

LEMMA DeqUntouched ==
  ASSUME NEW c \in Consumers, DeqInv(c), at'[c] = at[c], my'[c] = my[c],
         NEW p, p = my[c].prod, NEW e, e = my[c].pos,
         at[c] \in Claimed => my[c].idx < headIndex'[p],
         at[c] = "entry" => key'[p][e] # Unused,
         at[c] \in {"empty", "forget"} => value'[p][e] = value[p][e],
         at[c] = "forget" => key'[p][e] = key[p][e] /\ \A m : Left(p, m)' \subseteq Left(p, m)
  PROVE  DeqInv(c)'
  <1>1. at[c] = "forget" => \E m \in Nat : Ent(m) = e /\ key'[p][e] = First(m) /\ Left(p, m)' = {}
    BY DEF DeqInv
  <1> QED BY <1>1 DEF DeqInv

data == <<tailIndex, headIndex, current, indexTail, key, value, slots, emptied>>

\* A step that only moves its thread.
LEMMA SilentStep ==
  ASSUME IndexInv, NEW t \in Threads, OnlyMoves(t), UNCHANGED data,
         t \in Producers => EnqInv(t)',
         t \in Consumers => DeqInv(t)' /\ at'[t] # "forget",
         t \in Consumers => \A p, n : Taking(t, p, n)' <=> Taking(t, p, n)
  PROVE  IndexInv'
  <1>1. ASSUME NEW p \in Producers
        PROVE  EnqInv(p)' /\ KeyInv(p)' /\ ValueInv(p)' /\ LeftInv(p)'
    <2>1. EnqInv(p) /\ KeyInv(p) /\ ValueInv(p) /\ LeftInv(p) /\ Untouched(p)
      BY DEF IndexInv, Untouched, data
    <2>2. (\A n : Pending(p, n)' <=> Pending(p, n)) /\ (\A m : Left(p, m)' = Left(p, m))
      BY PendingSame DEF data
    <2>3. KeyInv(p)' /\ ValueInv(p)' /\ LeftInv(p)'
      BY <2>1, <2>2, IndexUntouched DEF data
    <2>4. EnqInv(p)'
      <3>1. CASE p = t
        BY <3>1
      <3>2. CASE p # t
        <4>1. at'[p] = at[p] /\ my'[p] = my[p]
          BY <3>2 DEF OnlyMoves, Threads
        <4> QED BY <2>1, <4>1, EnqUntouched DEF data
      <3> QED BY <3>1, <3>2
    <2> QED BY <2>3, <2>4
  <1>2. ASSUME NEW c \in Consumers PROVE DeqInv(c)'
    <2>1. CASE c = t
      BY <2>1
    <2>2. CASE c # t
      <3>1. at'[c] = at[c] /\ my'[c] = my[c] /\ DeqInv(c)
        BY <2>2 DEF OnlyMoves, Threads, IndexInv
      <3>2. PICK p, e : p = my[c].prod /\ e = my[c].pos
        OBVIOUS
      <3>3. at[c] = "forget" => p \in Producers
        BY <3>1, <3>2 DEF DeqInv
      <3>4. at[c] = "forget" => \A m : Left(p, m)' \subseteq Left(p, m)
        BY <3>3, PendingSame DEF data
      <3> QED BY <3>1, <3>2, <3>4, DeqUntouched DEF data, DeqInv
    <2> QED BY <2>1, <2>2
  <1>3. Apart'
    <2>1. ASSUME NEW c \in Consumers, NEW d \in Consumers, c # d,
                 at'[c] \in Claimed, at'[d] \in Claimed, my'[c].prod = my'[d].prod
          PROVE  my'[c].idx # my'[d].idx
      <3>1. \A u \in {c, d} : \A p, n : Taking(u, p, n)' <=> Taking(u, p, n)
        BY DEF Taking, OnlyMoves, Threads
      <3>2. PICK p, n, q, k : /\ p = my'[c].prod /\ n = my'[c].idx
                              /\ q = my'[d].prod /\ k = my'[d].idx
        OBVIOUS
      <3>3. Taking(c, p, n)' /\ Taking(d, q, k)'
        BY <2>1, <3>2 DEF Taking
      <3>4. Taking(c, p, n) /\ Taking(d, q, k)
        BY <3>1, <3>3
      <3> QED BY <2>1, <3>2, <3>4 DEF IndexInv, Apart, Taking
    <2>2. ASSUME NEW c \in Consumers, NEW d \in Consumers, c # d,
                 at'[c] = "forget", at'[d] = "forget"
          PROVE  my'[c].block # my'[d].block
      <3>1. c # t /\ d # t
        BY <2>2
      <3> QED BY <2>2, <3>1 DEF IndexInv, Apart, OnlyMoves, Threads
    <2> QED BY <2>1, <2>2 DEF Apart
  <1> QED BY <1>1, <1>2, <1>3 DEF IndexInv

\* A step of a producer's thread on its own index and block.
LEMMA ProducerStep ==
  ASSUME IndexInv, NEW p \in Producers, OnlyMoves(p), headIndex' = headIndex,
         \A q \in Producers \ {p} : Untouched(q),
         EnqInv(p)' /\ KeyInv(p)' /\ ValueInv(p)' /\ LeftInv(p)',
         \A q \in Producers \ {p} :
           /\ at[q] = "publish" =>
                slots'[current[q]][Off(tailIndex[q])] = slots[current[q]][Off(tailIndex[q])]
           /\ at[q] = "value" => emptied'[my[q].block] \in {0, emptied[my[q].block]}
           /\ \A n \in Nat : n < tailIndex[q] /\ Pending(q, n) =>
                slots'[Holder(q, n)][Off(n)] = slots[Holder(q, n)][Off(n)]
           /\ \A m \in Nat : value[q][Ent(m)] # None =>
                emptied'[value[q][Ent(m)]] = emptied[value[q][Ent(m)]],
         \A c \in Consumers : my[c].prod = p =>
           /\ at[c] = "entry" => key'[p][my[c].pos] # Unused
           /\ at[c] \in {"empty", "forget"} => value'[p][my[c].pos] = value[p][my[c].pos]
           /\ at[c] = "forget" => key'[p][my[c].pos] = key[p][my[c].pos]
  PROVE  IndexInv'
  <1>1. p \in Threads /\ p \notin Consumers
    BY CqAssumption DEF Threads
  <1>2. ASSUME NEW q \in Producers
        PROVE  (\A n : Pending(q, n)' <=> Pending(q, n)) /\ (\A m : Left(q, m)' = Left(q, m))
    BY <1>1, PendingSame
  <1>3. ASSUME NEW q \in Producers \ {p}
        PROVE  EnqInv(q)' /\ KeyInv(q)' /\ ValueInv(q)' /\ LeftInv(q)'
    <2>1. EnqInv(q) /\ KeyInv(q) /\ ValueInv(q) /\ LeftInv(q) /\ Untouched(q)
      BY DEF IndexInv
    <2>2. at'[q] = at[q] /\ my'[q] = my[q]
      BY DEF OnlyMoves, Threads
    <2>3. KeyInv(q)' /\ ValueInv(q)' /\ LeftInv(q)'
      BY <1>2, <2>1, IndexUntouched
    <2>4. EnqInv(q)'
      BY <2>1, <2>2, EnqUntouched
    <2> QED BY <2>3, <2>4
  <1>4. ASSUME NEW c \in Consumers PROVE at'[c] = at[c] /\ my'[c] = my[c] /\ DeqInv(c)'
    <2>1. at'[c] = at[c] /\ my'[c] = my[c] /\ DeqInv(c)
      BY <1>1 DEF OnlyMoves, Threads, IndexInv
    <2>2. PICK q, e : q = my[c].prod /\ e = my[c].pos
      OBVIOUS
    <2>3. at[c] \in Claimed \cup {"forget"} => q \in Producers
      BY <2>1, <2>2 DEF DeqInv
    <2>4. at[c] = "forget" => \A m : Left(q, m)' \subseteq Left(q, m)
      BY <1>2, <2>3
    <2>5. CASE q = p
      <3>1. at[c] \in Claimed => my[c].idx < headIndex'[p]
        BY <2>1, <2>2, <2>5 DEF DeqInv
      <3>2. /\ at[c] = "entry" => key'[p][e] # Unused
            /\ at[c] \in {"empty", "forget"} => value'[p][e] = value[p][e]
            /\ at[c] = "forget" => key'[p][e] = key[p][e]
        BY <2>2, <2>5
      <3> QED BY <2>1, <2>2, <2>4, <2>5, <3>1, <3>2, DeqUntouched
    <2>6. CASE q # p
      <3>1. at[c] \in Claimed \cup {"forget"} => Untouched(q)
        BY <2>3, <2>6
      <3> QED BY <2>1, <2>2, <2>4, <3>1, DeqUntouched DEF DeqInv, Untouched, Claimed
    <2> QED BY <2>1, <2>5, <2>6
  <1>5. Apart'
    BY <1>4 DEF IndexInv, Apart
  <1> QED BY <1>3, <1>4, <1>5 DEF IndexInv

-----------------------------------------------------------------------------
(* What the other parts of the invariant say for the index.                *)

OneEntry ==
  /\ \A p, q \in Producers, i, j \in Entries :
       value[p][i] = value[q][j] /\ value[p][i] # None => p = q /\ i = j
  /\ \A p, q \in Producers, i \in Entries :
       at[q] \in {"reset", "value"} => value[p][i] # my[q].block

LEMMA ListsGiveOneEntry == TypeInv /\ ListInv => OneEntry
  <1> SUFFICES ASSUME TypeInv, ListInv PROVE OneEntry
    OBVIOUS
  <1>1. ASSUME NEW p \in Producers, NEW q \in Producers, NEW i \in Entries, NEW j \in Entries,
               value[p][i] = value[q][j], value[p][i] # None
        PROVE  p = q /\ i = j
    <2>1. value[p][i] \in Block
      BY <1>1 DEF TypeInv, Link
    <2>2. PICK k, w, e : Placed(value[p][i], k, w, e)
      BY <2>1 DEF ListInv, PlaceInv
    <2> QED BY <1>1, <2>2 DEF Placed
  <1>2. ASSUME NEW p \in Producers, NEW q \in Producers, NEW i \in Entries,
               at[q] \in {"reset", "value"}
        PROVE  value[p][i] # my[q].block
    <2>1. my[q].block \in Block
      BY <1>2 DEF TypeInv, Known, Threads
    <2>2. PICK k, w, e : Placed(my[q].block, k, w, e)
      BY <2>1 DEF ListInv, PlaceInv
    <2>3. InHand(q, my[q].block)
      BY <1>2 DEF InHand
    <2> QED BY <2>2, <2>3 DEF Placed
  <1> QED BY <1>1, <1>2 DEF OneEntry

LEMMA HeadBelowTail ==
  ASSUME IInv, NEW p \in Producers
  PROVE  headIndex[p] \in Nat /\ tailIndex[p] \in Nat /\ headIndex[p] <= tailIndex[p]
  <1>1. /\ headIndex[p] \in Nat /\ tailIndex[p] \in Nat
        /\ headIndex[p] + Cardinality(Winning(p)) + Cardinality(Hoping(p, tailIndex[p]))
             <= tailIndex[p]
    BY DEF IInv, ShapeInv, CountInv, Bound
  <1>2. Cardinality(Winning(p)) \in Nat /\ Cardinality(Hoping(p, tailIndex[p])) \in Nat
    BY Subsets, SetFacts
  <1> QED BY <1>1, <1>2

\* The tail's index, block and entry.
LEMMA TailFacts ==
  ASSUME IInv, NEW p \in Producers
  PROVE  /\ tailIndex[p] \in Nat /\ Num(tailIndex[p]) \in Nat /\ Off(tailIndex[p]) \in Nat
         /\ Home(p) \in Entries /\ Pending(p, tailIndex[p])
         /\ First(Num(tailIndex[p])) # Unused
         /\ Off(tailIndex[p]) = 0 => First(Num(tailIndex[p])) = tailIndex[p]
  <1>1. tailIndex[p] \in Nat /\ Pending(p, tailIndex[p])
    BY HeadBelowTail DEF Pending
  <1>2. /\ Num(tailIndex[p]) \in Nat /\ Off(tailIndex[p]) \in Nat
        /\ First(Num(tailIndex[p])) \in Nat
        /\ tailIndex[p] = First(Num(tailIndex[p])) + Off(tailIndex[p])
        /\ First(Num(tailIndex[p])) # Unused
    BY <1>1, IndexFacts DEF Off
  <1>3. Home(p) \in Entries
    BY <1>2, EntFacts DEF Home
  <1>4. Off(tailIndex[p]) = 0 => First(Num(tailIndex[p])) = tailIndex[p]
    BY <1>1, <1>2
  <1> QED BY <1>1, <1>2, <1>3, <1>4

\* A claimed index is of a value that was enqueued, and is pending.
LEMMA ClaimedFacts ==
  ASSUME IInv, TypeInv, IndexInv, NEW c \in Consumers, at[c] \in Claimed,
         NEW p, p = my[c].prod, NEW n, n = my[c].idx
  PROVE  /\ p \in Producers /\ n \in Nat /\ n < headIndex[p] /\ n < tailIndex[p]
         /\ Pending(p, n) /\ Taking(c, p, n)
         /\ Holder(p, n) \in Block /\ key[p][Ent(Num(n))] = First(Num(n))
         /\ slots[Holder(p, n)][Off(n)] = <<p, n>>
         /\ Num(n) \in Nat /\ Ent(Num(n)) \in Entries /\ First(Num(n)) # Unused
  <1>1. p \in Producers /\ n \in Nat /\ n < headIndex[p]
    BY DEF IndexInv, DeqInv, TypeInv, LocalType, Threads
  <1>2. n < tailIndex[p]
    BY <1>1, HeadBelowTail
  <1>3. Pending(p, n) /\ Taking(c, p, n)
    BY DEF Pending, Taking
  <1>4. Num(n) \in Nat /\ Ent(Num(n)) \in Entries /\ First(Num(n)) # Unused
    BY <1>1, IndexFacts, EntFacts
  <1>5. /\ Holder(p, n) # None /\ key[p][Ent(Num(n))] = First(Num(n))
        /\ slots[Holder(p, n)][Off(n)] = <<p, n>>
    BY <1>1, <1>2, <1>3 DEF IndexInv, ValueInv
  <1>6. Holder(p, n) \in Link
    BY <1>1, <1>4 DEF Holder, TypeInv
  <1> QED BY <1>1, <1>2, <1>3, <1>4, <1>5, <1>6 DEF Link

\* An entry that a consumer empties is not the entry of a pending index.
LEMMA ForgetFacts ==
  ASSUME TypeInv, IndexInv, NEW c \in Consumers, at[c] = "forget",
         NEW p, p = my[c].prod, NEW e, e = my[c].pos
  PROVE  /\ p \in Producers /\ e \in Entries /\ my[c].block = value[p][e] /\ my[c].block \in Block
         /\ \A n \in Nat : Pending(p, n) /\ key[p][Ent(Num(n))] = First(Num(n)) => Ent(Num(n)) # e
  <1>1. p \in Producers /\ my[c].block = value[p][e] /\ my[c].block # None
    BY DEF IndexInv, DeqInv
  <1>2. e \in Entries /\ my[c].block \in Link
    BY DEF TypeInv, LocalType, Threads
  <1>3. PICK m \in Nat : Ent(m) = e /\ key[p][e] = First(m) /\ Left(p, m) = {}
    BY DEF IndexInv, DeqInv
  <1>4. ASSUME NEW n \in Nat, Pending(p, n), key[p][Ent(Num(n))] = First(Num(n)), Ent(Num(n)) = e
        PROVE  FALSE
    <2>1. First(Num(n)) = First(m) /\ Num(n) \in Nat
      BY <1>3, <1>4, IndexFacts
    <2>2. Num(n) = m
      BY <2>1, FirstFacts
    <2> QED BY <1>3, <1>4, <2>2 DEF Left
  <1> QED BY <1>1, <1>2, <1>4 DEF Link

-----------------------------------------------------------------------------
(* The steps of a producer.                                                *)

\* While a block is sought, the entry waits for it.
LEMMA SeekStep ==
  ASSUME IndexInv, NEW p \in Producers, OnlyMoves(p), UNCHANGED data,
         at[p] \in Seeking, at'[p] \in Seeking \ {"value"}, my'[p].pos = my[p].pos
  PROVE  IndexInv'
  <1>1. p \in Threads /\ p \notin Consumers /\ EnqInv(p)
    BY CqAssumption DEF Threads, IndexInv
  <1>2. ~Filling(p) /\ ~Filling(p)' /\ Home(p)' = Home(p)
    BY <1>1 DEF Filling, Home, EnqInv, Seeking, Joining, data
  <1>3. EnqInv(p)'
    <2>1. at'[p] # "publish"
      BY DEF Seeking, Joining
    <2> QED BY <1>1, <1>2, <2>1 DEF EnqInv, data
  <1> QED BY <1>1, <1>3, SilentStep

LEMMA GetKeepsIndex ==
  ASSUME ShapeInv, TypeInv, IndexInv, NEW p \in Producers,
         TryGet(p) \/ AddToFreeList(p) \/ TakeFromPool(p)
  PROVE  IndexInv'
  <1> USE DEF counters, index, contents, freeList, data, Seeking, Joining
  <1>1. p \in Threads /\ OnlyMoves(p) /\ at[p] \in ProducerLabels
    BY AddMoves, EnqueueMoves DEF Threads, TryEnqueue, TypeInv
  <1>2. UNCHANGED data
    BY DEF TryGet, GetLoad, GetTest, GetNext, GetCas, GetUnref, GetDrop, TakeFromPool,
           AddToFreeList, Add, AddLoad, AddNext, AddRefs, AddCas, AddAgain
  <1>3. CASE TryGet(p)
    <2>1. at[p] \in Seeking /\ \E l \in Seeking \ {"value"} : Goto(p, l)
      BY <1>3 DEF TryGet, GetLoad, GetTest, GetNext, GetCas, GetUnref, GetDrop
    <2>2. my'[p].pos = my[p].pos
      BY <1>1, <1>3 DEF TryGet, GetLoad, GetTest, GetNext, GetCas, GetUnref, GetDrop, ShapeInv, Fields
    <2> QED BY <1>1, <1>2, <2>1, <2>2, SeekStep DEF Goto, ShapeInv
  <1>4. CASE TakeFromPool(p)
    <2>1. at[p] \in Seeking /\ at'[p] \in Seeking \ {"value"} /\ my'[p].pos = my[p].pos
      BY <1>1, <1>4 DEF TakeFromPool, Goto, ShapeInv, Fields
    <2> QED BY <1>1, <1>2, <2>1, SeekStep
  <1>5. CASE AddToFreeList(p)
    <2>1. at[p] \in Seeking
      BY <1>1, <1>5 DEF AddToFreeList, Add, AddLoad, AddNext, AddRefs, AddCas, AddAgain, ProducerLabels
    <2>2. \E l \in Seeking \ {"value"} : Goto(p, l)
      BY <1>5 DEF AddToFreeList, Add, AddLoad, AddNext, AddRefs, AddCas, AddAgain, Added
    <2>3. my'[p].pos = my[p].pos
      BY <1>1, <1>5 DEF AddToFreeList, Add, AddLoad, AddNext, AddRefs, AddCas, AddAgain, Added,
                        ShapeInv, Fields
    <2> QED BY <1>1, <1>2, <2>1, <2>2, <2>3, SeekStep DEF Goto, ShapeInv
  <1> QED BY <1>3, <1>4, <1>5

LEMMA BeginEnqueueKeepsIndex ==
  ASSUME IInv, TypeInv, IndexInv, NEW p \in Producers, BeginEnqueue(p) PROVE IndexInv'
  <1>1. /\ p \in Threads /\ p \notin Consumers /\ OnlyMoves(p) /\ ShapeInv
        /\ EnqInv(p) /\ KeyInv(p) /\ at[p] = "idle" /\ UNCHANGED data
    BY EnqueueMoves, BeginEnqueueFacts, CqAssumption
       DEF Threads, TryEnqueue, IInv, IndexInv, data, counters, index, contents
  <1>2. tailIndex[p] \in Nat /\ Num(tailIndex[p]) \in Nat /\ Home(p) \in Entries
    BY TailFacts
  <1>3. CASE Off(tailIndex[p]) # 0
    <2>1. at'[p] = "write" /\ my'[p] = my[p]
      BY <1>1, <1>3, BeginEnqueueFacts DEF Goto, ShapeInv, Off
    <2>2. Filling(p) /\ Filling(p)' /\ Home(p)' = Home(p)
      BY <1>1, <1>3, <2>1 DEF Filling, Home, data
    <2>3. EnqInv(p)'
      BY <1>1, <2>1, <2>2 DEF EnqInv, data, Seeking, Joining
    <2> QED BY <1>1, <2>3, SilentStep
  <1>4. CASE Off(tailIndex[p]) = 0
    <2>1. ~Filling(p) /\ indexTail[p] = Ent(Num(tailIndex[p]) + IndexSize - 1)
      BY <1>1, <1>4 DEF Filling, EnqInv, Seeking, Joining
    <2>2. (indexTail[p] + 1) % IndexSize = Home(p)
      BY <1>2, <2>1, EntFacts DEF Home
    <2>3. /\ key[p][Home(p)] = Unused \/ value[p][Home(p)] = None
          /\ my'[p].pos = Home(p) /\ at'[p] = "key"
      BY <1>1, <1>4, <2>2, BeginEnqueueFacts DEF Goto, ShapeInv, Fields, Off
    <2>4. value[p][Home(p)] = None
      BY <1>1, <1>2, <2>3 DEF KeyInv
    <2>5. ~Filling(p)' /\ Home(p)' = Home(p)
      BY <1>1, <1>4, <2>3 DEF Filling, Home, data
    <2>6. EnqInv(p)'
      BY <1>1, <1>4, <2>1, <2>3, <2>4, <2>5 DEF EnqInv, data, Seeking, Joining
    <2> QED BY <1>1, <2>6, SilentStep
  <1> QED BY <1>3, <1>4

\* A key is stored in an entry that is free.
LEMMA StoreKeyKeepsIndex ==
  ASSUME IInv, TypeInv, IndexInv, NEW p \in Producers, StoreKey(p) PROVE IndexInv'
  <1>1. PICK e, T : e = Home(p) /\ T = tailIndex[p]
    OBVIOUS
  <1>2. /\ p \in Threads /\ p \notin Consumers /\ OnlyMoves(p) /\ ShapeInv
        /\ EnqInv(p) /\ KeyInv(p) /\ ValueInv(p) /\ LeftInv(p) /\ at[p] = "key" /\ at'[p] = "indexTail"
        /\ my' = my
    BY EnqueueMoves, CqAssumption DEF StoreKey, Goto, Threads, TryEnqueue, IInv, ShapeInv, IndexInv
  <1>3. /\ T \in Nat /\ Num(T) \in Nat /\ e \in Entries /\ e = Ent(Num(T)) /\ Off(T) = 0
        /\ First(Num(T)) = T /\ T # Unused /\ my[p].pos = e /\ value[p][e] = None
    BY <1>1, <1>2, TailFacts DEF EnqInv, Home
  <1>4. /\ key' = [key EXCEPT ![p][e] = T]
        /\ UNCHANGED <<tailIndex, headIndex, current, indexTail, value, slots, emptied>>
    BY <1>1, <1>2, <1>3 DEF StoreKey, counters, contents
  <1>5. \A q \in Producers, i \in Entries : key'[q][i] = IF q = p /\ i = e THEN T ELSE key[q][i]
    BY <1>3, <1>4 DEF TypeInv
  <1>6. \A q \in Producers \ {p} : Untouched(q)
    BY <1>4 DEF Untouched, TypeInv
  <1>7. (\A n : Pending(p, n)' <=> Pending(p, n)) /\ (\A m : Left(p, m)' = Left(p, m))
    BY <1>2, <1>4, PendingSame
  <1>8. EnqInv(p)'
    <2>1. Home(p)' = e /\ ~Filling(p) /\ ~Filling(p)'
      BY <1>1, <1>2, <1>3, <1>4 DEF Home, Filling
    <2> QED BY <1>1, <1>2, <1>3, <1>4, <1>5, <2>1 DEF EnqInv, Seeking, Joining
  <1>9. KeyInv(p)'
    <2>1. \A m \in Nat : First(m) < tailIndex[p] => key'[p][Ent(m)] # Unused
      BY <1>2, <1>3, <1>5, EntFacts DEF KeyInv
    <2> QED BY <1>2, <1>3, <1>4, <1>5, <2>1 DEF KeyInv
  <1>10. ValueInv(p)'
    <2>1. ASSUME NEW n \in Nat, n < tailIndex[p], Pending(p, n)
          PROVE  /\ Holder(p, n) # None /\ key'[p][Ent(Num(n))] = First(Num(n))
                 /\ slots[Holder(p, n)][Off(n)] = <<p, n>>
      <3>1. /\ Holder(p, n) # None /\ key[p][Ent(Num(n))] = First(Num(n))
            /\ slots[Holder(p, n)][Off(n)] = <<p, n>> /\ Ent(Num(n)) \in Entries
        BY <1>2, <2>1, IndexFacts, EntFacts DEF ValueInv
      <3> QED BY <1>3, <1>5, <3>1 DEF Holder
    <2> QED BY <1>4, <1>7, <2>1 DEF ValueInv, Holder
  <1>11. LeftInv(p)'
    <2>1. ASSUME NEW m \in Nat, value[p][Ent(m)] # None PROVE key'[p][Ent(m)] = key[p][Ent(m)]
      BY <1>3, <1>5, <2>1, EntFacts
    <2> QED BY <1>2, <1>4, <1>7, <2>1 DEF LeftInv
  <1>12. ASSUME NEW c \in Consumers, my[c].prod = p
         PROVE  /\ at[c] = "entry" => key'[p][my[c].pos] # Unused
                /\ at[c] = "forget" => key'[p][my[c].pos] = key[p][my[c].pos]
    <2>1. at[c] = "forget" => my[c].pos \in Entries /\ value[p][my[c].pos] \in Block
      BY <1>12, ForgetFacts
    <2>2. my[c].pos \in Entries /\ DeqInv(c)
      BY DEF TypeInv, LocalType, Threads, IndexInv
    <2> QED BY <1>3, <1>5, <1>12, <2>1, <2>2 DEF DeqInv, None, Block
  <1>13. \A q \in Producers \ {p} : emptied'[my[q].block] \in {0, emptied[my[q].block]}
    BY <1>4
  <1> QED BY <1>2, <1>4, <1>6, <1>8, <1>9, <1>10, <1>11, <1>12, <1>13, ProducerStep

\* The tail of the index moves to the entry for the tail's block, or back.
LEMMA TailEntryKeepsIndex ==
  ASSUME IInv, TypeInv, IndexInv, NEW p \in Producers, StoreIndexTail(p) \/ Rewind(p)
  PROVE  IndexInv'
  <1>1. PICK e, T : e = Home(p) /\ T = tailIndex[p]
    OBVIOUS
  <1>2. /\ p \in Threads /\ p \notin Consumers /\ OnlyMoves(p) /\ ShapeInv
        /\ EnqInv(p) /\ KeyInv(p) /\ ValueInv(p) /\ LeftInv(p)
        /\ my' = my /\ headIndex' = headIndex
        /\ UNCHANGED <<tailIndex, headIndex, current, key, value, slots, emptied>>
    BY EnqueueMoves, CqAssumption
       DEF StoreIndexTail, Rewind, Threads, TryEnqueue, IInv, IndexInv, counters, contents
  <1>3. /\ T \in Nat /\ Num(T) \in Nat /\ e \in Entries /\ e = Ent(Num(T)) /\ Off(T) = 0
        /\ my[p].pos = e /\ value[p][e] = None /\ key[p][e] = First(Num(T)) /\ ~Filling(p)
        /\ at[p] \in {"indexTail", "rewind"}
    BY <1>1, <1>2, TailFacts DEF EnqInv, Home, StoreIndexTail, Rewind, Seeking, Filling
  <1>4. \A q \in Producers \ {p} : Untouched(q)
    BY <1>2 DEF Untouched, TypeInv, StoreIndexTail, Rewind
  <1>5. (\A n : Pending(p, n)' <=> Pending(p, n)) /\ (\A m : Left(p, m)' = Left(p, m))
    BY <1>2, PendingSame
  <1>6. KeyInv(p)' /\ ValueInv(p)' /\ LeftInv(p)'
    BY <1>2, <1>5 DEF KeyInv, ValueInv, Holder, LeftInv
  <1>7. CASE StoreIndexTail(p)
    <2>1. /\ at[p] = "indexTail" /\ at'[p] \in {"pool", "get"} /\ indexTail'[p] = e
      BY <1>2, <1>3, <1>7 DEF StoreIndexTail, Goto, ShapeInv, TypeInv
    <2>2. Home(p)' = e /\ ~Filling(p)'
      BY <1>1, <1>2, <1>3, <2>1 DEF Home, Filling
    <2>3. EnqInv(p)'
      BY <1>1, <1>2, <1>3, <2>1, <2>2 DEF EnqInv, Seeking, Joining
    <2> QED BY <1>2, <1>4, <1>6, <2>3, ProducerStep DEF IndexInv, DeqInv
  <1>8. CASE Rewind(p)
    <2>1. /\ at[p] = "rewind" /\ at'[p] = "rewound"
          /\ indexTail'[p] = (indexTail[p] + IndexSize - 1) % IndexSize
      BY <1>2, <1>8 DEF Rewind, Goto, ShapeInv, TypeInv
    <2>2. indexTail[p] = e
      BY <1>1, <1>2, <2>1 DEF EnqInv, Seeking
    <2>3. indexTail'[p] = Ent(Num(T) + IndexSize - 1)
      BY <1>3, <2>1, <2>2, EntFacts
    <2>4. Home(p)' = e /\ ~Filling(p)'
      BY <1>1, <1>2, <1>3, <2>1 DEF Home, Filling
    <2>5. EnqInv(p)'
      BY <1>1, <1>2, <1>3, <2>1, <2>3, <2>4 DEF EnqInv, Seeking, Joining
    <2> QED BY <1>2, <1>4, <1>6, <2>5, ProducerStep DEF IndexInv, DeqInv
  <1> QED BY <1>7, <1>8 DEF StoreIndexTail, Rewind

\* The entry given back is free already.
LEMMA RewoundKeepsIndex ==
  ASSUME IInv, TypeInv, IndexInv, NEW p \in Producers, Rewound(p) PROVE IndexInv'
  <1>1. PICK e, T : e = Home(p) /\ T = tailIndex[p]
    OBVIOUS
  <1>2. /\ p \in Threads /\ p \notin Consumers /\ OnlyMoves(p) /\ ShapeInv
        /\ EnqInv(p) /\ at[p] = "rewound" /\ at'[p] = "idle"
    BY EnqueueMoves, CqAssumption DEF Rewound, Return, Goto, Threads, TryEnqueue, IInv, ShapeInv, IndexInv
  <1>3. Off(T) = 0 /\ my[p].pos = e /\ value[p][e] = None /\ e \in Entries /\ ~Filling(p)
    BY <1>1, <1>2, TailFacts DEF EnqInv, Filling
  <1>4. value' = value
    <2>1. value' = [value EXCEPT ![p][e] = None]
      BY <1>2, <1>3 DEF Rewound
    <2> QED BY <1>3, <2>1 DEF TypeInv
  <1>5. UNCHANGED data
    BY <1>4 DEF Rewound, counters, contents, data
  <1>6. Home(p)' = e /\ ~Filling(p)'
    BY <1>1, <1>2, <1>3, <1>5 DEF Home, Filling, data
  <1>7. EnqInv(p)'
    BY <1>1, <1>2, <1>3, <1>5, <1>6 DEF EnqInv, Seeking, Joining, data
  <1> QED BY <1>2, <1>5, <1>7, SilentStep

\* A block in hand is no entry's, so none counts what is taken out of it.
LEMMA ResetBlockKeepsIndex ==
  ASSUME IInv, TypeInv, OneEntry, IndexInv, NEW p \in Producers, ResetBlock(p) PROVE IndexInv'
  <1>1. PICK b : b = my[p].block
    OBVIOUS
  <1>2. /\ p \in Threads /\ p \notin Consumers /\ OnlyMoves(p) /\ ShapeInv
        /\ EnqInv(p) /\ KeyInv(p) /\ ValueInv(p) /\ LeftInv(p) /\ at[p] = "reset" /\ at'[p] = "value"
        /\ my' = my
    BY EnqueueMoves, CqAssumption DEF ResetBlock, Goto, Threads, TryEnqueue, IInv, ShapeInv, IndexInv
  <1>3. /\ emptied' = [emptied EXCEPT ![b] = 0] /\ b \in Block
        /\ UNCHANGED <<tailIndex, headIndex, current, indexTail, key, value, slots>>
    BY <1>1, <1>2 DEF ResetBlock, counters, index, TypeInv, Known
  <1>4. \A a \in Block : emptied'[a] = IF a = b THEN 0 ELSE emptied[a]
    BY <1>3 DEF TypeInv
  <1>5. ASSUME NEW q \in Producers, NEW m \in Nat, value[q][Ent(m)] # None
        PROVE  emptied'[value[q][Ent(m)]] = emptied[value[q][Ent(m)]]
    <2>1. Ent(m) \in Entries
      BY EntFacts
    <2>2. value[q][Ent(m)] \in Block /\ value[q][Ent(m)] # b
      BY <1>1, <1>2, <1>5, <2>1 DEF OneEntry, TypeInv, Link
    <2> QED BY <1>4, <2>2
  <1>6. \A q \in Producers : Untouched(q)
    BY <1>3 DEF Untouched
  <1>7. (\A n : Pending(p, n)' <=> Pending(p, n)) /\ (\A m : Left(p, m)' = Left(p, m))
    BY <1>2, <1>3, PendingSame
  <1>8. KeyInv(p)' /\ ValueInv(p)' /\ LeftInv(p)'
    BY <1>2, <1>3, <1>5, <1>6, <1>7, IndexUntouched
  <1>9. EnqInv(p)'
    <2>1. Home(p)' = Home(p) /\ ~Filling(p) /\ ~Filling(p)'
      BY <1>2, <1>3 DEF Home, Filling, EnqInv, Seeking
    <2>2. emptied'[my'[p].block] = 0
      BY <1>1, <1>2, <1>3, <1>4
    <2> QED BY <1>2, <1>3, <2>1, <2>2 DEF EnqInv, Seeking, Joining
  <1>10. ASSUME NEW q \in Producers, at[q] = "value"
        PROVE  emptied'[my[q].block] \in {0, emptied[my[q].block]}
    <2>1. my[q].block \in Block
      BY <1>10 DEF TypeInv, Known, Threads
    <2> QED BY <1>4, <2>1
  <1> QED BY <1>2, <1>3, <1>5, <1>6, <1>8, <1>9, <1>10, ProducerStep DEF IndexInv, DeqInv

\* What a consumer knows of an entry that holds no block.
LEMMA EmptyEntryFacts ==
  ASSUME IInv, TypeInv, IndexInv, NEW p \in Producers, NEW e \in Entries, value[p][e] = None,
         NEW c \in Consumers, my[c].prod = p, at[c] \in {"empty", "forget"}
  PROVE  my[c].pos # e
  <1> DEFINE n == my[c].idx
  <1>1. CASE at[c] = "empty"
    <2>1. at[c] \in Claimed /\ Holder(p, n) \in Block /\ my[c].pos = Ent(Num(n))
      BY <1>1, ClaimedFacts DEF IndexInv, DeqInv, Claimed
    <2> QED BY <2>1 DEF Holder, Block, None
  <1>2. CASE at[c] = "forget"
    BY <1>2, ForgetFacts DEF Block, None
  <1> QED BY <1>1, <1>2

\* The block enters the index for the tail's block, none of whose values is
\* enqueued yet: all are pending, and none is taken out.
LEMMA StoreValueKeepsIndex ==
  ASSUME IInv, TypeInv, IndexInv, NEW p \in Producers, StoreValue(p) PROVE IndexInv'
  <1>1. PICK e, T, b : e = Home(p) /\ T = tailIndex[p] /\ b = my[p].block
    OBVIOUS
  <1>2. /\ p \in Threads /\ p \notin Consumers /\ OnlyMoves(p) /\ ShapeInv
        /\ EnqInv(p) /\ KeyInv(p) /\ ValueInv(p) /\ LeftInv(p) /\ at[p] = "value" /\ at'[p] = "write"
        /\ my' = my
    BY EnqueueMoves, CqAssumption DEF StoreValue, Goto, Threads, TryEnqueue, IInv, ShapeInv, IndexInv
  <1>3. /\ T \in Nat /\ Num(T) \in Nat /\ e \in Entries /\ e = Ent(Num(T)) /\ Off(T) = 0
        /\ First(Num(T)) = T /\ T # Unused /\ my[p].pos = e /\ value[p][e] = None
        /\ key[p][e] = T /\ indexTail[p] = e /\ emptied[b] = 0 /\ b \in Block
    BY <1>1, <1>2, TailFacts DEF EnqInv, Home, Seeking, TypeInv, Known
  <1>4. /\ value' = [value EXCEPT ![p][e] = b] /\ current' = [current EXCEPT ![p] = b]
        /\ UNCHANGED <<tailIndex, headIndex, indexTail, key, slots, emptied>>
    BY <1>1, <1>2, <1>3 DEF StoreValue, contents
  <1>5. \A q \in Producers, i \in Entries : value'[q][i] = IF q = p /\ i = e THEN b ELSE value[q][i]
    BY <1>3, <1>4 DEF TypeInv
  <1>6. \A q \in Producers \ {p} : Untouched(q)
    BY <1>4 DEF Untouched, TypeInv
  <1>7. (\A n : Pending(p, n)' <=> Pending(p, n)) /\ (\A m : Left(p, m)' = Left(p, m))
    BY <1>2, <1>4, PendingSame
  <1>8. EnqInv(p)'
    <2>1. Home(p)' = e /\ Filling(p)' /\ current'[p] = b
      BY <1>1, <1>2, <1>3, <1>4 DEF Home, Filling, TypeInv
    <2> QED BY <1>1, <1>2, <1>3, <1>4, <1>5, <2>1 DEF EnqInv, Seeking, Joining
  <1>9. KeyInv(p)'
    BY <1>2, <1>3, <1>4, <1>5 DEF KeyInv
  <1>10. ValueInv(p)'
    <2>1. ASSUME NEW n \in Nat, n < tailIndex[p], Pending(p, n)
          PROVE  /\ value'[p][Ent(Num(n))] # None /\ key[p][Ent(Num(n))] = First(Num(n))
                 /\ slots[value'[p][Ent(Num(n))]][Off(n)] = <<p, n>>
      <3>1. /\ Holder(p, n) # None /\ key[p][Ent(Num(n))] = First(Num(n))
            /\ slots[Holder(p, n)][Off(n)] = <<p, n>> /\ Ent(Num(n)) \in Entries
        BY <1>2, <2>1, IndexFacts, EntFacts DEF ValueInv
      <3> QED BY <1>3, <1>5, <3>1 DEF Holder
    <2> QED BY <1>4, <1>7, <2>1 DEF ValueInv, Holder
  <1>11. LeftInv(p)'
    <2>1. ASSUME NEW m \in Nat, Ent(m) # e PROVE value'[p][Ent(m)] = value[p][Ent(m)]
      BY <1>5, <2>1, EntFacts
    <2>2. ASSUME NEW m \in Nat, Ent(m) = e, key[p][Ent(m)] = First(m)
          PROVE  emptied[value'[p][Ent(m)]] + Cardinality(Left(p, m)) = BlockSize
      <3>1. m = Num(T)
        BY <1>3, <2>2, FirstFacts
      <3>2. ASSUME NEW n \in Nat, Num(n) = m PROVE Pending(p, n)
        <4>1. n = T + Off(n) /\ Off(n) \in Nat
          BY <1>3, <3>1, <3>2, IndexFacts DEF Off
        <4>2. n >= headIndex[p]
          BY <1>1, <4>1, HeadBelowTail
        <4> QED BY <4>2 DEF Pending
      <3>3. Left(p, m) = {n \in Nat : Num(n) = m}
        BY <3>2 DEF Left
      <3>4. Cardinality(Left(p, m)) = BlockSize
        BY <3>3, WholeBlock
      <3>5. value'[p][Ent(m)] = b
        BY <1>3, <1>5, <2>2
      <3> QED BY <1>3, <3>4, <3>5, CqAssumption
    <2> QED BY <1>2, <1>4, <1>7, <2>1, <2>2 DEF LeftInv
  <1>12. ASSUME NEW c \in Consumers, my[c].prod = p
         PROVE  /\ at[c] = "entry" => key'[p][my[c].pos] # Unused
                /\ at[c] \in {"empty", "forget"} => value'[p][my[c].pos] = value[p][my[c].pos]
    <2>1. my[c].pos \in Entries /\ DeqInv(c)
      BY DEF TypeInv, LocalType, Threads, IndexInv
    <2>2. at[c] \in {"empty", "forget"} => my[c].pos # e
      BY <1>3, <1>12, EmptyEntryFacts
    <2> QED BY <1>4, <1>5, <1>12, <2>1, <2>2 DEF DeqInv
  <1> QED BY <1>2, <1>4, <1>6, <1>8, <1>9, <1>10, <1>11, <1>12, ProducerStep

\* The value is written where no pending index of any producer is.
LEMMA WriteKeepsIndex ==
  ASSUME IInv, TypeInv, OneEntry, IndexInv, NEW p \in Producers, Write(p) PROVE IndexInv'
  <1>1. PICK e, T, b, o : e = Home(p) /\ T = tailIndex[p] /\ b = current[p] /\ o = Off(T)
    OBVIOUS
  <1>2. /\ p \in Threads /\ p \notin Consumers /\ OnlyMoves(p) /\ ShapeInv
        /\ EnqInv(p) /\ KeyInv(p) /\ ValueInv(p) /\ LeftInv(p) /\ at[p] = "write" /\ at'[p] = "publish"
        /\ my' = my
    BY EnqueueMoves, CqAssumption DEF Write, Goto, Threads, TryEnqueue, IInv, ShapeInv, IndexInv
  <1>3. /\ T \in Nat /\ Num(T) \in Nat /\ e \in Entries /\ e = Ent(Num(T)) /\ o \in 0 .. BlockSize - 1
        /\ Filling(p) /\ value[p][e] = b /\ key[p][e] = First(Num(T)) /\ b \in Block
    BY <1>1, <1>2, TailFacts, IndexFacts DEF EnqInv, Home, Filling
  <1>4. /\ slots' = [slots EXCEPT ![b][o] = <<p, T>>]
        /\ UNCHANGED <<tailIndex, headIndex, current, indexTail, key, value, emptied>>
    BY <1>1, <1>2 DEF Write, counters, index, Off
  <1>5. \A a \in Block, i \in 0 .. BlockSize - 1 :
          slots'[a][i] = IF a = b /\ i = o THEN <<p, T>> ELSE slots[a][i]
    BY <1>3, <1>4 DEF TypeInv
  <1>6. \A q \in Producers : Untouched(q)
    BY <1>4 DEF Untouched
  <1>7. (\A n : Pending(p, n)' <=> Pending(p, n)) /\ (\A m : Left(p, m)' = Left(p, m))
    BY <1>2, <1>4, PendingSame
  <1>8. ASSUME NEW q \in Producers, NEW n \in Nat, n < tailIndex[q], Pending(q, n)
        PROVE  slots'[Holder(q, n)][Off(n)] = slots[Holder(q, n)][Off(n)]
    <2>1. /\ Holder(q, n) # None /\ key[q][Ent(Num(n))] = First(Num(n)) /\ Ent(Num(n)) \in Entries
          /\ Off(n) \in 0 .. BlockSize - 1 /\ Num(n) \in Nat
      BY <1>8, IndexFacts, EntFacts DEF IndexInv, ValueInv
    <2>2. Holder(q, n) \in Block
      BY <2>1 DEF Holder, TypeInv, Link
    <2>3. CASE Holder(q, n) # b
      BY <1>5, <2>1, <2>2, <2>3
    <2>4. CASE Holder(q, n) = b
      <3>1. q = p /\ Ent(Num(n)) = e
        BY <1>3, <2>1, <2>4 DEF OneEntry, Holder
      <3>2. Num(n) = Num(T)
        BY <1>3, <2>1, <3>1, FirstFacts
      <3>3. Off(n) # o
        BY <1>1, <1>3, <1>8, <3>1, <3>2, SameIndex
      <3> QED BY <1>5, <2>1, <2>2, <3>3
    <2> QED BY <2>3, <2>4
  <1>9. KeyInv(p)' /\ ValueInv(p)' /\ LeftInv(p)'
    BY <1>2, <1>4, <1>6, <1>7, <1>8, IndexUntouched
  <1>10. EnqInv(p)'
    <2>1. Home(p)' = e /\ Filling(p)' /\ slots'[b][o] = <<p, T>>
      BY <1>1, <1>2, <1>3, <1>4, <1>5 DEF Home, Filling
    <2> QED BY <1>1, <1>2, <1>3, <1>4, <2>1 DEF EnqInv, Seeking, Joining
  <1>11. ASSUME NEW q \in Producers \ {p}, at[q] = "publish"
        PROVE  slots'[current[q]][Off(tailIndex[q])] = slots[current[q]][Off(tailIndex[q])]
    <2>1. /\ current[q] \in Block /\ value[q][Home(q)] = current[q] /\ Home(q) \in Entries
          /\ Off(tailIndex[q]) \in 0 .. BlockSize - 1
      BY <1>11, TailFacts, IndexFacts DEF IndexInv, EnqInv, Filling
    <2>2. current[q] # b
      BY <1>3, <2>1 DEF OneEntry, Block, None
    <2> QED BY <1>5, <2>1, <2>2
  <1> QED BY <1>2, <1>4, <1>6, <1>8, <1>9, <1>10, <1>11, ProducerStep DEF IndexInv, DeqInv

\* The value at the tail is there when the tail passes it.
LEMMA PublishKeepsIndex ==
  ASSUME IInv, TypeInv, IndexInv, NEW p \in Producers, Publish(p) PROVE IndexInv'
  <1>1. PICK e, T, k : e = Home(p) /\ T = tailIndex[p] /\ k = T + 1
    OBVIOUS
  <1>2. /\ p \in Threads /\ p \notin Consumers /\ OnlyMoves(p) /\ ShapeInv
        /\ EnqInv(p) /\ KeyInv(p) /\ ValueInv(p) /\ LeftInv(p) /\ at[p] = "publish" /\ at'[p] = "idle"
    BY EnqueueMoves, CqAssumption DEF Publish, Return, Goto, Threads, TryEnqueue, IInv, ShapeInv, IndexInv
  <1>3. /\ T \in Nat /\ Num(T) \in Nat /\ e \in Entries /\ e = Ent(Num(T)) /\ Filling(p)
        /\ value[p][e] = current[p] /\ key[p][e] = First(Num(T)) /\ current[p] \in Block
        /\ slots[current[p]][Off(T)] = <<p, T>> /\ indexTail[p] = e /\ First(Num(T)) # Unused
    BY <1>1, <1>2, TailFacts DEF EnqInv, Home, Filling
  <1>4. /\ tailIndex'[p] = k /\ k \in Nat
        /\ UNCHANGED <<headIndex, current, indexTail, key, value, slots, emptied>>
    BY <1>1, <1>2, <1>3 DEF Publish, index, contents, ShapeInv
  <1>5. \A q \in Producers \ {p} : Untouched(q)
    BY <1>2, <1>4 DEF Untouched, Publish, ShapeInv
  <1>6. (\A n : Pending(p, n)' <=> Pending(p, n)) /\ (\A m : Left(p, m)' = Left(p, m))
    BY <1>2, <1>4, PendingSame
  <1>7. EnqInv(p)'
    <2>1. Filling(p)' <=> Off(k) # 0
      BY <1>2, <1>4 DEF Filling
    <2>2. Home(p)' = Ent(Num(k))
      BY <1>4 DEF Home
    <2>3. CASE Off(k) # 0
      <3>1. Num(k) = Num(T)
        BY <1>1, <1>3, <2>3, NextIndex
      <3> QED BY <1>2, <1>3, <1>4, <2>1, <2>2, <2>3, <3>1 DEF EnqInv, Seeking, Joining
    <2>4. CASE Off(k) = 0
      <3>1. Num(k) = Num(T) + 1
        BY <1>1, <1>3, <2>4, NextIndex
      <3>2. Ent(Num(k) + IndexSize - 1) = e
        BY <1>3, <3>1, EntFacts
      <3> QED BY <1>2, <1>3, <1>4, <2>1, <2>4, <3>2 DEF EnqInv, Seeking, Joining
    <2> QED BY <2>3, <2>4
  <1>8. KeyInv(p)'
    <2>1. ASSUME NEW m \in Nat, First(m) < k PROVE key[p][Ent(m)] # Unused
      <3>1. First(m) \in Nat /\ Num(First(m)) = m
        BY FirstFacts
      <3>2. First(m) < T \/ First(m) = T
        BY <1>1, <1>3, <2>1, <3>1
      <3> QED BY <1>1, <1>2, <1>3, <3>1, <3>2 DEF KeyInv
    <2> QED BY <1>2, <1>4, <2>1 DEF KeyInv
  <1>9. ValueInv(p)'
    <2>1. ASSUME NEW n \in Nat, n < k, Pending(p, n)
          PROVE  /\ Holder(p, n) # None /\ key[p][Ent(Num(n))] = First(Num(n))
                 /\ slots[Holder(p, n)][Off(n)] = <<p, n>>
      <3>1. n < T \/ n = T
        BY <1>1, <1>3, <2>1
      <3> QED BY <1>1, <1>2, <1>3, <2>1, <3>1 DEF ValueInv, Holder, None, Block
    <2> QED BY <1>4, <1>6, <2>1 DEF ValueInv, Holder
  <1>10. LeftInv(p)'
    BY <1>2, <1>4, <1>6 DEF LeftInv
  <1> QED BY <1>2, <1>4, <1>5, <1>7, <1>8, <1>9, <1>10, ProducerStep DEF IndexInv, DeqInv

LEMMA EnqueueKeepsIndex ==
  ASSUME IInv, TypeInv, ListInv, IndexInv, NEW p \in Producers, TryEnqueue(p) PROVE IndexInv'
  <1>1. OneEntry /\ ShapeInv
    BY ListsGiveOneEntry DEF IInv
  <1> QED BY <1>1, GetKeepsIndex, BeginEnqueueKeepsIndex, StoreKeyKeepsIndex, TailEntryKeepsIndex,
             RewoundKeepsIndex, ResetBlockKeepsIndex, StoreValueKeepsIndex, WriteKeepsIndex,
             PublishKeepsIndex
          DEF TryEnqueue

-----------------------------------------------------------------------------
(* The steps of a consumer.                                                *)

\* Before it claims an index, and after it emptied an entry, it knows nothing
\* of the index.
LEMMA AsideKeepsIndex ==
  ASSUME IndexInv, NEW c \in Consumers, OnlyMoves(c), UNCHANGED data,
         at[c] \notin Claimed, at'[c] \notin Claimed \cup {"forget"}
  PROVE  IndexInv'
  <1>1. c \in Threads /\ c \notin Producers
    BY CqAssumption DEF Threads
  <1>2. DeqInv(c)'
    BY DEF DeqInv, Claimed
  <1>3. \A p, n : ~Taking(c, p, n) /\ ~Taking(c, p, n)'
    BY DEF Taking
  <1> QED BY <1>1, <1>2, <1>3, SilentStep

LEMMA BeforeClaimKeepsIndex ==
  ASSUME IInv, IndexInv, NEW c \in Consumers, NEW p \in Producers,
         \/ LoadTail(c, p) \/ LoadOvercommit(c, p) \/ Look(c, p)
         \/ Commit(c, p) \/ Check(c, p) \/ Undo(c, p)
  PROVE  IndexInv'
  <1>1. OnlyMoves(c) /\ ShapeInv /\ c \in Threads
    BY DequeueMoves DEF TryDequeue, IInv, Threads
  <1>2. UNCHANGED data
    BY DEF LoadTail, LoadOvercommit, Look, Commit, Check, Undo, counters, index, contents, data
  <1>3. at[c] \notin Claimed
    BY DEF LoadTail, LoadOvercommit, Look, Commit, Check, Undo, Claimed
  <1>4. at'[c] \notin Claimed \cup {"forget"}
    BY <1>1 DEF LoadTail, LoadOvercommit, Look, Commit, Check, Undo, Return, Goto, Claimed, ShapeInv
  <1> QED BY <1>1, <1>2, <1>3, <1>4, AsideKeepsIndex

LEMMA ConsumerAddKeepsIndex ==
  ASSUME IInv, IndexInv, NEW c \in Consumers, AddToFreeList(c) PROVE IndexInv'
  <1>1. OnlyMoves(c) /\ ShapeInv /\ c \in Threads /\ c \notin Producers
    BY AddMoves, CqAssumption DEF IInv, Threads
  <1>2. UNCHANGED data
    BY DEF AddToFreeList, Add, AddLoad, AddNext, AddRefs, AddCas, AddAgain,
           counters, index, contents, freeList, data
  <1>3. at[c] \notin Claimed
    BY DEF AddToFreeList, Add, AddLoad, AddNext, AddRefs, AddCas, AddAgain, Claimed
  <1>4. \E l \in Joining \cup {"idle"} : Goto(c, l)
    BY <1>1 DEF AddToFreeList, Add, AddLoad, AddNext, AddRefs, AddCas, AddAgain, Added, Return, Joining
  <1>5. at'[c] \notin Claimed \cup {"forget"}
    BY <1>1, <1>4 DEF Goto, ShapeInv, Joining, Claimed
  <1> QED BY <1>1, <1>2, <1>3, <1>5, AsideKeepsIndex

\* The entry at the index's tail has a key: there is a value, so a block.
LEMMA FindKeepsIndex ==
  ASSUME IInv, TypeInv, IndexInv, NEW c \in Consumers, NEW p \in Producers, Find(c, p)
  PROVE  IndexInv'
  <1>1. PICK n, x, T : n = my[c].idx /\ x = indexTail[p] /\ T = tailIndex[p]
    OBVIOUS
  <1>2. /\ OnlyMoves(c) /\ ShapeInv /\ c \in Threads /\ c \notin Producers /\ UNCHANGED data
        /\ DeqInv(c)
    BY DequeueMoves, CqAssumption
       DEF TryDequeue, IInv, IndexInv, Threads, Find, counters, index, contents, data
  <1>3. /\ at[c] = "find" /\ at'[c] = "entry" /\ my[c].prod = p
        /\ my'[c].prod = p /\ my'[c].idx = n /\ my'[c].pos = x
    BY <1>2, <1>1 DEF Find, Goto, ShapeInv, Fields
  <1>4. /\ n \in Nat /\ n < headIndex[p] /\ n < T /\ T \in Nat /\ Num(T) \in Nat
        /\ First(Num(T)) # Unused /\ EnqInv(p) /\ KeyInv(p)
    BY <1>1, <1>2, <1>3, ClaimedFacts, TailFacts DEF Claimed, IndexInv
  <1>5. key[p][x] # Unused
    <2>1. CASE at[p] \in Seeking \/ Filling(p)
      BY <1>1, <1>4, <2>1 DEF EnqInv
    <2>2. CASE ~(at[p] \in Seeking \/ Filling(p))
      <3>1. Off(T) = 0 /\ x = Ent(Num(T) + IndexSize - 1)
        BY <1>1, <1>4, <2>2 DEF EnqInv, Filling
      <3>2. PICK m \in Nat : m = Num(T) - 1 /\ First(m) < T
        BY <1>4, <3>1, LastBlock
      <3>3. Num(T) > 0
        BY <1>4, <3>2
      <3>4. x = Ent(m)
        BY <1>4, <3>1, <3>2, <3>3, EntFacts
      <3> QED BY <1>1, <1>4, <3>2, <3>4 DEF KeyInv
    <2> QED BY <2>1, <2>2
  <1>6. DeqInv(c)'
    BY <1>2, <1>3, <1>4, <1>5 DEF DeqInv, Claimed, data
  <1>7. \A q, k : Taking(c, q, k)' <=> Taking(c, q, k)
    BY <1>1, <1>2, <1>3 DEF Taking, Claimed
  <1> QED BY <1>2, <1>3, <1>6, <1>7, SilentStep

\* From any entry with a key the index's own entry is found.
LEMMA EntryKeepsIndex ==
  ASSUME IInv, TypeInv, IndexInv, NEW c \in Consumers, NEW p \in Producers, Entry(c, p)
  PROVE  IndexInv'
  <1>1. PICK n, x : n = my[c].idx /\ x = my[c].pos
    OBVIOUS
  <1>2. /\ OnlyMoves(c) /\ ShapeInv /\ c \in Threads /\ c \notin Producers /\ UNCHANGED data
        /\ DeqInv(c)
    BY DequeueMoves, CqAssumption
       DEF TryDequeue, IInv, IndexInv, Threads, Entry, counters, index, contents, data
  <1>3. /\ at[c] = "entry" /\ at'[c] = "take" /\ my[c].prod = p /\ my'[c].prod = p /\ my'[c].idx = n
        /\ my'[c].pos = (x - ((key[p][x] - Base(n)) \div BlockSize)) % IndexSize
    BY <1>2, <1>1 DEF Entry, Goto, ShapeInv, Fields
  <1>4. n \in Nat /\ n < headIndex[p] /\ x \in Entries /\ key[p][x] # Unused /\ KeyInv(p)
    BY <1>1, <1>2, <1>3, ClaimedFacts DEF Claimed, IndexInv, DeqInv, TypeInv, LocalType
  <1>5. PICK m \in Nat : key[p][x] = First(m) /\ Ent(m) = x
    BY <1>4 DEF KeyInv
  <1>6. my'[c].pos = Ent(Num(n))
    BY <1>2, <1>3, <1>4, <1>5, EntryFacts
  <1>7. DeqInv(c)'
    BY <1>2, <1>3, <1>4, <1>6 DEF DeqInv, Claimed, data
  <1>8. \A q, k : Taking(c, q, k)' <=> Taking(c, q, k)
    BY <1>1, <1>2, <1>3 DEF Taking, Claimed
  <1> QED BY <1>2, <1>3, <1>7, <1>8, SilentStep

LEMMA TakeKeepsIndex ==
  ASSUME IInv, TypeInv, IndexInv, NEW c \in Consumers, NEW p \in Producers, Take(c, p)
  PROVE  IndexInv'
  <1>1. PICK n, e, b : n = my[c].idx /\ e = my[c].pos /\ b = value[p][e]
    OBVIOUS
  <1>2. /\ OnlyMoves(c) /\ ShapeInv /\ c \in Threads /\ c \notin Producers /\ UNCHANGED data
        /\ DeqInv(c)
    BY DequeueMoves, CqAssumption
       DEF TryDequeue, IInv, IndexInv, Threads, Take, counters, index, contents, data
  <1>3. /\ at[c] = "take" /\ at'[c] = "empty" /\ my[c].prod = p
        /\ my'[c].prod = p /\ my'[c].idx = n /\ my'[c].pos = e /\ my'[c].block = b
        /\ my'[c].got = IF b = None THEN Free ELSE slots[b][Off(n)]
    BY <1>2, <1>1 DEF Take, Goto, ShapeInv, Fields, Off
  <1>4. n < headIndex[p] /\ Holder(p, n) \in Block /\ slots[Holder(p, n)][Off(n)] = <<p, n>>
    <2>1. at[c] \in Claimed
      BY <1>2, <1>3 DEF Claimed
    <2> QED BY <1>1, <1>2, <1>3, <2>1, ClaimedFacts
  <1>5. e = Ent(Num(n)) /\ b = Holder(p, n)
    BY <1>1, <1>2, <1>3, <1>4 DEF DeqInv, Holder
  <1>6. my'[c].got = <<p, n>>
    BY <1>2, <1>3, <1>4, <1>5 DEF Block, None
  <1>7. DeqInv(c)'
    BY <1>1, <1>2, <1>3, <1>4, <1>5, <1>6 DEF DeqInv, Claimed, data
  <1>8. \A q, k : Taking(c, q, k)' <=> Taking(c, q, k)
    BY <1>1, <1>2, <1>3 DEF Taking, Claimed
  <1> QED BY <1>2, <1>3, <1>7, <1>8, SilentStep

\* The index at the head was pending and is now because the consumer takes it;
\* the others that take one of the producer took an earlier one.
LEMMA ClaimKeepsIndex ==
  ASSUME IInv, TypeInv, IndexInv, NEW c \in Consumers, NEW p \in Producers, Claim(c, p)
  PROVE  IndexInv'
  <1>1. PICK h : h = headIndex[p]
    OBVIOUS
  <1>2. OnlyMoves(c) /\ ShapeInv /\ c \in Threads /\ c \notin Producers
    BY DequeueMoves, CqAssumption DEF TryDequeue, IInv, Threads
  <1>3. /\ at[c] = "claim" /\ at'[c] = "find" /\ my[c].prod = p /\ my'[c].prod = p /\ my'[c].idx = h
        /\ UNCHANGED <<tailIndex, current, indexTail, key, value, slots, emptied>>
        /\ h \in Nat /\ headIndex' = [headIndex EXCEPT ![p] = h + 1]
    BY <1>2, <1>1 DEF Claim, Goto, ShapeInv, Fields, index, contents
  <1>4. /\ headIndex'[p] = h + 1 /\ \A q \in Producers \ {p} : headIndex'[q] = headIndex[q]
        /\ headIndex \in [Producers -> Nat]
    BY <1>2, <1>3 DEF ShapeInv
  <1>5. \A q, n : ~Taking(c, q, n) /\ (Taking(c, q, n)' <=> q = p /\ n = h)
    BY <1>3 DEF Taking, Claimed
  <1>6. \A q \in Producers \ {p} :
          (\A n : Pending(q, n)' <=> Pending(q, n)) /\ (\A m : Left(q, m)' = Left(q, m))
    BY <1>2, <1>4, <1>5, PendingSame
  <1>7. (\A n \in Nat : Pending(p, n)' <=> Pending(p, n)) /\ (\A m : Left(p, m)' = Left(p, m))
    <2>1. ASSUME NEW n \in Nat PROVE Pending(p, n)' <=> Pending(p, n)
      <3>1. n >= headIndex'[p] \/ n = h <=> n >= headIndex[p]
        BY <1>1, <1>3, <1>4
      <3>2. ASSUME NEW d \in Consumers \ {c} PROVE Taking(d, p, n)' <=> Taking(d, p, n)
        BY <1>2 DEF Taking, OnlyMoves, Threads
      <3> QED BY <1>5, <3>1, <3>2 DEF Pending
    <2> QED BY <2>1 DEF Left
  <1>8. ASSUME NEW q \in Producers
        PROVE  EnqInv(q)' /\ KeyInv(q)' /\ ValueInv(q)' /\ LeftInv(q)'
    <2>1. EnqInv(q) /\ KeyInv(q) /\ ValueInv(q) /\ LeftInv(q) /\ at'[q] = at[q] /\ my'[q] = my[q]
      BY <1>2 DEF IndexInv, OnlyMoves, Threads
    <2>2. (\A n \in Nat : Pending(q, n)' <=> Pending(q, n)) /\ (\A m : Left(q, m)' = Left(q, m))
      BY <1>6, <1>7
    <2>3. KeyInv(q)' /\ ValueInv(q)' /\ LeftInv(q)'
      BY <1>3, <2>1, <2>2 DEF KeyInv, ValueInv, Holder, LeftInv
    <2>4. EnqInv(q)'
      BY <1>3, <2>1 DEF EnqInv, Filling, Home
    <2> QED BY <2>3, <2>4
  <1>9. ASSUME NEW d \in Consumers \ {c} PROVE at'[d] = at[d] /\ my'[d] = my[d] /\ DeqInv(d)'
    <2>1. at'[d] = at[d] /\ my'[d] = my[d] /\ DeqInv(d) /\ my[d].idx \in Nat
      BY <1>2 DEF OnlyMoves, Threads, IndexInv, TypeInv, LocalType
    <2>2. PICK q, e : q = my[d].prod /\ e = my[d].pos
      OBVIOUS
    <2>3. at[d] \in Claimed \cup {"forget"} => q \in Producers
      BY <2>1, <2>2 DEF DeqInv
    <2>4. at[d] = "forget" => \A m : Left(q, m)' \subseteq Left(q, m)
      BY <1>6, <1>7, <2>3
    <2>5. at[d] \in Claimed => my[d].idx < headIndex'[q]
      BY <1>1, <1>3, <1>4, <2>1, <2>2, <2>3 DEF DeqInv
    <2>6. at[d] = "entry" => key'[q][e] # Unused
      BY <1>3, <2>1, <2>2 DEF DeqInv
    <2> QED BY <1>3, <2>1, <2>2, <2>4, <2>5, <2>6, DeqUntouched
  <1>10. DeqInv(c)'
    BY <1>3, <1>4 DEF DeqInv, Claimed
  <1>11. Apart'
    <2>1. ASSUME NEW d \in Consumers \ {c}, at[d] \in Claimed, my[d].prod = p PROVE my[d].idx # h
      <3>1. my[d].idx < h /\ my[d].idx \in Nat
        BY <1>1, <2>1 DEF IndexInv, DeqInv, TypeInv, LocalType, Threads
      <3> QED BY <1>3, <3>1
    <2> QED BY <1>3, <1>9, <2>1 DEF IndexInv, Apart
  <1> QED BY <1>8, <1>9, <1>10, <1>11 DEF IndexInv

\* The entry of a block that a consumer empties serves no pending index.
LEMMA ForgetKeepsIndex ==
  ASSUME IInv, TypeInv, IndexInv, NEW c \in Consumers, NEW p \in Producers, Forget(c, p)
  PROVE  IndexInv'
  <1>1. PICK e : e = my[c].pos
    OBVIOUS
  <1>2. OnlyMoves(c) /\ ShapeInv /\ c \in Threads /\ c \notin Producers
    BY DequeueMoves, CqAssumption DEF TryDequeue, IInv, Threads
  <1>3. /\ at[c] = "forget" /\ at'[c] = "add" /\ my[c].prod = p
        /\ value' = [value EXCEPT ![p][e] = None]
        /\ UNCHANGED <<tailIndex, headIndex, current, indexTail, key, slots, emptied>>
    BY <1>2, <1>1 DEF Forget, Goto, ShapeInv, counters, contents
  <1>4. /\ e \in Entries /\ my[c].block = value[p][e] /\ value[p][e] \in Block
        /\ \A n \in Nat : Pending(p, n) /\ key[p][Ent(Num(n))] = First(Num(n)) => Ent(Num(n)) # e
    BY <1>1, <1>3, ForgetFacts
  <1>5. \A q \in Producers, i \in Entries :
          value'[q][i] = IF q = p /\ i = e THEN None ELSE value[q][i]
    BY <1>3, <1>4 DEF TypeInv
  <1>6. \A q \in Producers \ {p} : Untouched(q)
    BY <1>3 DEF Untouched, TypeInv
  <1>7. \A q, n : ~Taking(c, q, n) /\ ~Taking(c, q, n)'
    BY <1>3 DEF Taking, Claimed
  <1>8. \A q \in Producers :
          (\A n : Pending(q, n)' <=> Pending(q, n)) /\ (\A m : Left(q, m)' = Left(q, m))
    BY <1>2, <1>3, <1>7, PendingSame
  <1>9. ASSUME NEW q \in Producers \ {p}
        PROVE  EnqInv(q)' /\ KeyInv(q)' /\ ValueInv(q)' /\ LeftInv(q)'
    <2>1. /\ EnqInv(q) /\ KeyInv(q) /\ ValueInv(q) /\ LeftInv(q) /\ Untouched(q)
          /\ at'[q] = at[q] /\ my'[q] = my[q]
      BY <1>2, <1>6 DEF IndexInv, OnlyMoves, Threads
    <2> QED BY <1>3, <1>8, <2>1, EnqUntouched, IndexUntouched
  <1>10. EnqInv(p)' /\ KeyInv(p)' /\ ValueInv(p)' /\ LeftInv(p)'
    <2>1. /\ EnqInv(p) /\ KeyInv(p) /\ ValueInv(p) /\ LeftInv(p)
          /\ at'[p] = at[p] /\ my'[p] = my[p]
      BY <1>2 DEF IndexInv, OnlyMoves, Threads
    <2>2. EnqInv(p)'
      <3>1. (Filling(p)' <=> Filling(p)) /\ Home(p)' = Home(p) /\ Home(p) \in Entries
        BY <1>3, <2>1, TailFacts DEF Filling, Home
      <3>2. Filling(p) => Home(p) # e
        BY <1>4, <2>1, TailFacts DEF EnqInv, Home
      <3>3. value[p][Home(p)] = None => value'[p][Home(p)] = None
        BY <1>5, <3>1
      <3>4. Filling(p) => value'[p][Home(p)] = value[p][Home(p)]
        BY <1>5, <3>1, <3>2
      <3> QED BY <1>3, <2>1, <3>1, <3>3, <3>4 DEF EnqInv
    <2>3. KeyInv(p)'
      BY <1>3, <1>5, <2>1 DEF KeyInv
    <2>4. ValueInv(p)'
      <3>1. ASSUME NEW n \in Nat, n < tailIndex[p], Pending(p, n)
            PROVE  /\ value'[p][Ent(Num(n))] # None /\ key[p][Ent(Num(n))] = First(Num(n))
                   /\ slots[value'[p][Ent(Num(n))]][Off(n)] = <<p, n>>
        <4>1. /\ Holder(p, n) # None /\ key[p][Ent(Num(n))] = First(Num(n))
              /\ slots[Holder(p, n)][Off(n)] = <<p, n>> /\ Ent(Num(n)) \in Entries
          BY <2>1, <3>1, IndexFacts, EntFacts DEF ValueInv
        <4>2. Ent(Num(n)) # e
          BY <1>4, <3>1, <4>1
        <4> QED BY <1>5, <4>1, <4>2 DEF Holder
      <3> QED BY <1>3, <1>8, <3>1 DEF ValueInv, Holder
    <2>5. LeftInv(p)'
      <3>1. \A m \in Nat : value'[p][Ent(m)] # None => value'[p][Ent(m)] = value[p][Ent(m)]
        BY <1>5, EntFacts
      <3> QED BY <1>3, <1>8, <2>1, <3>1 DEF LeftInv
    <2> QED BY <2>2, <2>3, <2>4, <2>5
  <1>11. ASSUME NEW d \in Consumers \ {c} PROVE at'[d] = at[d] /\ my'[d] = my[d] /\ DeqInv(d)'
    <2>1. at'[d] = at[d] /\ my'[d] = my[d] /\ DeqInv(d)
      BY <1>2 DEF OnlyMoves, Threads, IndexInv
    <2>2. PICK q, i, n : q = my[d].prod /\ i = my[d].pos /\ n = my[d].idx
      OBVIOUS
    <2>3. /\ at[d] \in Claimed \cup {"forget"} => q \in Producers
          /\ i \in Entries
      BY <2>1, <2>2 DEF DeqInv, TypeInv, LocalType, Threads
    <2>4. at[d] = "forget" => \A m : Left(q, m)' \subseteq Left(q, m)
      BY <1>8, <2>3
    <2>5. CASE at[d] = "empty" /\ q = p
      <3>1. at[d] \in Claimed /\ p = my[d].prod /\ n = my[d].idx
        BY <2>2, <2>5 DEF Claimed
      <3>2. n \in Nat /\ Pending(p, n) /\ key[p][Ent(Num(n))] = First(Num(n))
        BY <3>1, ClaimedFacts
      <3>3. i # e
        BY <1>4, <2>1, <2>2, <2>5, <3>2 DEF DeqInv
      <3>4. value'[q][i] = value[q][i]
        BY <1>5, <2>3, <2>5, <3>1, <3>3
      <3> QED BY <1>3, <2>1, <2>2, <2>5, <3>4, DeqUntouched DEF DeqInv
    <2>6. CASE at[d] = "forget" /\ q = p
      <3>1. my[d].block = value[p][i] /\ my[d].block # my[c].block
        BY <1>3, <2>1, <2>2, <2>6 DEF DeqInv, IndexInv, Apart
      <3>2. value'[q][i] = value[q][i]
        BY <1>4, <1>5, <2>3, <2>6, <3>1
      <3> QED BY <1>3, <2>1, <2>2, <2>4, <2>6, <3>2, DeqUntouched DEF DeqInv, Claimed
    <2>7. CASE q # p \/ at[d] \notin {"empty", "forget"}
      <3>1. at[d] \in {"empty", "forget"} => value'[q][i] = value[q][i]
        BY <1>5, <2>3, <2>7 DEF Claimed
      <3> QED BY <1>3, <2>1, <2>2, <2>4, <3>1, DeqUntouched DEF DeqInv
    <2> QED BY <2>1, <2>5, <2>6, <2>7
  <1>12. DeqInv(c)' /\ Apart'
    BY <1>3, <1>11 DEF DeqInv, Claimed, IndexInv, Apart
  <1> QED BY <1>9, <1>10, <1>11, <1>12 DEF IndexInv

\* A value taken out of a block is counted and no longer pending.  The last one
\* leaves none.
LEMMA SetEmptyKeepsIndex ==
  ASSUME IInv, TypeInv, OneEntry, IndexInv, NEW c \in Consumers, NEW p \in Producers, SetEmpty(c, p)
  PROVE  IndexInv'
  <1>1. PICK n, e, b, o : n = my[c].idx /\ e = my[c].pos /\ b = my[c].block /\ o = Off(n)
    OBVIOUS
  <1>2. OnlyMoves(c) /\ ShapeInv /\ c \in Threads /\ c \notin Producers
    BY DequeueMoves, CqAssumption DEF TryDequeue, IInv, Threads
  <1>3. /\ at[c] = "empty" /\ at[c] \in Claimed /\ p = my[c].prod
        /\ slots' = [slots EXCEPT ![b][o] = Free] /\ emptied' = [emptied EXCEPT ![b] = @ + 1]
        /\ UNCHANGED <<tailIndex, headIndex, current, indexTail, key, value>>
    BY <1>1 DEF SetEmpty, counters, index, Off, Claimed
  <1>4. /\ n \in Nat /\ n < headIndex[p] /\ n < tailIndex[p] /\ Pending(p, n) /\ Taking(c, p, n)
        /\ Holder(p, n) \in Block /\ key[p][Ent(Num(n))] = First(Num(n))
        /\ Num(n) \in Nat /\ Ent(Num(n)) \in Entries
    BY <1>1, <1>3, ClaimedFacts
  <1>5. e = Ent(Num(n)) /\ b = value[p][e] /\ b \in Block /\ e \in Entries /\ o \in 0 .. BlockSize - 1
    BY <1>1, <1>3, <1>4, IndexFacts DEF IndexInv, DeqInv, Holder
  <1>6. \A a \in Block, i \in 0 .. BlockSize - 1 :
          slots'[a][i] = IF a = b /\ i = o THEN Free ELSE slots[a][i]
    BY <1>3, <1>5 DEF TypeInv
  <1>7. \A a \in Block : emptied[a] \in Nat /\ emptied'[a] = IF a = b THEN emptied[a] + 1 ELSE emptied[a]
    BY <1>3, <1>5 DEF TypeInv
  <1>8. \/ at'[c] = "idle" /\ emptied[b] # BlockSize - 1
        \/ at'[c] = "forget" /\ my'[c] = my[c] /\ emptied[b] = BlockSize - 1
    BY <1>2, <1>1 DEF SetEmpty, Return, Goto, ShapeInv
  <1>9. \A q, k : (Taking(c, q, k) <=> q = p /\ k = n) /\ ~Taking(c, q, k)'
    BY <1>1, <1>3, <1>8 DEF Taking, Claimed
  <1>10. \A q \in Producers \ {p} :
          (\A k : Pending(q, k)' <=> Pending(q, k)) /\ (\A m : Left(q, m)' = Left(q, m))
    BY <1>2, <1>3, <1>9, PendingSame
  <1>11. ASSUME NEW k \in Nat PROVE Pending(p, k)' <=> Pending(p, k) /\ k # n
    <2>1. ASSUME NEW d \in Consumers \ {c} PROVE Taking(d, p, k)' <=> Taking(d, p, k)
      BY <1>2 DEF Taking, OnlyMoves, Threads
    <2>2. ASSUME NEW d \in Consumers \ {c} PROVE ~Taking(d, p, n)
      BY <1>1, <1>3 DEF Taking, IndexInv, Apart
    <2>3. ~(n >= headIndex[p])
      BY <1>4, HeadBelowTail
    <2> QED BY <1>3, <1>9, <2>1, <2>2, <2>3 DEF Pending
  <1>12. \A m : Left(p, m)' = Left(p, m) \ {n}
    BY <1>11 DEF Left
  <1>13. \A q \in Producers : Untouched(q)
    BY <1>3 DEF Untouched
  \* What lies elsewhere, in another block or at another place of this one.
  <1>14. ASSUME NEW q \in Producers, NEW k \in Nat, q # p \/ k # n, key[q][Ent(Num(k))] = First(Num(k)),
                NEW a \in Block, a = Holder(q, k)
         PROVE  slots'[a][Off(k)] = slots[a][Off(k)]
    <2>1. Off(k) \in 0 .. BlockSize - 1 /\ Num(k) \in Nat /\ Ent(Num(k)) \in Entries
      BY IndexFacts, EntFacts
    <2>2. CASE a = b
      <3>1. value[q][Ent(Num(k))] = value[p][e] /\ value[p][e] # None
        BY <1>5, <1>14, <2>2 DEF Holder, Block, None
      <3>2. q = p /\ Ent(Num(k)) = e
        BY <1>5, <2>1, <3>1 DEF OneEntry
      <3>3. Num(k) = Num(n)
        BY <1>4, <1>5, <1>14, <2>1, <3>2, FirstFacts
      <3>4. Off(k) # o
        BY <1>1, <1>4, <1>14, <3>2, <3>3, SameIndex
      <3> QED BY <1>6, <2>1, <3>4
    <2>3. CASE a # b
      BY <1>6, <2>1, <2>3
    <2> QED BY <2>2, <2>3
  <1>15. ASSUME NEW q \in Producers
         PROVE  EnqInv(q)'
    <2>1. /\ EnqInv(q) /\ Untouched(q) /\ at'[q] = at[q] /\ my'[q] = my[q]
      BY <1>2, <1>13 DEF IndexInv, OnlyMoves, Threads
    <2>2. PICK T : T = tailIndex[q]
      OBVIOUS
    <2>3. at[q] = "publish" => slots'[current[q]][Off(T)] = slots[current[q]][Off(T)]
      <3>1. SUFFICES ASSUME at[q] = "publish" PROVE slots'[current[q]][Off(T)] = slots[current[q]][Off(T)]
        OBVIOUS
      <3>2. /\ current[q] \in Block /\ current[q] = Holder(q, T) /\ T \in Nat
            /\ key[q][Ent(Num(T))] = First(Num(T))
        BY <2>1, <2>2, <3>1, TailFacts DEF EnqInv, Filling, Home, Holder
      <3>3. q # p \/ T # n
        BY <1>4, <2>2, <3>2
      <3> QED BY <1>14, <3>2, <3>3
    <2>4. at[q] = "value" => emptied'[my[q].block] = emptied[my[q].block]
      BY <1>5, <1>7 DEF OneEntry, TypeInv, Known, Threads
    <2> QED BY <2>1, <2>2, <2>3, <2>4, EnqUntouched
  <1>16. ASSUME NEW q \in Producers \ {p}
         PROVE  KeyInv(q)' /\ ValueInv(q)' /\ LeftInv(q)'
    <2>1. KeyInv(q) /\ ValueInv(q) /\ LeftInv(q) /\ Untouched(q)
      BY <1>13 DEF IndexInv
    <2>2. ASSUME NEW k \in Nat, k < tailIndex[q], Pending(q, k)
          PROVE  slots'[Holder(q, k)][Off(k)] = slots[Holder(q, k)][Off(k)]
      <3>1. key[q][Ent(Num(k))] = First(Num(k)) /\ Holder(q, k) # None /\ Ent(Num(k)) \in Entries
        BY <2>1, <2>2, IndexFacts, EntFacts DEF ValueInv
      <3>2. Holder(q, k) \in Block
        BY <3>1 DEF Holder, TypeInv, Link
      <3> QED BY <1>14, <3>1, <3>2
    <2>3. ASSUME NEW m \in Nat, value[q][Ent(m)] # None
          PROVE  emptied'[value[q][Ent(m)]] = emptied[value[q][Ent(m)]]
      <3>1. value[q][Ent(m)] \in Block /\ value[q][Ent(m)] # b
        BY <1>5, <2>3, EntFacts DEF OneEntry, TypeInv, Link
      <3> QED BY <1>7, <3>1
    <2> QED BY <1>10, <2>1, <2>2, <2>3, IndexUntouched
  <1>17. KeyInv(p)' /\ ValueInv(p)'
    <2>1. KeyInv(p)'
      BY <1>3 DEF IndexInv, KeyInv
    <2>2. ASSUME NEW k \in Nat, k < tailIndex[p], Pending(p, k), k # n
          PROVE  /\ Holder(p, k) # None /\ key[p][Ent(Num(k))] = First(Num(k))
                 /\ slots'[Holder(p, k)][Off(k)] = <<p, k>>
      <3>1. /\ Holder(p, k) # None /\ key[p][Ent(Num(k))] = First(Num(k))
            /\ slots[Holder(p, k)][Off(k)] = <<p, k>> /\ Ent(Num(k)) \in Entries
        BY <2>2, IndexFacts, EntFacts DEF ValueInv, IndexInv
      <3>2. Holder(p, k) \in Block
        BY <3>1 DEF Holder, TypeInv, Link
      <3> QED BY <1>14, <2>2, <3>1, <3>2
    <2>3. ValueInv(p)'
      BY <1>3, <1>11, <2>2 DEF ValueInv, Holder
    <2> QED BY <2>1, <2>3
  <1>18. /\ IsFiniteSet(Left(p, Num(n))) /\ n \in Left(p, Num(n))
         /\ Cardinality(Left(p, Num(n))) \in Nat
         /\ Cardinality(Left(p, Num(n)) \ {n}) = Cardinality(Left(p, Num(n))) - 1
         /\ emptied[b] + Cardinality(Left(p, Num(n))) = BlockSize
    <2>1. IsFiniteSet(Left(p, Num(n)))
      BY <1>4, WholeBlock, FS_Subset DEF Left
    <2>2. n \in Left(p, Num(n))
      BY <1>4 DEF Left
    <2>3. emptied[b] + Cardinality(Left(p, Num(n))) = BlockSize
      BY <1>4, <1>5 DEF IndexInv, LeftInv, Block, None
    <2> QED BY <2>1, <2>2, <2>3, FS_CardinalityType, FS_RemoveElement
  <1>19. LeftInv(p)'
    <2>1. ASSUME NEW m \in Nat, value[p][Ent(m)] # None, key[p][Ent(m)] = First(m)
          PROVE  emptied'[value[p][Ent(m)]] + Cardinality(Left(p, m) \ {n}) = BlockSize
      <3>1. Ent(m) \in Entries /\ value[p][Ent(m)] \in Block
        BY <2>1, EntFacts DEF TypeInv, Link
      <3>2. /\ Ent(m) \in Entries /\ value[p][Ent(m)] \in Block
            /\ emptied[value[p][Ent(m)]] + Cardinality(Left(p, m)) = BlockSize
        BY <2>1, <3>1 DEF IndexInv, LeftInv
      <3>3. CASE Ent(m) = e
        <4>1. m = Num(n)
          BY <1>4, <1>5, <2>1, <3>3, FirstFacts
        <4>2. emptied'[b] = emptied[b] + 1 /\ emptied[b] \in Nat
          BY <1>5, <1>7
        <4> QED BY <1>5, <1>18, <3>3, <4>1, <4>2, CqAssumption
      <3>4. CASE Ent(m) # e
        <4>1. value[p][Ent(m)] # b
          BY <1>5, <3>2, <3>4 DEF OneEntry, Block, None
        <4>2. emptied'[value[p][Ent(m)]] = emptied[value[p][Ent(m)]]
          BY <1>7, <3>2, <4>1
        <4>3. Left(p, m) \ {n} = Left(p, m)
          BY <1>5, <3>4 DEF Left
        <4> QED BY <3>2, <4>2, <4>3
      <3> QED BY <3>3, <3>4
    <2> QED BY <1>3, <1>12, <2>1 DEF LeftInv
  <1>20. ASSUME NEW d \in Consumers \ {c} PROVE at'[d] = at[d] /\ my'[d] = my[d] /\ DeqInv(d)'
    <2>1. at'[d] = at[d] /\ my'[d] = my[d] /\ DeqInv(d)
      BY <1>2 DEF OnlyMoves, Threads, IndexInv
    <2>2. PICK q, i : q = my[d].prod /\ i = my[d].pos
      OBVIOUS
    <2>3. at[d] = "forget" => \A m : Left(q, m)' \subseteq Left(q, m)
      BY <1>10, <1>12, <2>1, <2>2 DEF DeqInv
    <2> QED BY <1>3, <2>1, <2>2, <2>3, DeqUntouched DEF DeqInv
  <1>21. DeqInv(c)'
    <2>1. CASE at'[c] = "idle"
      BY <2>1 DEF DeqInv, Claimed
    <2>2. CASE at'[c] = "forget" /\ my'[c] = my[c] /\ emptied[b] = BlockSize - 1
      <3>1. Cardinality(Left(p, Num(n)) \ {n}) = 0 /\ IsFiniteSet(Left(p, Num(n)) \ {n})
        BY <1>18, <2>2, CqAssumption, FS_Subset
      <3>2. Left(p, Num(n)) \ {n} = {}
        BY <3>1, FS_EmptySet
      <3>3. \E m \in Nat : Ent(m) = e /\ key'[p][e] = First(m) /\ Left(p, m)' = {}
        BY <1>3, <1>4, <1>5, <1>12, <3>2
      <3>4. my'[c].prod = p /\ my'[c].pos = e /\ my'[c].block = b
        BY <1>1, <1>3, <2>2
      <3>5. value'[p][e] = b /\ b # None
        BY <1>3, <1>5 DEF Block, None
      <3> QED BY <2>2, <3>3, <3>4, <3>5 DEF DeqInv, Claimed
    <2> QED BY <1>8, <2>1, <2>2
  <1>22. Apart'
    <2>1. ASSUME NEW d \in Consumers \ {c}, at[d] = "forget" PROVE my[d].block # b
      <3>1. PICK q, i : q = my[d].prod /\ i = my[d].pos
        OBVIOUS
      <3>2. /\ q \in Producers /\ i \in Entries /\ my[d].block = value[q][i]
            /\ \A k \in Nat : Pending(q, k) /\ key[q][Ent(Num(k))] = First(Num(k)) => Ent(Num(k)) # i
        BY <2>1, <3>1, ForgetFacts
      <3>3. q # p \/ i # e
        BY <1>4, <1>5, <3>2
      <3> QED BY <1>5, <3>2, <3>3 DEF OneEntry, Block, None
    <2>2. at'[c] \notin Claimed /\ (at'[c] = "forget" => my'[c].block = b)
      BY <1>1, <1>8 DEF Claimed
    <2> QED BY <1>20, <2>1, <2>2 DEF IndexInv, Apart
  <1> QED BY <1>15, <1>16, <1>17, <1>19, <1>20, <1>21, <1>22 DEF IndexInv

LEMMA DequeueKeepsIndex ==
  ASSUME IInv, TypeInv, ListInv, IndexInv, NEW c \in Consumers, NEW p \in Producers,
         TryDequeue(c, p)
  PROVE  IndexInv'
  <1>1. OneEntry
    BY ListsGiveOneEntry
  <1> QED BY <1>1, BeforeClaimKeepsIndex, ClaimKeepsIndex, FindKeepsIndex, EntryKeepsIndex,
             TakeKeepsIndex, SetEmptyKeepsIndex, ForgetKeepsIndex
          DEF TryDequeue

LEMMA InitIndex == Init => IndexInv
  <1> SUFFICES ASSUME Init PROVE IndexInv
    OBVIOUS
  <1>1. ASSUME NEW p \in Producers PROVE EnqInv(p) /\ KeyInv(p) /\ ValueInv(p) /\ LeftInv(p)
    <2>1. /\ at[p] = "idle" /\ tailIndex[p] = 0 /\ indexTail[p] = IndexSize - 1
          /\ \A i \in Entries : key[p][i] = Unused /\ value[p][i] = None
      BY DEF Init, Threads, Entries
    <2>2. /\ Num(0) = 0 /\ Off(0) = 0 /\ Ent(0 + IndexSize - 1) = IndexSize - 1
          /\ \A m \in Nat : Ent(m) \in Entries /\ First(m) >= 0
      <3>1. First(0) = 0
        BY CqAssumption DEF First
      <3>2. Num(0) = 0 /\ Off(0) = 0
        BY <3>1, FirstFacts
      <3>3. Ent(0 + IndexSize - 1) = IndexSize - 1
        <4>1. (IndexSize * 0 + (IndexSize - 1)) % IndexSize = IndexSize - 1
          BY CqAssumption, Quotient
        <4>2. IndexSize * 0 + (IndexSize - 1) = 0 + IndexSize - 1
          BY CqAssumption
        <4> QED BY <4>1, <4>2 DEF Ent
      <3> QED BY <3>2, <3>3, EntFacts, FirstFacts
    <2>3. ~Filling(p)
      BY <2>1, <2>2 DEF Filling
    <2>4. EnqInv(p)
      BY <2>1, <2>2, <2>3 DEF EnqInv, Seeking, Joining
    <2>5. \A m \in Nat : ~(First(m) < tailIndex[p])
      BY <2>1, FirstFacts
    <2> QED BY <2>1, <2>2, <2>4, <2>5 DEF KeyInv, ValueInv, LeftInv
  <1>2. \A c \in Consumers : at[c] = "idle"
    BY DEF Init, Threads
  <1>3. \A c \in Consumers : DeqInv(c)
    BY <1>2 DEF DeqInv, Claimed
  <1>4. Apart
    BY <1>2 DEF Apart, Claimed
  <1> QED BY <1>1, <1>3, <1>4 DEF IndexInv

-----------------------------------------------------------------------------
(* The whole invariant, and what it shows.                                  *)

QueueInv == IInv /\ TypeInv /\ ListInv /\ IndexInv

LEMMA InitQueue == Init => QueueInv
  BY InitInv, InitType, InitLists, InitIndex DEF QueueInv

LEMMA StutterKeepsQueue == QueueInv /\ UNCHANGED cvars => QueueInv'
  <1> SUFFICES ASSUME QueueInv, UNCHANGED cvars PROVE QueueInv'
    OBVIOUS
  <1> USE DEF cvars, counters, index, contents, freeList, QueueInv
  <1>1. IInv'
    BY NextInv
  <1>2. TypeInv'
    BY DEF TypeInv, LocalType, Known
  <1>3. ListInv'
    <2>1. \A b : /\ Adding(b)' = Adding(b) /\ Referring(b)' = Referring(b)
                 /\ (b \in Chain)' <=> b \in Chain
      BY DEF Adding, Referring, Chain, Holding
    <2>2. \A b, k, w, i : /\ Placed(b, k, w, i)' <=> Placed(b, k, w, i)
                          /\ Counted(b, k, w)' <=> Counted(b, k, w)
      BY <2>1 DEF Placed, Counted, InHand, Owed
    <2>3. PlaceInv'
      BY <2>2 DEF ListInv, PlaceInv
    <2> QED BY <2>3 DEF ListInv, LinkOf, RankInv, Falls
  <1>4. IndexInv'
    <2>1. \A n, p : Pending(p, n)' <=> Pending(p, n)
      BY DEF Pending, Taking
    <2>2. \A m, p : Left(p, m)' = Left(p, m)
      BY <2>1 DEF Left
    <2>3. ASSUME NEW p \in Producers PROVE EnqInv(p)' /\ KeyInv(p)' /\ ValueInv(p)' /\ LeftInv(p)'
      BY <2>1, <2>2 DEF IndexInv, EnqInv, KeyInv, ValueInv, LeftInv, Filling, Home, Holder
    <2>4. ASSUME NEW c \in Consumers PROVE DeqInv(c)'
      BY <2>2 DEF IndexInv, DeqInv
    <2> QED BY <2>3, <2>4 DEF IndexInv, Apart
  <1> QED BY <1>1, <1>2, <1>3, <1>4

LEMMA NextQueue == QueueInv /\ [Next]_cvars => QueueInv'
  <1> SUFFICES ASSUME QueueInv, [Next]_cvars PROVE QueueInv'
    OBVIOUS
  <1>1. IInv /\ ShapeInv /\ TypeInv /\ ListInv /\ IndexInv /\ IInv'
    BY NextInv DEF QueueInv, IInv
  <1>2. ASSUME NEW t \in Threads, AddToFreeList(t) PROVE TypeInv' /\ ListInv' /\ IndexInv'
    <2>1. TypeInv' /\ ListInv'
      BY <1>1, <1>2, AddType, AddKeepsListInv
    <2>2. IndexInv'
      BY <1>1, <1>2, GetKeepsIndex, ConsumerAddKeepsIndex DEF Threads
    <2> QED BY <2>1, <2>2
  <1>3. ASSUME NEW p \in Producers, TryEnqueue(p) PROVE TypeInv' /\ ListInv' /\ IndexInv'
    <2>1. TypeInv' /\ IndexInv'
      BY <1>1, <1>3, EnqueueType, EnqueueKeepsIndex
    <2>2. at[p] \in {"value", "rewound"} => value[p][my[p].pos] = None
      BY <1>1 DEF IndexInv, EnqInv, Seeking
    <2> QED BY <1>1, <1>3, <2>1, <2>2, EnqueueKeepsListInv
  <1>4. ASSUME NEW c \in Consumers, NEW p \in Producers, TryDequeue(c, p)
        PROVE  TypeInv' /\ ListInv' /\ IndexInv'
    <2>1. at[c] = "forget" => value[p][my[c].pos] = my[c].block /\ my[c].block \in Block
      <3>1. SUFFICES ASSUME at[c] = "forget"
                     PROVE  value[p][my[c].pos] = my[c].block /\ my[c].block \in Block
        OBVIOUS
      <3>2. my[c].prod = p
        BY <1>4, <3>1 DEF TryDequeue, LoadTail, LoadOvercommit, Look, Commit, Check, Undo, Claim,
                          Find, Entry, Take, SetEmpty, Forget
      <3> QED BY <1>1, <3>1, <3>2, ForgetFacts
    <2>2. TypeInv' /\ ListInv'
      BY <1>1, <1>4, <2>1, DequeueType, DequeueKeepsListInv
    <2>3. IndexInv'
      BY <1>1, <1>4, DequeueKeepsIndex
    <2> QED BY <2>2, <2>3
  <1>5. CASE UNCHANGED cvars
    BY <1>5, StutterKeepsQueue
  <1>6. CASE Next
    BY <1>1, <1>2, <1>3, <1>4, <1>6 DEF Next, QueueInv
  <1> QED BY <1>5, <1>6

LEMMA QueueInvariant == Spec => []QueueInv
  BY InitQueue, NextQueue, PTL DEF Spec

\* A consumer that has claimed an index takes the value that its producer
\* enqueued there, whatever the other threads do meanwhile: the entry it finds is
\* the one for its index, and the block there is not given back, filled again or
\* taken by another producer before the value is out (lines 2661-2793).
THEOREM TakesTheValueEnqueued == Spec => []TakesItsValue
  <1>1. QueueInv => TakesItsValue
    BY DEF QueueInv, IndexInv, DeqInv, TakesItsValue, Claimed
  <1> QED BY <1>1, QueueInvariant, PTL

\* Every block is in exactly one place, be it the pool, the free list, the index
\* of one producer or the hands of one thread, and none is lost; a block on the
\* free list counts the list and each producer that refers to it, in whatever
\* order the threads exchange its head, add to it and drop references
\* (lines 1581-1662).
THEOREM EachBlockInOnePlace == Spec => []BlocksAreExclusive
  <1>1. QueueInv => BlocksAreExclusive
    BY OnePlace DEF QueueInv
  <1> QED BY <1>1, QueueInvariant, PTL
=============================================================================
