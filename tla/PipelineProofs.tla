--------------------------- MODULE PipelineProofs ---------------------------
(***************************************************************************)
(* Theorems about every graph of postboys.  The end of a stream:           *)
(* activeProducers_ of a queue is the number of producers that have not    *)
(* unlinked; it never wraps below zero, and when it is zero the queue's    *)
(* producers are gone for good.  Items: none is lost or doubled, and those *)
(* of one source stay in order where their routes join only at the end.    *)
(***************************************************************************)
EXTENDS Pipeline, FiniteSetTheorems, TLAPS

\* The producers of queue q that still count.
Linked(q) == {p \in Producers(q) : pc[p] # "finished"}

CountInv == \A q \in Queues : active[q] = Cardinality(Linked(q))

\* Only a postboy with an input takes, and one that puts has an output.
RoleInv ==
  /\ \A p \in Postboys : pc[p] \in {"take", "count"} => p \in Takers
  /\ \A p \in Postboys : pc[p] = "put" => Out[p] \in Queues /\ hand[p] \in Items

\* TypeOK but for "active", whose type follows from CountInv.
ShapeInv ==
  /\ ctl \in [Postboys -> {"working", "sampling", "finishing"}]
  /\ pc \in [Postboys -> {"between", "take", "count", "put", "unlink", "finished"}]
  /\ hand \in [Postboys -> Items \cup {Nothing}]
  /\ next \in [Sources -> Nat]
  /\ puts \in [Postboys -> Nat]
  /\ contents \in [Queues -> SUBSET Elements]
  /\ active \in [Queues -> Int]
  /\ log \subseteq Elements

IInv == ShapeInv /\ cut \in BOOLEAN /\ RoleInv /\ CountInv

-----------------------------------------------------------------------------
LEMMA LinkedIsFinite ==
  ASSUME NEW q \in Queues
  PROVE  IsFiniteSet(Linked(q)) /\ Cardinality(Linked(q)) \in Nat
  <1>1. Linked(q) \subseteq Postboys
    BY DEF Linked, Producers
  <1>2. IsFiniteSet(Linked(q))
    BY <1>1, FS_Subset, PipelineAssumption
  <1> QED BY <1>2, FS_CardinalityType

LEMMA InitInv == Init => IInv
  <1> SUFFICES ASSUME Init PROVE IInv
    OBVIOUS
  <1>1. \A q \in Queues : Linked(q) = Producers(q)
    BY DEF Init, Linked, Producers
  <1>2. CountInv
    BY <1>1 DEF Init, CountInv
  <1>3. \A q \in Queues : Cardinality(Producers(q)) \in Int
    BY <1>1, LinkedIsFinite
  <1>4. ShapeInv
    BY <1>3 DEF Init, ShapeInv
  <1>5. RoleInv
    BY DEF Init, RoleInv
  <1> QED BY <1>2, <1>4, <1>5 DEF Init, IInv

\* A step that finishes nobody and touches no count keeps the counts exact.
LEMMA CountKept ==
  ASSUME CountInv, UNCHANGED active,
         \A p \in Postboys : pc'[p] = "finished" <=> pc[p] = "finished"
  PROVE  CountInv'
  <1>1. \A q \in Queues : Linked(q)' = Linked(q)
    BY DEF Linked, Producers
  <1> QED BY <1>1 DEF CountInv

LEMMA WorkerKeepsInv ==
  ASSUME IInv, NEW p \in Postboys, Worker(p)
  PROVE  IInv'
  <1> USE PipelineAssumption
  <1>1. CASE Produce(p)
    <2>1. p \in Sources /\ Out[p] \in Queues /\ next[p] \in Nat
      BY <1>1 DEF Produce, Sources, IInv, ShapeInv
    <2>2. [source |-> p, n |-> next[p]] \in Items
      BY <2>1 DEF Items
    <2>3. ShapeInv'
      BY <1>1, <2>1, <2>2 DEF Produce, RequestFinish, Goto, IInv, ShapeInv
    <2>4. RoleInv'
      BY <1>1, <2>1, <2>2 DEF Produce, Goto, IInv, ShapeInv, RoleInv
    <2>5. CountInv'
      BY <1>1, CountKept DEF Produce, Goto, IInv, ShapeInv
    <2> QED BY <1>1, <2>3, <2>4, <2>5 DEF Produce, IInv
  <1>2. CASE BeginTake(p) \/ FindEmpty(p) \/ LeaveLoop(p)
    <2>1. ShapeInv'
      BY <1>2 DEF BeginTake, FindEmpty, LeaveLoop, Goto, IInv, ShapeInv
    <2>2. RoleInv'
      BY <1>2 DEF BeginTake, FindEmpty, LeaveLoop, Goto, IInv, ShapeInv, RoleInv
    <2>3. CountInv'
      BY <1>2, CountKept DEF BeginTake, FindEmpty, LeaveLoop, Goto, IInv, ShapeInv
    <2> QED BY <1>2, <2>1, <2>2, <2>3 DEF BeginTake, FindEmpty, LeaveLoop, IInv
  <1>3. CASE Dequeue(p)
    <2>1. p \in Takers /\ In[p] \in Queues
      BY <1>3 DEF Dequeue, IInv, RoleInv, Takers, Sources
    <2>2. PICK e \in Heads(In[p]) :
            /\ contents' = [contents EXCEPT ![In[p]] = @ \ {e}]
            /\ IF Out[p] = NoQueue
                 THEN /\ log' = log \cup {e}
                      /\ Goto(p, "between") \/ Goto(p, "take")
                      /\ UNCHANGED hand
                 ELSE /\ hand' = [hand EXCEPT ![p] = e.item]
                      /\ Goto(p, "put")
                      /\ UNCHANGED log
      BY <1>3 DEF Dequeue
    <2>3. e \in Elements /\ e.item \in Items
      BY <2>1 DEF Heads, IInv, ShapeInv, Elements
    <2>4. ShapeInv'
      BY <1>3, <2>1, <2>2, <2>3 DEF Dequeue, Goto, IInv, ShapeInv
    <2>5. RoleInv'
      BY <1>3, <2>1, <2>2, <2>3 DEF Dequeue, Goto, IInv, ShapeInv, RoleInv
    <2>6. CountInv'
      BY <1>3, <2>2, CountKept DEF Dequeue, Goto, IInv, ShapeInv
    <2> QED BY <1>3, <2>4, <2>5, <2>6 DEF Dequeue, IInv
  <1>4. CASE CountProducers(p)
    <2>1. ShapeInv'
      BY <1>4 DEF CountProducers, RequestFinish, Goto, IInv, ShapeInv
    <2>2. RoleInv'
      BY <1>4 DEF CountProducers, Goto, IInv, ShapeInv, RoleInv
    <2>3. CountInv'
      BY <1>4, CountKept DEF CountProducers, Goto, IInv, ShapeInv
    <2> QED BY <1>4, <2>1, <2>2, <2>3 DEF CountProducers, IInv
  <1>5. CASE Put(p)
    <2>1. Out[p] \in Queues /\ hand[p] \in Items
      BY <1>5 DEF Put, IInv, RoleInv
    <2>2. Element(p) \in Elements
      BY <2>1 DEF Element, Elements, IInv, ShapeInv
    <2>3. ShapeInv'
      BY <1>5, <2>1, <2>2 DEF Put, Goto, IInv, ShapeInv
    <2>4. RoleInv'
      BY <1>5 DEF Put, Goto, IInv, ShapeInv, RoleInv
    <2>5. CountInv'
      BY <1>5, CountKept DEF Put, Goto, IInv, ShapeInv
    <2> QED BY <1>5, <2>3, <2>4, <2>5 DEF Put, IInv
  <1>6. CASE UnlinkQueues(p)
    <2>1. pc[p] = "unlink" /\ pc' = [pc EXCEPT ![p] = "finished"]
      BY <1>6 DEF UnlinkQueues, Goto
    <2>2. ShapeInv'
      BY <1>6, <2>1 DEF UnlinkQueues, IInv, ShapeInv
    <2>3. RoleInv'
      BY <1>6, <2>1 DEF UnlinkQueues, IInv, ShapeInv, RoleInv
    <2>4. ASSUME NEW q \in Queues PROVE active'[q] = Cardinality(Linked(q)')
      <3>1. active[q] = Cardinality(Linked(q)) /\ active[q] \in Int
        BY DEF IInv, CountInv, ShapeInv
      <3>2. CASE q = Out[p]
        <4>1. p \in Linked(q)
          BY <2>1, <3>2 DEF Linked, Producers
        <4>2. Linked(q)' = Linked(q) \ {p}
          BY <2>1, <3>2 DEF Linked, Producers, IInv, ShapeInv
        <4>3. Cardinality(Linked(q) \ {p}) = Cardinality(Linked(q)) - 1
          BY <4>1, LinkedIsFinite, FS_RemoveElement
        <4>4. active'[q] = active[q] - 1
          BY <1>6, <3>2 DEF UnlinkQueues, IInv, ShapeInv
        <4> QED BY <3>1, <4>2, <4>3, <4>4
      <3>3. CASE q # Out[p]
        <4>1. Linked(q)' = Linked(q)
          BY <2>1, <3>3 DEF Linked, Producers, IInv, ShapeInv
        <4>2. active'[q] = active[q]
          BY <1>6, <3>3 DEF UnlinkQueues, IInv, ShapeInv
        <4> QED BY <3>1, <4>1, <4>2
      <3> QED BY <3>2, <3>3
    <2>5. CountInv'
      BY <2>4 DEF CountInv
    <2> QED BY <1>6, <2>2, <2>3, <2>5 DEF UnlinkQueues, IInv
  <1> QED BY <1>1, <1>2, <1>3, <1>4, <1>5, <1>6 DEF Worker

LEMMA ClientsKeepInv ==
  ASSUME IInv, NEW p \in Postboys,
         ClientFinish(p) \/ ClientSample(p) \/ EndSampling(p)
  PROVE  IInv'
  <1>1. ShapeInv'
    BY DEF ClientFinish, ClientSample, EndSampling, RequestFinish, IInv, ShapeInv
  <1>2. RoleInv'
    BY DEF ClientFinish, ClientSample, EndSampling, IInv, RoleInv
  <1>3. CountInv'
    BY CountKept DEF ClientFinish, ClientSample, EndSampling, IInv
  <1>4. cut' \in BOOLEAN
    BY ZenonT(20) DEF ClientFinish, ClientSample, EndSampling, IInv
  <1> QED BY <1>1, <1>2, <1>3, <1>4 DEF IInv

LEMMA NextInv == IInv /\ [Next]_vars => IInv'
  <1> SUFFICES ASSUME IInv, [Next]_vars PROVE IInv'
    OBVIOUS
  <1>1. CASE Next
    BY <1>1, WorkerKeepsInv, ClientsKeepInv DEF Next
  <1>2. CASE UNCHANGED vars
    <2>1. ShapeInv' /\ RoleInv'
      BY <1>2 DEF vars, IInv, ShapeInv, RoleInv
    <2>2. CountInv'
      BY <1>2, CountKept DEF vars, IInv
    <2> QED BY <1>2, <2>1, <2>2 DEF vars, IInv
  <1> QED BY <1>1, <1>2

LEMMA Invariance == Spec => []IInv
  BY InitInv, NextInv, PTL DEF Spec

-----------------------------------------------------------------------------
\* Every variable has its type, for every graph of postboys: in particular the
\* count of a queue's producers, unsigned in the code, never wraps.
THEOREM TypeCorrect == Spec => []TypeOK
  <1>1. IInv => TypeOK
    <2> SUFFICES ASSUME IInv PROVE TypeOK
      OBVIOUS
    <2>1. \A q \in Queues : active[q] \in Nat
      BY LinkedIsFinite DEF IInv, CountInv
    <2>2. active \in [Queues -> Nat]
      BY <2>1 DEF IInv, ShapeInv
    <2> QED BY <2>2 DEF IInv, ShapeInv, TypeOK
  <1> QED BY <1>1, Invariance, PTL

\* Take returns nullopt only when all producers of its queue have unlinked, for
\* every graph of postboys and every order in which they end.
THEOREM EndOfStream == Spec => EndOfStreamIsFinal
  <1> DEFINE A == \A c \in Takers :
                    pc[c] = "count" /\ pc'[c] = "between" =>
                      \A p \in Producers(In[c]) : pc[p] = "finished"
  <1>1. IInv /\ [Next]_vars => [A]_pc
    <2> SUFFICES ASSUME IInv, [Next]_vars, pc' # pc,
                        NEW c \in Takers, pc[c] = "count", pc'[c] = "between",
                        NEW p \in Producers(In[c])
                 PROVE  pc[p] = "finished"
      OBVIOUS
    <2>1. c \in Postboys /\ In[c] \in Queues /\ p \in Postboys
      BY PipelineAssumption DEF Takers, Sources, Producers
    <2>2. CountProducers(c) /\ active[In[c]] = 0
      <3>1. PICK r \in Postboys :
              Worker(r) \/ ClientFinish(r) \/ ClientSample(r) \/ EndSampling(r)
        BY DEF Next, vars
      <3>2. Worker(r)
        BY <3>1 DEF ClientFinish, ClientSample, EndSampling
      <3>3. r = c
        BY <2>1, <3>2 DEF Worker, Produce, BeginTake, Dequeue, FindEmpty,
           CountProducers, Put, LeaveLoop, UnlinkQueues, Goto, IInv, ShapeInv
      <3>4. CountProducers(c)
        BY <3>2, <3>3 DEF Worker, Produce, BeginTake, Dequeue, FindEmpty, Put,
           LeaveLoop, UnlinkQueues
      <3>5. active[In[c]] = 0
        BY <2>1, <3>4 DEF CountProducers, Goto, IInv, ShapeInv
      <3> QED BY <3>4, <3>5
    <2>3. Linked(In[c]) = {}
      BY <2>1, <2>2, LinkedIsFinite, FS_EmptySet DEF IInv, CountInv
    <2> QED BY <2>3 DEF Linked
  <1>2. Spec => [][A]_pc
    BY <1>1, Invariance, PTL DEF Spec
  <1> QED BY <1>2 DEF EndOfStreamIsFinal

-----------------------------------------------------------------------------
(* No item is lost or doubled.  An item is where its source's count says it *)
(* exists: in one hand, or in one element that is queued or used up.        *)

InQueue(e) == \E q \in Queues : e \in contents[q]

\* Only who is about to put holds an item, and every queued element lies in
\* the queue its producer puts into.
HandInv == \A p \in Postboys : pc[p] # "put" => hand[p] = Nothing
PlaceInv == \A q \in Queues : \A e \in contents[q] : Out[e.by] = q

HandsInv ==
  \A p, r \in Postboys : hand[p] \in Items /\ hand[p] = hand[r] => p = r
ElementsInv ==
  /\ \A e, f \in Elements :
       e.item = f.item /\ (InQueue(e) \/ e \in log) /\ (InQueue(f) \/ f \in log) => e = f
  /\ \A e \in Elements : ~(InQueue(e) /\ e \in log)
ApartInv ==
  \A p \in Postboys, e \in Elements : hand[p] = e.item => ~InQueue(e) /\ e \notin log
MadeInv ==
  \A i \in Items :
    i.n < next[i.source] <=>
      \/ \E p \in Postboys : hand[p] = i
      \/ \E e \in Elements : e.item = i /\ (InQueue(e) \/ e \in log)

OnceInv == HandInv /\ PlaceInv /\ HandsInv /\ ElementsInv /\ ApartInv /\ MadeInv

LEMMA ElementFacts ==
  ASSUME NEW e \in Elements
  PROVE  e.item \in Items /\ e.by \in Postboys /\ e.item # Nothing
  BY NothingAssumption DEF Elements

LEMMA OnceInit == Init => OnceInv
  <1> SUFFICES ASSUME Init PROVE OnceInv
    OBVIOUS
  <1>1. \A e : ~InQueue(e) /\ e \notin log
    BY DEF Init, InQueue
  <1>2. \A p \in Postboys : hand[p] = Nothing
    BY DEF Init
  <1>3. PlaceInv
    BY DEF Init, PlaceInv
  <1>4. MadeInv
    <2>1. \A i \in Items : ~(i.n < next[i.source]) /\ i # Nothing
      BY NothingAssumption DEF Init, Items
    <2> QED BY <1>1, <1>2, <2>1 DEF MadeInv
  <1>5. HandsInv /\ ApartInv /\ ElementsInv /\ HandInv
    BY <1>1, <1>2, NothingAssumption, ElementFacts DEF HandsInv, ApartInv, ElementsInv, HandInv
  <1> QED BY <1>3, <1>4, <1>5 DEF OnceInv

\* A step that moves no item keeps the invariant if who puts goes on putting.
LEMMA OnceKept ==
  ASSUME OnceInv, UNCHANGED <<hand, next, contents, log>>,
         \A p \in Postboys : pc'[p] = "put" <=> pc[p] = "put"
  PROVE  OnceInv'
  BY DEF OnceInv, HandInv, PlaceInv, HandsInv, ElementsInv, ApartInv, MadeInv, InQueue

LEMMA ProduceKeepsOnce ==
  ASSUME IInv, OnceInv, NEW p \in Postboys, Produce(p)
  PROVE  OnceInv'
  <1>1. CASE next[p] < Limit[p]
    <2> DEFINE i == [source |-> p, n |-> next[p]]
    <2>1. i \in Items /\ i # Nothing /\ ~(i.n < next[i.source])
      BY <1>1, NothingAssumption DEF Produce, Items, IInv, ShapeInv
    <2>2. hand' = [hand EXCEPT ![p] = i] /\ hand[p] = Nothing
      BY <1>1 DEF Produce, OnceInv, HandInv
    <2>3. /\ \A r \in Postboys : hand[r] # i
          /\ \A e \in Elements : e.item = i => ~InQueue(e) /\ e \notin log
      BY <2>1 DEF OnceInv, MadeInv
    <2>4. UNCHANGED <<contents, log>> /\ \A e : InQueue(e)' <=> InQueue(e)
      BY DEF Produce, InQueue
    <2>5. \A j \in Items : j.n < next'[j.source] <=> j.n < next[j.source] \/ j = i
      <3> SUFFICES ASSUME NEW j \in Items
                   PROVE  j.n < next'[j.source] <=> j.n < next[j.source] \/ j = i
        OBVIOUS
      <3>1. j = i <=> j.source = p /\ j.n = next[p]
        BY DEF Items
      <3>2. /\ j.source \in Sources /\ j.n \in Nat /\ next[j.source] \in Nat
            /\ p \in Sources /\ next[p] \in Nat
        BY DEF Items, IInv, ShapeInv, Produce
      <3>3. next' = [next EXCEPT ![p] = @ + 1]
        BY <1>1 DEF Produce
      <3> QED BY <3>1, <3>2, <3>3 DEF IInv, ShapeInv
    <2>6. HandInv'
      BY <1>1, <2>2 DEF Produce, Goto, OnceInv, HandInv, IInv, ShapeInv
    <2>7. PlaceInv'
      BY <2>4 DEF OnceInv, PlaceInv
    <2> HIDE DEF i
    <2>8. \A r \in Postboys : hand'[r] = IF r = p THEN i ELSE hand[r]
      BY <2>2 DEF IInv, ShapeInv
    <2>9. HandsInv'
      BY <2>3, <2>8 DEF OnceInv, HandsInv
    <2>10. ElementsInv'
      BY <2>4 DEF OnceInv, ElementsInv
    <2>11. ApartInv'
      BY <2>3, <2>4, <2>8 DEF OnceInv, ApartInv
    <2>12. MadeInv'
      BY <2>1, <2>2, <2>3, <2>4, <2>5, <2>8, NothingAssumption DEF OnceInv, MadeInv
    <2> QED BY <2>6, <2>7, <2>9, <2>10, <2>11, <2>12 DEF OnceInv
  <1>2. CASE ~(next[p] < Limit[p])
    BY <1>2, OnceKept DEF Produce
  <1> QED BY <1>1, <1>2

LEMMA DequeueKeepsOnce ==
  ASSUME IInv, OnceInv, NEW p \in Postboys, Dequeue(p)
  PROVE  OnceInv'
  <1>1. p \in Takers /\ In[p] \in Queues /\ hand[p] = Nothing
    BY PipelineAssumption DEF Dequeue, IInv, RoleInv, Takers, Sources, OnceInv, HandInv
  <1>2. PICK e \in Heads(In[p]) :
          /\ contents' = [contents EXCEPT ![In[p]] = @ \ {e}]
          /\ IF Out[p] = NoQueue
               THEN /\ log' = log \cup {e}
                    /\ Goto(p, "between") \/ Goto(p, "take")
                    /\ UNCHANGED hand
               ELSE /\ hand' = [hand EXCEPT ![p] = e.item]
                    /\ Goto(p, "put")
                    /\ UNCHANGED log
    BY DEF Dequeue
  <1>3. e \in contents[In[p]] /\ e \in Elements /\ InQueue(e)
    BY <1>1, <1>2 DEF Heads, IInv, ShapeInv, InQueue
  <1>4. e.item \in Items /\ e.item # Nothing
    BY <1>3, ElementFacts
  <1>5. \A f : InQueue(f)' <=> InQueue(f) /\ f # e
    BY <1>1, <1>2, <1>3 DEF InQueue, OnceInv, PlaceInv, IInv, ShapeInv
  <1>6. PlaceInv'
    BY <1>1, <1>2 DEF OnceInv, PlaceInv, IInv, ShapeInv
  <1>7. UNCHANGED next
    BY DEF Dequeue
  <1>8. CASE Out[p] = NoQueue
    <2>1. log' = log \cup {e} /\ hand' = hand
      BY <1>2, <1>8
    <2>2. HandInv'
      BY <1>1, <1>2, <1>8 DEF Goto, OnceInv, HandInv, IInv, ShapeInv
    <2>3. HandsInv' /\ ApartInv'
      BY <1>3, <1>5, <2>1 DEF OnceInv, HandsInv, ApartInv
    <2>4. ElementsInv'
      BY <1>3, <1>5, <2>1 DEF OnceInv, ElementsInv
    <2>5. MadeInv'
      BY <1>3, <1>5, <1>7, <2>1 DEF OnceInv, MadeInv
    <2> QED BY <1>6, <2>2, <2>3, <2>4, <2>5 DEF OnceInv
  <1>9. CASE Out[p] # NoQueue
    <2>1. log' = log /\ \A r \in Postboys : hand'[r] = IF r = p THEN e.item ELSE hand[r]
      BY <1>2, <1>9 DEF IInv, ShapeInv
    <2>2. HandInv'
      BY <1>2, <1>9 DEF Goto, OnceInv, HandInv, IInv, ShapeInv
    <2>3. \A r \in Postboys : hand[r] # e.item
      BY <1>3 DEF OnceInv, ApartInv
    <2>4. \A f \in Elements : f.item = e.item /\ (InQueue(f) \/ f \in log) => f = e
      BY <1>3 DEF OnceInv, ElementsInv
    <2>5. e \notin log
      BY <1>3 DEF OnceInv, ElementsInv
    <2>6. HandsInv'
      BY <2>1, <2>3 DEF OnceInv, HandsInv
    <2>7. ApartInv'
      BY <1>5, <2>1, <2>4, <2>5 DEF OnceInv, ApartInv
    <2>8. ElementsInv'
      BY <1>5, <2>1 DEF OnceInv, ElementsInv
    <2>9. MadeInv'
      BY <1>1, <1>3, <1>4, <1>5, <1>7, <2>1, <2>4, NothingAssumption DEF OnceInv, MadeInv
    <2> QED BY <1>6, <2>2, <2>6, <2>7, <2>8, <2>9 DEF OnceInv
  <1> QED BY <1>8, <1>9

LEMMA PutKeepsOnce ==
  ASSUME IInv, OnceInv, NEW p \in Postboys, Put(p)
  PROVE  OnceInv'
  <1> DEFINE e == Element(p)
  <1>1. Out[p] \in Queues /\ hand[p] \in Items
    BY DEF Put, IInv, RoleInv
  <1>2. e \in Elements /\ e.item = hand[p] /\ e.by = p /\ hand[p] # Nothing
    BY <1>1, NothingAssumption DEF Element, Elements, IInv, ShapeInv
  <1>3. contents' = [contents EXCEPT ![Out[p]] = @ \cup {e}] /\ UNCHANGED <<next, log>>
    BY DEF Put
  <1> HIDE DEF e
  <1>4. \A f : InQueue(f)' <=> InQueue(f) \/ f = e
    BY <1>1, <1>3 DEF InQueue, IInv, ShapeInv
  <1>5. PlaceInv'
    BY <1>1, <1>2, <1>3 DEF OnceInv, PlaceInv, IInv, ShapeInv
  <1>6. \A r \in Postboys : hand'[r] = IF r = p THEN Nothing ELSE hand[r]
    BY DEF Put, IInv, ShapeInv
  <1>7. HandInv'
    BY <1>6 DEF Put, Goto, OnceInv, HandInv, IInv, ShapeInv
  <1>8. HandsInv'
    BY <1>6, NothingAssumption DEF OnceInv, HandsInv
  <1>9. \A f \in Elements : f.item = hand[p] => ~InQueue(f) /\ f \notin log
    BY DEF OnceInv, ApartInv
  <1>10. ElementsInv'
    BY <1>2, <1>3, <1>4, <1>9 DEF OnceInv, ElementsInv
  <1>11. ApartInv'
    <2>1. \A r \in Postboys : r # p => hand[r] # hand[p]
      BY <1>1 DEF OnceInv, HandsInv
    <2> QED BY <1>2, <1>3, <1>4, <1>6, <2>1, ElementFacts DEF OnceInv, ApartInv
  <1>12. MadeInv'
    BY <1>1, <1>2, <1>3, <1>4, <1>6, NothingAssumption DEF OnceInv, MadeInv
  <1> QED BY <1>5, <1>7, <1>8, <1>10, <1>11, <1>12 DEF OnceInv

LEMMA OnceNext == IInv /\ OnceInv /\ [Next]_vars => OnceInv'
  <1> SUFFICES ASSUME IInv, OnceInv, [Next]_vars PROVE OnceInv'
    OBVIOUS
  <1>1. CASE UNCHANGED vars
    BY <1>1, OnceKept DEF vars
  <1>2. ASSUME NEW p \in Postboys,
               BeginTake(p) \/ FindEmpty(p) \/ CountProducers(p) \/ LeaveLoop(p) \/ UnlinkQueues(p)
        PROVE  OnceInv'
    <2>1. UNCHANGED <<hand, next, contents, log>>
      BY <1>2 DEF BeginTake, FindEmpty, CountProducers, LeaveLoop, UnlinkQueues
    <2>2. \A r \in Postboys : pc'[r] = "put" <=> pc[r] = "put"
      BY <1>2 DEF BeginTake, FindEmpty, CountProducers, LeaveLoop, UnlinkQueues, Goto,
         IInv, ShapeInv
    <2> QED BY <2>1, <2>2, OnceKept
  <1>3. ASSUME NEW p \in Postboys, ClientFinish(p) \/ ClientSample(p) \/ EndSampling(p)
        PROVE  OnceInv'
    BY <1>3, OnceKept DEF ClientFinish, ClientSample, EndSampling
  <1> QED BY <1>1, <1>2, <1>3, ProduceKeepsOnce, DequeueKeepsOnce, PutKeepsOnce DEF Next, Worker

LEMMA OnceInvariance == Spec => []OnceInv
  BY OnceInit, OnceNext, Invariance, PTL DEF Spec

\* Whatever the graph, whoever finishes and whenever, every item made is in one
\* hand, in one queue or used up, and once only.
THEOREM Conservation == Spec => []ItemsAreConserved
  <1>1. IInv /\ OnceInv => ItemsAreConserved
    <2> SUFFICES ASSUME IInv, OnceInv, NEW s \in Sources, NEW n \in 0 .. Limit[s] - 1,
                        NEW i, i = [source |-> s, n |-> n]
                 PROVE  Cardinality(HandsWith(i)) + Cardinality(QueuedAs(i))
                            + Cardinality(UsedAs(i))
                          = IF n < next[s] THEN 1 ELSE 0
      BY DEF ItemsAreConserved
    <2>1. i \in Items /\ i.n = n /\ i.source = s /\ i # Nothing
      BY PipelineAssumption, NothingAssumption DEF Items, Sources
    <2>2. \A e : e \in QueuedAs(i) <=> e \in Elements /\ e.item = i /\ InQueue(e)
      BY DEF QueuedAs, InQueue, IInv, ShapeInv
    <2>3. \A e : e \in UsedAs(i) <=> e \in Elements /\ e.item = i /\ e \in log
      BY DEF UsedAs, IInv, ShapeInv
    <2>4. \A p : p \in HandsWith(i) <=> p \in Postboys /\ hand[p] = i
      BY DEF HandsWith
    <2>5. Cardinality({}) = 0 /\ \A x : Cardinality({x}) = 1
      BY FS_EmptySet, FS_Singleton
    <2>6. CASE ~(n < next[s])
      <3>1. HandsWith(i) = {} /\ QueuedAs(i) = {} /\ UsedAs(i) = {}
        BY <2>1, <2>2, <2>3, <2>4, <2>6 DEF OnceInv, MadeInv
      <3>2. /\ Cardinality(HandsWith(i)) = 0 /\ Cardinality(QueuedAs(i)) = 0
            /\ Cardinality(UsedAs(i)) = 0
        BY <2>5, <3>1, Zenon
      <3> QED BY <2>6, <3>2
    <2>7. CASE \E p \in Postboys : hand[p] = i
      <3>1. PICK p \in Postboys : hand[p] = i
        BY <2>7
      <3>2. HandsWith(i) = {p}
        BY <2>1, <2>4, <3>1 DEF OnceInv, HandsInv
      <3>3. QueuedAs(i) = {} /\ UsedAs(i) = {}
        BY <2>2, <2>3, <3>1 DEF OnceInv, ApartInv
      <3>4. n < next[s]
        BY <2>1, <2>7 DEF OnceInv, MadeInv
      <3>5. /\ Cardinality(HandsWith(i)) = 1 /\ Cardinality(QueuedAs(i)) = 0
            /\ Cardinality(UsedAs(i)) = 0
        BY <2>5, <3>2, <3>3, Zenon
      <3> QED BY <3>4, <3>5
    <2>8. CASE \E e \in Elements : e.item = i /\ (InQueue(e) \/ e \in log)
      <3>1. PICK e \in Elements : e.item = i /\ (InQueue(e) \/ e \in log)
        BY <2>8
      <3>2. HandsWith(i) = {}
        BY <2>4, <3>1 DEF OnceInv, ApartInv
      <3>3. \A f \in Elements : f.item = i /\ (InQueue(f) \/ f \in log) => f = e
        BY <3>1 DEF OnceInv, ElementsInv
      <3>4. ~(InQueue(e) /\ e \in log)
        BY DEF OnceInv, ElementsInv
      <3>5. \/ QueuedAs(i) = {e} /\ UsedAs(i) = {}
            \/ QueuedAs(i) = {} /\ UsedAs(i) = {e}
        BY <2>2, <2>3, <3>1, <3>3, <3>4
      <3>6. n < next[s]
        BY <2>1, <2>8 DEF OnceInv, MadeInv
      <3>7. /\ Cardinality(HandsWith(i)) = 0
            /\ \/ Cardinality(QueuedAs(i)) = 1 /\ Cardinality(UsedAs(i)) = 0
               \/ Cardinality(QueuedAs(i)) = 0 /\ Cardinality(UsedAs(i)) = 1
        BY <2>5, <3>2, <3>5, Zenon
      <3> QED BY <3>6, <3>7
    <2> QED BY <2>1, <2>6, <2>7, <2>8 DEF OnceInv, MadeInv
  <1> QED BY <1>1, OnceInvariance, Invariance, PTL

-----------------------------------------------------------------------------
(* The order of each source's items, where routes join only at the end.     *)

LEMMA ReachStep ==
  ASSUME NEW p \in Postboys
  PROVE  /\ p \in Reach(p) /\ Reach(p) \subseteq Postboys
         /\ \A a \in Reach(p), c \in Forwarders : Out[a] = In[c] => c \in Reach(p)
  BY DEF Reach, LeadsNowhereElse, Forwarders, Takers

LEMMA ReachLeast ==
  ASSUME NEW p \in Postboys, NEW S \in SUBSET Postboys, p \in S, LeadsNowhereElse(S)
  PROVE  Reach(p) \subseteq S
  BY DEF Reach

LEMMA ReachTransitive ==
  ASSUME NEW p \in Postboys, NEW c \in Reach(p)
  PROVE  Reach(c) \subseteq Reach(p)
  BY ReachStep, ReachLeast DEF LeadsNowhereElse

\* What is reached is reached through a producer of its queue.
LEMMA ReachThrough ==
  ASSUME NEW p \in Postboys, NEW c \in Reach(p), c # p
  PROVE  c \in Forwarders /\ \E a \in Reach(p) : Out[a] = In[c]
  <1> DEFINE S == {d \in Reach(p) :
                     d = p \/ (d \in Forwarders /\ \E a \in Reach(p) : Out[a] = In[d])}
  <1>1. S \in SUBSET Postboys /\ p \in S
    BY ReachStep
  <1>2. LeadsNowhereElse(S)
    BY ReachStep DEF LeadsNowhereElse
  <1>3. Reach(p) \subseteq S
    <2> HIDE DEF S
    <2> QED BY <1>1, <1>2, ReachLeast
  <1> QED BY <1>3

\* No item that comes to c comes back to who puts into c's queue: otherwise the
\* source could be cut off, without losing any of what it reaches.
LEMMA NoWayBack ==
  ASSUME RoutesJoinOnlyAtTheEnd, NEW s \in Sources, NEW r \in Reach(s),
         NEW c \in Forwarders, Out[r] = In[c]
  PROVE  r \notin Reach(c)
  <1> SUFFICES ASSUME r \in Reach(c) PROVE FALSE
    OBVIOUS
  <1> DEFINE S == Reach(s) \ Reach(c)
  <1>1. s \in Postboys /\ c \in Postboys /\ c # s /\ s \notin Forwarders
    BY DEF Sources, Forwarders, Takers
  <1>2. c \in Reach(s) /\ Reach(c) \subseteq Reach(s)
    BY <1>1, ReachStep, ReachTransitive
  <1>3. s \in S /\ S \in SUBSET Postboys
    BY <1>1, ReachStep, ReachThrough
  <1>4. ASSUME NEW a \in S, NEW d \in Forwarders, Out[a] = In[d]
        PROVE  d \in S
    <2>1. d \in Reach(s)
      BY <1>1, <1>4, ReachStep
    <2>2. CASE d = c
      BY <1>4, <2>2 DEF RoutesJoinOnlyAtTheEnd
    <2>3. CASE d \in Reach(c) /\ d # c
      <3>1. PICK b \in Reach(c) : Out[b] = In[d]
        BY <1>1, <2>3, ReachThrough
      <3>2. a = b
        BY <1>2, <1>4, <3>1 DEF RoutesJoinOnlyAtTheEnd
      <3> QED BY <3>1, <3>2
    <2> QED BY <2>1, <2>2, <2>3
  <1>5. LeadsNowhereElse(S)
    BY <1>4 DEF LeadsNowhereElse
  <1>6. Reach(s) \subseteq S
    <2> HIDE DEF S
    <2> QED BY <1>1, <1>3, <1>5, ReachLeast
  <1>7. c \in Reach(c)
    BY <1>1, ReachStep
  <1> QED BY <1>2, <1>6, <1>7

Earlier(i, j) == i.source = j.source => i.n < j.n

\* Item i is with postboy p: in its hand, or queued by it.  Or it has been.
Holds(p, i) ==
  hand[p] = i \/ \E e \in Elements : e.by = p /\ e.item = i /\ InQueue(e)
Passed(p, i) ==
  Holds(p, i) \/ \E e \in Elements : e.by = p /\ e.item = i /\ e \in log

\* What one postboy has put lies in a queue in the order of the sources, behind
\* what is used up, and before what it has in its hand.
KeyInv == \A e \in Elements : InQueue(e) => e.k < puts[e.by]
LineInv ==
  \A e, f \in Elements :
    InQueue(e) /\ InQueue(f) /\ e.by = f.by =>
      (e.k = f.k => e = f) /\ (e.k < f.k => Earlier(e.item, f.item))
UsedInv ==
  \A e, f \in Elements :
    InQueue(e) /\ f \in log /\ f.by = e.by => Earlier(f.item, e.item)
FrontInv ==
  \A p \in Postboys : \A e \in Elements :
    hand[p] \in Items /\ e.by = p /\ (InQueue(e) \/ e \in log) => Earlier(e.item, hand[p])

\* An item is on a route of its source, and what has come to a postboy is
\* earlier than what is still with those that it may come from.
RouteInv ==
  \A p \in Postboys : \A i \in Items : Holds(p, i) => p \in Reach(i.source)
PassInv ==
  \A p \in Postboys : \A c \in Reach(p) \ {p} : \A i, j \in Items :
    Passed(c, i) /\ Holds(p, j) => Earlier(i, j)

OrderInv == KeyInv /\ LineInv /\ UsedInv /\ FrontInv /\ RouteInv /\ PassInv

LEMMA OrderInit == Init => OrderInv
  <1> SUFFICES ASSUME Init PROVE OrderInv
    OBVIOUS
  <1>1. \A e : ~InQueue(e) /\ e \notin log
    BY DEF Init, InQueue
  <1>2. \A p \in Postboys : hand[p] = Nothing /\ Nothing \notin Items
    BY NothingAssumption DEF Init
  <1>3. \A p \in Postboys : \A i \in Items : ~Holds(p, i)
    BY <1>1, <1>2 DEF Holds
  <1> QED BY <1>1, <1>2, <1>3 DEF OrderInv, KeyInv, LineInv, UsedInv, FrontInv, RouteInv, PassInv

LEMMA OrderKept ==
  ASSUME OrderInv, UNCHANGED <<hand, puts, contents, log>>
  PROVE  OrderInv'
  BY DEF OrderInv, KeyInv, LineInv, UsedInv, FrontInv, RouteInv, PassInv, Holds, Passed, InQueue

LEMMA ProduceKeepsOrder ==
  ASSUME IInv, OnceInv, OrderInv, NEW p \in Postboys, Produce(p)
  PROVE  OrderInv'
  <1>1. CASE next[p] < Limit[p]
    <2> DEFINE i == [source |-> p, n |-> next[p]]
    <2>1. i \in Items /\ i # Nothing /\ p \in Sources
      BY NothingAssumption DEF Produce, Items, IInv, ShapeInv
    <2>2. hand' = [hand EXCEPT ![p] = i] /\ hand[p] = Nothing /\ UNCHANGED <<puts, contents, log>>
      BY <1>1 DEF Produce, OnceInv, HandInv
    <2>3. \A j \in Items :
            (\E r \in Postboys : Passed(r, j)) => Earlier(j, i)
      BY DEF OnceInv, MadeInv, Passed, Holds, Earlier
    <2>4. p \in Reach(i.source) /\ \A r \in Postboys : p \in Reach(r) => r = p
      BY <2>1, ReachStep, ReachThrough DEF Sources, Forwarders, Takers
    <2> HIDE DEF i
    <2>5. \A r \in Postboys : hand'[r] = IF r = p THEN i ELSE hand[r]
      BY <2>2 DEF IInv, ShapeInv
    <2>6. \A f : InQueue(f)' <=> InQueue(f)
      BY <2>2 DEF InQueue
    <2>7. \A r \in Postboys : \A j \in Items :
            /\ Holds(r, j)' <=> Holds(r, j) \/ (r = p /\ j = i)
            /\ Passed(r, j)' <=> Passed(r, j) \/ (r = p /\ j = i)
      BY <2>2, <2>5, <2>6, NothingAssumption DEF Holds, Passed
    <2>8. KeyInv' /\ LineInv' /\ UsedInv'
      BY <2>2, <2>6 DEF OrderInv, KeyInv, LineInv, UsedInv
    <2>9. FrontInv'
      <3> SUFFICES ASSUME NEW r \in Postboys, NEW e \in Elements, hand'[r] \in Items,
                          e.by = r, InQueue(e) \/ e \in log
                   PROVE  Earlier(e.item, hand'[r])
        BY <2>2, <2>6 DEF FrontInv
      <3>1. e.item \in Items /\ Passed(r, e.item)
        BY ElementFacts DEF Passed, Holds
      <3> QED BY <2>3, <2>5, <3>1 DEF OrderInv, FrontInv
    <2>10. RouteInv'
      BY <2>4, <2>7 DEF OrderInv, RouteInv
    <2>11. PassInv'
      <3> SUFFICES ASSUME NEW x \in Postboys, NEW d \in Reach(x) \ {x},
                          NEW j \in Items, NEW k \in Items, Passed(d, j)', Holds(x, k)'
                   PROVE  Earlier(j, k)
        BY DEF PassInv
      <3>1. d \in Postboys /\ Passed(d, j)
        BY <2>4, <2>7, ReachStep
      <3> QED BY <2>3, <2>7, <3>1 DEF OrderInv, PassInv
    <2> QED BY <2>8, <2>9, <2>10, <2>11 DEF OrderInv
  <1>2. CASE ~(next[p] < Limit[p])
    BY <1>2, OrderKept DEF Produce
  <1> QED BY <1>1, <1>2

LEMMA PutKeepsOrder ==
  ASSUME IInv, OnceInv, OrderInv, NEW p \in Postboys, Put(p)
  PROVE  OrderInv'
  <1> DEFINE e == Element(p)
  <1>1. Out[p] \in Queues /\ hand[p] \in Items /\ puts[p] \in Nat
    BY DEF Put, IInv, RoleInv, ShapeInv
  <1>2. e \in Elements /\ e.item = hand[p] /\ e.by = p /\ e.k = puts[p] /\ hand[p] # Nothing
    BY <1>1, NothingAssumption DEF Element, Elements
  <1>3. /\ contents' = [contents EXCEPT ![Out[p]] = @ \cup {e}]
        /\ puts' = [puts EXCEPT ![p] = @ + 1] /\ log' = log
    BY DEF Put
  <1> HIDE DEF e
  <1>4. \A f : InQueue(f)' <=> InQueue(f) \/ f = e
    BY <1>1, <1>3 DEF InQueue, IInv, ShapeInv
  <1>5. \A r \in Postboys : hand'[r] = IF r = p THEN Nothing ELSE hand[r]
    BY DEF Put, IInv, ShapeInv
  <1>6. \A r \in Postboys : puts'[r] = IF r = p THEN puts[r] + 1 ELSE puts[r]
    BY <1>3 DEF IInv, ShapeInv
  <1>7. \A r \in Postboys : \A j \in Items :
          (Holds(r, j)' <=> Holds(r, j)) /\ (Passed(r, j)' <=> Passed(r, j))
    BY <1>2, <1>3, <1>4, <1>5, NothingAssumption DEF Holds, Passed
  <1>8. ASSUME NEW f \in Elements, f.by = p, InQueue(f) \/ f \in log
        PROVE  Earlier(f.item, e.item)
    BY <1>1, <1>2, <1>8 DEF OrderInv, FrontInv
  <1>9. ASSUME NEW f \in Elements, f.by = p, InQueue(f)
        PROVE  f.k < e.k /\ f.k \in Nat
    BY <1>2, <1>9 DEF OrderInv, KeyInv, Elements
  <1>10. KeyInv'
    <2> SUFFICES ASSUME NEW f \in Elements, InQueue(f) \/ f = e PROVE f.k < puts'[f.by]
      BY <1>4 DEF KeyInv
    <2>1. f.by \in Postboys /\ f.k \in Nat /\ puts[f.by] \in Nat
      BY DEF Elements, IInv, ShapeInv
    <2> QED BY <1>2, <1>6, <2>1 DEF OrderInv, KeyInv
  <1>11. LineInv'
    <2> SUFFICES ASSUME NEW f \in Elements, NEW g \in Elements, f.by = g.by,
                        InQueue(f) \/ f = e, InQueue(g) \/ g = e
                 PROVE  (f.k = g.k => f = g) /\ (f.k < g.k => Earlier(f.item, g.item))
      BY <1>4 DEF LineInv
    <2>1. CASE InQueue(f) /\ InQueue(g)
      BY <2>1 DEF OrderInv, LineInv
    <2>2. CASE f = e /\ g = e
      BY <1>1, <1>2, <2>2
    <2>3. CASE f # e /\ g = e
      BY <1>2, <1>8, <1>9, <2>3
    <2>4. CASE f = e /\ g # e
      BY <1>1, <1>2, <1>9, <2>4
    <2> QED BY <2>1, <2>2, <2>3, <2>4
  <1>12. UsedInv'
    BY <1>2, <1>3, <1>4, <1>8 DEF OrderInv, UsedInv
  <1>13. FrontInv'
    BY <1>2, <1>3, <1>4, <1>5, NothingAssumption DEF OrderInv, FrontInv
  <1>14. RouteInv'
    BY <1>7 DEF OrderInv, RouteInv
  <1>15. PassInv'
    BY <1>7, ReachStep DEF OrderInv, PassInv
  <1> QED BY <1>10, <1>11, <1>12, <1>13, <1>14, <1>15 DEF OrderInv

LEMMA DequeueKeepsOrder ==
  ASSUME RoutesJoinOnlyAtTheEnd, IInv, OnceInv, OrderInv, NEW p \in Postboys, Dequeue(p)
  PROVE  OrderInv'
  <1>1. p \in Takers /\ In[p] \in Queues /\ hand[p] = Nothing
    BY PipelineAssumption DEF Dequeue, IInv, RoleInv, Takers, Sources, OnceInv, HandInv
  <1>2. PICK e \in Heads(In[p]) :
          /\ contents' = [contents EXCEPT ![In[p]] = @ \ {e}]
          /\ IF Out[p] = NoQueue
               THEN /\ log' = log \cup {e}
                    /\ Goto(p, "between") \/ Goto(p, "take")
                    /\ UNCHANGED hand
               ELSE /\ hand' = [hand EXCEPT ![p] = e.item]
                    /\ Goto(p, "put")
                    /\ UNCHANGED log
    BY DEF Dequeue
  <1>3. e \in contents[In[p]] /\ e \in Elements /\ InQueue(e) /\ Out[e.by] = In[p]
    BY <1>1, <1>2 DEF Heads, IInv, ShapeInv, InQueue, OnceInv, PlaceInv
  <1>4. e.item \in Items /\ e.item # Nothing /\ e.by \in Postboys /\ e.item.source \in Sources
    BY <1>3, ElementFacts DEF Items
  <1>5. \A f : InQueue(f)' <=> InQueue(f) /\ f # e
    BY <1>1, <1>2, <1>3 DEF InQueue, OnceInv, PlaceInv, IInv, ShapeInv
  <1>6. UNCHANGED puts
    BY DEF Dequeue
  \* What else the producer has queued, or has in its hand, is later than e.
  <1>7. ASSUME NEW f \in Elements, InQueue(f), f # e, f.by = e.by
        PROVE  Earlier(e.item, f.item)
    <2>1. f \in contents[In[p]]
      BY <1>3, <1>7 DEF InQueue, OnceInv, PlaceInv
    <2>2. e.k <= f.k /\ e.k \in Nat /\ f.k \in Nat
      BY <1>2, <1>3, <1>7, <2>1 DEF Heads, Elements
    <2> QED BY <1>3, <1>7, <2>2 DEF OrderInv, LineInv
  <1>8. KeyInv' /\ LineInv'
    BY <1>5, <1>6 DEF OrderInv, KeyInv, LineInv
  <1> DEFINE b == e.by
  <1>9. Holds(b, e.item) /\ Passed(b, e.item)
    BY <1>3 DEF Holds, Passed
  <1>10. CASE Out[p] = NoQueue
    <2>1. hand' = hand /\ log' = log \cup {e}
      BY <1>2, <1>10
    <2>2. \A r \in Postboys : \A j \in Items :
            (Holds(r, j)' => Holds(r, j)) /\ (Passed(r, j)' => Passed(r, j))
      BY <1>3, <1>5, <2>1 DEF Holds, Passed
    <2>3. UsedInv'
      BY <1>5, <1>7, <2>1 DEF OrderInv, UsedInv
    <2>4. FrontInv'
      BY <1>3, <1>5, <2>1 DEF OrderInv, FrontInv
    <2>5. RouteInv' /\ PassInv'
      BY <2>2, ReachStep DEF OrderInv, RouteInv, PassInv
    <2> QED BY <1>8, <2>3, <2>4, <2>5 DEF OrderInv
  <1>11. CASE Out[p] # NoQueue
    <2>1. log' = log /\ \A r \in Postboys : hand'[r] = IF r = p THEN e.item ELSE hand[r]
      BY <1>2, <1>11 DEF IInv, ShapeInv
    <2>2. p \in Forwarders /\ b \in Reach(e.item.source)
      BY <1>1, <1>4, <1>9, <1>11 DEF Forwarders, OrderInv, RouteInv
    <2>3. e.item.source \in Postboys
      BY <1>4 DEF Sources
    <2>4. p \in Reach(e.item.source) /\ p \in Reach(b)
      BY <1>3, <1>4, <2>2, <2>3, ReachStep
    <2>5. b \notin Reach(p) /\ p # b /\ Reach(p) \subseteq Reach(b)
      BY <1>1, <1>3, <1>4, <2>2, <2>4, NoWayBack, ReachStep, ReachTransitive
    <2>6. \A r \in Postboys : \A j \in Items :
            /\ Holds(r, j)' => Holds(r, j) \/ (r = p /\ j = e.item)
            /\ Passed(r, j)' => Passed(r, j) \/ (r = p /\ j = e.item)
      BY <1>5, <2>1 DEF Holds, Passed
    <2>7. ASSUME NEW j \in Items, Holds(b, j)'
          PROVE  Earlier(e.item, j)
      <3>1. CASE hand[b] = j
        BY <1>3, <1>4, <3>1 DEF OrderInv, FrontInv
      <3>2. CASE \E f \in Elements : f.by = b /\ f.item = j /\ InQueue(f)'
        BY <1>5, <1>7, <3>2
      <3> QED BY <1>4, <2>1, <2>5, <2>7, <3>1, <3>2 DEF Holds
    <2>8. UsedInv'
      BY <1>5, <2>1 DEF OrderInv, UsedInv
    <2>9. FrontInv'
      <3> SUFFICES ASSUME NEW r \in Postboys, NEW f \in Elements, hand'[r] \in Items,
                          f.by = r, InQueue(f) \/ f \in log
                   PROVE  Earlier(f.item, hand'[r])
        BY <1>5, <2>1 DEF FrontInv
      <3>1. f.item \in Items /\ Passed(r, f.item)
        BY ElementFacts DEF Passed, Holds
      <3>2. CASE r = p
        BY <1>4, <1>9, <2>1, <2>4, <2>5, <3>1, <3>2 DEF OrderInv, PassInv
      <3> QED BY <2>1, <3>2 DEF OrderInv, FrontInv
    <2>10. RouteInv'
      BY <2>4, <2>6 DEF OrderInv, RouteInv
    <2>11. PassInv'
      <3> SUFFICES ASSUME NEW x \in Postboys, NEW d \in Reach(x) \ {x},
                          NEW i \in Items, NEW j \in Items, Passed(d, i)', Holds(x, j)',
                          i.source = j.source
                   PROVE  i.n < j.n
        BY DEF PassInv, Earlier
      <3>1. d \in Postboys
        BY ReachStep
      <3>2. CASE d = p /\ i = e.item
        <4>1. Holds(x, j)
          BY <2>6, <3>2
        <4>2. CASE x = b
          BY <2>7, <3>2, <4>2 DEF Earlier
        <4>3. CASE x # b
          <5>1. x \in Reach(e.item.source)
            BY <3>2, <4>1 DEF OrderInv, RouteInv
          <5>2. PICK a \in Reach(x) : Out[a] = In[p]
            BY <3>2, ReachThrough
          <5>3. a = b
            BY <1>3, <1>4, <2>2, <2>3, <5>1, <5>2, ReachTransitive DEF RoutesJoinOnlyAtTheEnd
          <5> QED BY <1>4, <1>9, <3>2, <4>1, <4>3, <5>2, <5>3 DEF OrderInv, PassInv, Earlier
        <4> QED BY <4>2, <4>3
      <3>3. CASE Passed(d, i) /\ x = p /\ j = e.item
        <4>1. d \in Reach(b) \ {b}
          BY <2>5, <3>3
        <4> QED BY <1>4, <1>9, <3>3, <4>1 DEF OrderInv, PassInv, Earlier
      <3>4. CASE Passed(d, i) /\ Holds(x, j)
        BY <3>4 DEF OrderInv, PassInv, Earlier
      <3> QED BY <2>6, <3>1, <3>2, <3>3, <3>4
    <2> QED BY <1>8, <2>8, <2>9, <2>10, <2>11 DEF OrderInv
  <1> QED BY <1>10, <1>11

LEMMA OrderNext ==
  RoutesJoinOnlyAtTheEnd /\ IInv /\ OnceInv /\ OrderInv /\ [Next]_vars => OrderInv'
  <1> SUFFICES ASSUME RoutesJoinOnlyAtTheEnd, IInv, OnceInv, OrderInv, [Next]_vars
               PROVE  OrderInv'
    OBVIOUS
  <1>1. CASE UNCHANGED vars
    BY <1>1, OrderKept DEF vars
  <1>2. ASSUME NEW p \in Postboys,
               \/ BeginTake(p) \/ FindEmpty(p) \/ CountProducers(p) \/ LeaveLoop(p)
               \/ UnlinkQueues(p) \/ ClientFinish(p) \/ ClientSample(p) \/ EndSampling(p)
        PROVE  OrderInv'
    BY <1>2, OrderKept DEF BeginTake, FindEmpty, CountProducers, LeaveLoop, UnlinkQueues,
       ClientFinish, ClientSample, EndSampling
  <1> QED BY <1>1, <1>2, ProduceKeepsOrder, DequeueKeepsOrder, PutKeepsOrder DEF Next, Worker

\* Wherever the items of a source come to a postboy that passes them on from one
\* producer only, those that reach the end of the bindings from one postboy
\* arrive in the order they were made, in every graph and at any speed.
THEOREM OrderOnEveryRoute == RoutesJoinOnlyAtTheEnd => (Spec => RoutesKeepOrder)
  <1> SUFFICES ASSUME RoutesJoinOnlyAtTheEnd PROVE Spec => RoutesKeepOrder
    OBVIOUS
  <1> DEFINE A == \A e \in log' \ log, f \in log :
                    e.by = f.by /\ e.item.source = f.item.source => f.item.n < e.item.n
  <1>1. IInv /\ OrderInv /\ [Next]_vars => [A]_log
    <2> SUFFICES ASSUME IInv, OrderInv, Next,
                        NEW e \in log' \ log, NEW f \in log,
                        e.by = f.by, e.item.source = f.item.source
                 PROVE  f.item.n < e.item.n
      BY DEF vars
    <2>1. PICK p \in Postboys : Dequeue(p)
      BY DEF Next, Worker, Produce, BeginTake, FindEmpty, CountProducers, Put, LeaveLoop,
         UnlinkQueues, ClientFinish, ClientSample, EndSampling
    <2>2. In[p] \in Queues
      BY <2>1, PipelineAssumption DEF Dequeue, IInv, RoleInv, Takers, Sources
    <2>3. e \in Elements /\ f \in Elements /\ InQueue(e)
      BY <2>1, <2>2 DEF Dequeue, Heads, InQueue, IInv, ShapeInv
    <2> QED BY <2>3 DEF OrderInv, UsedInv, Earlier
  <1>2. OrderInv /\ IInv /\ OnceInv /\ [Next]_vars => OrderInv'
    BY OrderNext
  <1>3. Spec => []OrderInv
    BY <1>2, OnceInvariance, OrderInit, Invariance, PTL DEF Spec
  <1>4. Spec => [][A]_log
    BY <1>1, <1>3, Invariance, PTL DEF Spec
  <1> QED BY <1>4 DEF RoutesKeepOrder
=============================================================================
