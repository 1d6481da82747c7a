------------------------------ MODULE MpscQueue ------------------------------
(***************************************************************************)
(* MPSCUnboundedIntrusiveLockFreeQueue: producers push nodes on a          *)
(* lock-free stack; the one consumer takes the whole stack at once,        *)
(* reverses it into an intrusive forward list, appends that to the nodes   *)
(* it has acquired (acq_), and pops.  A node that was taken may be put     *)
(* again, at the same address, by any producer.                            *)
(*                                                                         *)
(* One action per access of the stack's head and per store of a link.      *)
(***************************************************************************)
EXTENDS Naturals, Sequences, SequencesExt, FiniteSets

CONSTANTS
  Producers,
  Nodes,
  None        \* nullptr

MpscAssumption == IsFiniteSet(Nodes) /\ None \notin Nodes

VARIABLES
  head,    \* head_ of the stack
  next,    \* next_ of each node
  idle,    \* the nodes that are in nobody's hands
  ppc, node, seen,  \* of each producer: where it is, its node, the head it has read
  cpc, popped,      \* of the consumer: where it is, the rest of the stack it took
  acq, res          \* the lists acq_ and result: [head, tail]

producerVars == <<ppc, node, seen>>
consumerVars == <<cpc, popped, acq, res>>
mvars == <<head, next, idle, producerVars, consumerVars>>

Empty == [head |-> None, tail |-> None]

Init ==
  /\ head = None
  /\ next = [n \in Nodes |-> None]
  /\ idle = Nodes
  /\ ppc = [p \in Producers |-> "idle"]
  /\ node = [p \in Producers |-> None] /\ seen = [p \in Producers |-> None]
  /\ cpc = "idle" /\ popped = None
  /\ acq = Empty /\ res = Empty

-----------------------------------------------------------------------------
(* Put, which is Push of the stack.                                         *)

LoadHead(p) ==
  /\ ppc[p] = "idle"
  /\ \E n \in idle :
       /\ node' = [node EXCEPT ![p] = n]
       /\ idle' = idle \ {n}
  /\ seen' = [seen EXCEPT ![p] = head]
  /\ ppc' = [ppc EXCEPT ![p] = "link"]
  /\ UNCHANGED <<head, next, consumerVars>>

Link(p) ==
  /\ ppc[p] = "link"
  /\ next' = [next EXCEPT ![node[p]] = seen[p]]
  /\ ppc' = [ppc EXCEPT ![p] = "exchange"]
  /\ UNCHANGED <<head, idle, node, seen, consumerVars>>

\* The compare-exchange is a weak one: it may fail although the head is the same.
Exchange(p) ==
  /\ ppc[p] = "exchange"
  /\ \/ /\ head = seen[p] /\ head' = node[p]
        /\ ppc' = [ppc EXCEPT ![p] = "idle"]
        /\ node' = [node EXCEPT ![p] = None] /\ seen' = [seen EXCEPT ![p] = None]
     \/ /\ seen' = [seen EXCEPT ![p] = head]
        /\ ppc' = [ppc EXCEPT ![p] = "link"]
        /\ UNCHANGED <<head, node>>
  /\ UNCHANGED <<next, idle, consumerVars>>

Put(p) == LoadHead(p) \/ Link(p) \/ Exchange(p)

-----------------------------------------------------------------------------
(* TryTake.                                                                 *)

\* TryPopAllReversed begins, unless there are acquired nodes.
PopAll ==
  /\ cpc = "idle" /\ acq.head = None
  /\ popped' = head
  /\ head' = None
  /\ cpc' = "relink"
  /\ UNCHANGED <<next, idle, acq, res, producerVars>>

\* PushFront leaves the link of the first node of a list as it was: the last
\* node of the result still points to the one put before it.
Relink ==
  /\ cpc = "relink" /\ popped # None
  /\ popped' = next[popped]
  /\ IF res.head = None
       THEN res' = [head |-> popped, tail |-> popped] /\ UNCHANGED next
       ELSE /\ next' = [next EXCEPT ![popped] = res.head]
            /\ res' = [res EXCEPT !.head = popped]
  /\ UNCHANGED <<head, idle, cpc, acq, producerVars>>

\* Append to the empty list acq_.
Acquire ==
  /\ cpc = "relink" /\ popped = None
  /\ acq' = res
  /\ res' = Empty
  /\ cpc' = "pop"
  /\ UNCHANGED <<head, next, idle, popped, producerVars>>

\* Mutant of PopFront: the last node is recognised by its link.
PopFrontByLink ==
  /\ acq.head # None /\ cpc \in {"idle", "pop"}
  /\ acq' = IF next[acq.head] = None THEN Empty ELSE [acq EXCEPT !.head = next[acq.head]]
  /\ next' = [next EXCEPT ![acq.head] = None]
  /\ idle' = idle \cup {acq.head}
  /\ cpc' = "idle"
  /\ UNCHANGED <<head, popped, res, producerVars>>

PopFront ==
  /\ acq.head # None /\ cpc \in {"idle", "pop"}
  /\ acq' = IF acq.head = acq.tail THEN Empty ELSE [acq EXCEPT !.head = next[acq.head]]
  /\ next' = [next EXCEPT ![acq.head] = None]
  /\ idle' = idle \cup {acq.head}
  /\ cpc' = "idle"
  /\ UNCHANGED <<head, popped, res, producerVars>>

NothingToTake ==
  /\ cpc = "pop" /\ acq.head = None
  /\ cpc' = "idle"
  /\ UNCHANGED <<head, next, idle, popped, acq, res, producerVars>>

TryTake == PopAll \/ Relink \/ Acquire \/ PopFront \/ NothingToTake

-----------------------------------------------------------------------------
Next == (\E p \in Producers : Put(p)) \/ TryTake

Spec == Init /\ [][Next]_mvars

-----------------------------------------------------------------------------
(* Properties                                                               *)

\* The nodes from one to another, or to the end, along the links.
Chain(from, to) ==
  LET N == Cardinality(Nodes) + 1
      reach[k \in 1 .. N] ==
        IF k = 1 THEN from
        ELSE IF reach[k - 1] \in {None, to} THEN None ELSE next[reach[k - 1]]
      length == CHOOSE n \in 0 .. N : \A k \in 1 .. N : reach[k] # None <=> k <= n
  IN  [k \in 1 .. length |-> reach[k]]

\* What was taken and turned round before, what is left of the stack that is being
\* turned round, what of it already is, and what is on the stack.
Items ==
  Chain(acq.head, acq.tail) \o Reverse(Chain(popped, None))
    \o Chain(res.head, res.tail) \o Reverse(Chain(head, None))

\* The queue is a FIFO: a put takes effect when the exchange succeeds, a take when
\* the node is popped; no node is lost, taken twice or overtaken, whatever the
\* link that the last node of a reversed stack keeps, and however often a node
\* comes back while a producer still holds it as the head it has read
\* (mpsc_unbounded_intrusive_lock_free_stack.hpp:15-40, queue.hpp:15-26).
MpscFifo == INSTANCE BoundedFifo WITH
  Capacity <- Cardinality(Nodes),
  Values <- Nodes,
  items <- Items,
  closed <- FALSE
MpscFifoSpec == MpscFifo!FSpec
=============================================================================
