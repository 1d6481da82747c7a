------------------------------ MODULE Pipeline ------------------------------
(***************************************************************************)
(* Running postboys joined by bindings.  Each binding is one queue, with a *)
(* bounded number of elements and a count of the producers still linked to *)
(* it; a producer spins while the queue is full, a consumer while it is    *)
(* empty and a producer is left.  The end of a source travels downstream:  *)
(* the last producer that unlinks makes Take return nullopt, upon which    *)
(* the consumer asks its own postboy to finish, and unlinks in its turn.   *)
(*                                                                         *)
(* Of a postboy's state only what the queues see is kept here: "working"   *)
(* stands for the states in which Postboy::RequestFinish acts, "sampling"  *)
(* for SampleRequested and Sampling, in which it does nothing.  Module     *)
(* Postboy has the rest; a stopped postboy is one that takes no step.      *)
(*                                                                         *)
(* The steps of Put and Take are the accesses of shared memory.  The queue *)
(* itself is a library's (moodycamel): bounded, and first in first out for *)
(* each of its producers, but not across producers.                        *)
(***************************************************************************)
EXTENDS Integers, FiniteSets

CONSTANTS
  Postboys, Queues,
  In, Out,   \* the queue each postboy takes from and puts into, or NoQueue
  NoQueue,
  Capacity,  \* the number of elements a queue holds
  Limit,     \* the number of items each postboy without input produces
  Nothing    \* the hand of a postboy that holds no item

ASSUME PipelineAssumption ==
  /\ IsFiniteSet(Postboys)
  /\ NoQueue \notin Queues
  /\ In \in [Postboys -> Queues \cup {NoQueue}]
  /\ Out \in [Postboys -> Queues \cup {NoQueue}]
  /\ \A p \in Postboys : In[p] # NoQueue \/ Out[p] # NoQueue
  /\ Capacity \in Nat \ {0}
  /\ Limit \in [Postboys -> Nat]

Sources == {p \in Postboys : In[p] = NoQueue}
Takers  == Postboys \ Sources

Producers(q) == {p \in Postboys : Out[p] = q}
Consumers(q) == {p \in Postboys : In[p] = q}

Items == [source : Sources, n : Nat]

ASSUME NothingAssumption == Nothing \notin Items

VARIABLES
  ctl,      \* what each postboy is asked for
  pc,       \* where its worker thread is
  hand,     \* the item the worker took or made, and has not put yet
  next,     \* i_ of each source's processor
  puts,     \* how many elements each postboy has put
  contents, \* the elements of each queue, numbered by their producer
  active,   \* activeProducers_ of each queue
  cut,      \* history: a client asked a postboy with an input to finish
  log       \* history: what the postboys without output took

vars == <<ctl, pc, hand, next, puts, contents, active, cut, log>>

-----------------------------------------------------------------------------
\* All bindings are set up before any postboy runs (Runtime::Prepare), and each
\* producer that is linked has increased the queue's count.
Init ==
  /\ ctl = [p \in Postboys |-> "working"]
  /\ pc = [p \in Postboys |-> "between"]
  /\ hand = [p \in Postboys |-> Nothing]
  /\ next = [p \in Sources |-> 0]
  /\ puts = [p \in Postboys |-> 0]
  /\ contents = [q \in Queues |-> {}]
  /\ active = [q \in Queues |-> Cardinality(Producers(q))]
  /\ cut = FALSE
  /\ log = {}

Goto(p, l) == pc' = [pc EXCEPT ![p] = l]

\* Processor::RequestFinish, called by the processor itself.
RequestFinish(p) ==
  ctl' = [ctl EXCEPT ![p] = IF @ = "working" THEN "finishing" ELSE @]

-----------------------------------------------------------------------------
(* A call of Process, from its start to its return.                        *)

\* Mutant of Produce: the item is not counted.
ProduceAgain(p) ==
  /\ pc[p] = "between" /\ ctl[p] # "finishing"
  /\ p \in Sources
  /\ IF next[p] < Limit[p]
       THEN /\ hand' = [hand EXCEPT ![p] = [source |-> p, n |-> next[p]]]
            /\ Goto(p, "put")
            /\ UNCHANGED ctl
       ELSE RequestFinish(p) /\ UNCHANGED <<pc, hand>>
  /\ UNCHANGED <<next, puts, contents, active, cut, log>>

\* A source makes its next item, or has none left.
Produce(p) ==
  /\ pc[p] = "between" /\ ctl[p] # "finishing"
  /\ p \in Sources
  /\ IF next[p] < Limit[p]
       THEN /\ hand' = [hand EXCEPT ![p] = [source |-> p, n |-> next[p]]]
            /\ next' = [next EXCEPT ![p] = @ + 1]
            /\ Goto(p, "put")
            /\ UNCHANGED ctl
       ELSE RequestFinish(p) /\ UNCHANGED <<pc, hand, next>>
  /\ UNCHANGED <<puts, contents, active, cut, log>>

\* Mutant of BeginTake: RunImpl's sampling loop is missing.
BeginTakeUnlessSampling(p) ==
  /\ pc[p] = "between" /\ ctl[p] = "working"
  /\ p \in Takers
  /\ Goto(p, "take")
  /\ UNCHANGED <<ctl, hand, next, puts, contents, active, cut, log>>

BeginTake(p) ==
  /\ pc[p] = "between" /\ ctl[p] # "finishing"
  /\ p \in Takers
  /\ Goto(p, "take")
  /\ UNCHANGED <<ctl, hand, next, puts, contents, active, cut, log>>

\* The elements try_dequeue may return: the oldest of each producer.
Heads(q) ==
  {e \in contents[q] : \A f \in contents[q] : f.by = e.by => e.k <= f.k}

\* A postboy without output has used the item up; LatencyCounter then goes on
\* taking in the same call of Process, the others return.
Dequeue(p) ==
  /\ pc[p] = "take"
  /\ \E e \in Heads(In[p]) :
       /\ contents' = [contents EXCEPT ![In[p]] = @ \ {e}]
       /\ IF Out[p] = NoQueue
            THEN /\ log' = log \cup {e}
                 /\ Goto(p, "between") \/ Goto(p, "take")
                 /\ UNCHANGED hand
            ELSE /\ hand' = [hand EXCEPT ![p] = e.item]
                 /\ Goto(p, "put")
                 /\ UNCHANGED log
  /\ UNCHANGED <<ctl, next, puts, active, cut>>

\* One of several consumers of an MPMC queue may also be told that it is empty when it
\* is not, because another one has counted itself in vain (ConcurrentQueue): that is
\* left out here.  No safety property turns on it; liveness supposes that it does not
\* go on for ever.
FindEmpty(p) ==
  /\ pc[p] = "take"
  /\ contents[In[p]] = {}
  /\ Goto(p, "count")
  /\ UNCHANGED <<ctl, hand, next, puts, contents, active, cut, log>>

\* Mutant of CountProducers: the last producer is not waited for.
CountOneTooFew(p) ==
  /\ pc[p] = "count"
  /\ IF active[In[p]] <= 1
       THEN RequestFinish(p) /\ Goto(p, "between")
       ELSE Goto(p, "take") /\ UNCHANGED ctl
  /\ UNCHANGED <<hand, next, puts, contents, active, cut, log>>

\* Take returns nullopt if no producer is linked any more.  It does not look at
\* the queue again.
CountProducers(p) ==
  /\ pc[p] = "count"
  /\ IF active[In[p]] = 0
       THEN RequestFinish(p) /\ Goto(p, "between")
       ELSE Goto(p, "take") /\ UNCHANGED ctl
  /\ UNCHANGED <<hand, next, puts, contents, active, cut, log>>

Element(p) == [item |-> hand[p], by |-> p, k |-> puts[p]]

\* Mutant of Put: an item that finds no room is dropped.
PutOrDrop(p) ==
  /\ pc[p] = "put"
  /\ contents' = [contents EXCEPT ![Out[p]] =
                    IF Cardinality(@) < Capacity THEN @ \cup {Element(p)} ELSE @]
  /\ puts' = [puts EXCEPT ![p] = @ + 1]
  /\ hand' = [hand EXCEPT ![p] = Nothing]
  /\ Goto(p, "between")
  /\ UNCHANGED <<ctl, next, active, cut, log>>

\* Put spins, inside Process, until there is room.
Put(p) ==
  /\ pc[p] = "put"
  /\ Cardinality(contents[Out[p]]) < Capacity
  /\ contents' = [contents EXCEPT ![Out[p]] = @ \cup {Element(p)}]
  /\ puts' = [puts EXCEPT ![p] = @ + 1]
  /\ hand' = [hand EXCEPT ![p] = Nothing]
  /\ Goto(p, "between")
  /\ UNCHANGED <<ctl, next, active, cut, log>>

-----------------------------------------------------------------------------
(* The end of RunImpl.                                                     *)

LeaveLoop(p) ==
  /\ pc[p] = "between" /\ ctl[p] = "finishing"
  /\ Goto(p, "unlink")
  /\ UNCHANGED <<ctl, hand, next, puts, contents, active, cut, log>>

\* Mutant of UnlinkQueues: the queue does not learn that a producer is gone.
UnlinkSilently(p) ==
  /\ pc[p] = "unlink"
  /\ Goto(p, "finished")
  /\ UNCHANGED <<ctl, hand, next, puts, contents, active, cut, log>>

\* Mutant of UnlinkQueues: the input queue loses a producer too.
UnlinkBoth(p) ==
  /\ pc[p] = "unlink"
  /\ active' = [q \in Queues |->
                  IF q \in {In[p], Out[p]} THEN active[q] - 1 ELSE active[q]]
  /\ Goto(p, "finished")
  /\ UNCHANGED <<ctl, hand, next, puts, contents, cut, log>>

UnlinkQueues(p) ==
  /\ pc[p] = "unlink"
  /\ active' = IF Out[p] = NoQueue THEN active
               ELSE [active EXCEPT ![Out[p]] = @ - 1]
  /\ Goto(p, "finished")
  /\ UNCHANGED <<ctl, hand, next, puts, contents, cut, log>>

-----------------------------------------------------------------------------
(* The control API, and the end of a sampling.                             *)

ClientFinish(p) ==
  /\ ctl[p] = "working"
  /\ RequestFinish(p)
  /\ cut' = (cut \/ p \in Takers)
  /\ UNCHANGED <<pc, hand, next, puts, contents, active, log>>

ClientSample(p) ==
  /\ ctl[p] = "working"
  /\ ctl' = [ctl EXCEPT ![p] = "sampling"]
  /\ UNCHANGED <<pc, hand, next, puts, contents, active, cut, log>>

EndSampling(p) ==
  /\ ctl[p] = "sampling" /\ pc[p] = "between"
  /\ ctl' = [ctl EXCEPT ![p] = "working"]
  /\ UNCHANGED <<pc, hand, next, puts, contents, active, cut, log>>

-----------------------------------------------------------------------------
Worker(p) ==
  \/ Produce(p) \/ BeginTake(p)
  \/ Dequeue(p) \/ FindEmpty(p) \/ CountProducers(p) \/ Put(p)
  \/ LeaveLoop(p) \/ UnlinkQueues(p)

Next ==
  \E p \in Postboys :
     Worker(p) \/ ClientFinish(p) \/ ClientSample(p) \/ EndSampling(p)

\* Every worker thread runs.  No client has to send anything.
Fairness == \A p \in Postboys : WF_vars(Worker(p))

Spec == Init /\ [][Next]_vars
FairSpec == Spec /\ Fairness

-----------------------------------------------------------------------------
Elements == [item : Items, by : Postboys, k : Nat]

TypeOK ==
  /\ ctl \in [Postboys -> {"working", "sampling", "finishing"}]
  /\ pc \in [Postboys -> {"between", "take", "count", "put", "unlink", "finished"}]
  /\ hand \in [Postboys -> Items \cup {Nothing}]
  /\ next \in [Sources -> Nat]
  /\ puts \in [Postboys -> Nat]
  /\ contents \in [Queues -> SUBSET Elements]
  /\ active \in [Queues -> Nat]
  /\ cut \in BOOLEAN
  /\ log \subseteq Elements

\* Every item a source has made is in exactly one place, in a worker's hand, in
\* a queue, or used up, whoever finishes and whenever: none is lost on the way,
\* none is delivered twice.
HandsWith(i)  == {p \in Postboys : hand[p] = i}
QueuedAs(i)   == {e \in UNION {contents[q] : q \in Queues} : e.item = i}
UsedAs(i)     == {e \in log : e.item = i}

ItemsAreConserved ==
  \A s \in Sources : \A n \in 0 .. Limit[s] - 1 :
    LET i == [source |-> s, n |-> n]
    IN  Cardinality(HandsWith(i)) + Cardinality(QueuedAs(i)) + Cardinality(UsedAs(i))
          = IF n < next[s] THEN 1 ELSE 0

\* Who puts what it takes into another queue, the postboys that items which p
\* puts may come to in this way, and p itself.
Forwarders == {c \in Takers : Out[c] # NoQueue}

LeadsNowhereElse(S) ==
  \A a \in S : \A c \in Forwarders : Out[a] = In[c] => c \in S

Reach(p) ==
  {c \in Postboys :
     \A S \in SUBSET Postboys : p \in S /\ LeadsNowhereElse(S) => c \in S}

\* The items of a source come to a postboy that passes them on from one
\* producer only.  The bindings of a program need not be of this kind.
RoutesJoinOnlyAtTheEnd ==
  \A s \in Sources : \A c \in Forwarders : \A a, b \in Reach(s) :
    Out[a] = In[c] /\ Out[b] = In[c] => a = b

\* Items of one source that reach the end of the pipeline from the same
\* postboy arrive in the order they were made.
RoutesKeepOrder ==
  [][\A e \in log' \ log, f \in log :
        e.by = f.by /\ e.item.source = f.item.source => f.item.n < e.item.n]_log

\* A taker is told that its input has ended only when nobody can put anything
\* into it any more: the producers' count is exact, whatever order they end in.
EndOfStreamIsFinal ==
  [][\A c \in Takers :
        pc[c] = "count" /\ pc'[c] = "between" =>
          \A p \in Producers(In[c]) : pc[p] = "finished"]_pc

\* If no client cuts the pipeline, the end of the sources reaches everybody,
\* also those whose own request to finish is ignored while they are sampled.
EndOfStreamPropagates ==
  [](~cut) /\ <>[](\A p \in Postboys : ctl[p] # "sampling")
    => <>(\A p \in Postboys : pc[p] = "finished")

\* The queues an item may still pass after q.
After(Q) == Q \cup {q \in Queues : \E p \in Takers : In[p] \in Q /\ Out[p] = q}

Downstream ==
  [q \in Queues |->
     LET reach[n \in Nat] == IF n = 0 THEN {q} ELSE After(reach[n - 1])
     IN  reach[Cardinality(Queues)]]

\* A postboy waits for room for ever, and does not even see that it is asked
\* to finish, only if further down nobody is left who would take.
PutWaitsOnlyForTheDead ==
  \A p \in Postboys : Out[p] # NoQueue =>
    (pc[p] = "put" ~>
       \/ pc[p] # "put"
       \/ \E q \in Downstream[Out[p]] : \A c \in Consumers(q) : pc[c] = "finished")
=============================================================================
