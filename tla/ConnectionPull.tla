--------------------------- MODULE ConnectionPull ---------------------------
(***************************************************************************)
(* common::http::ConnectionPull: idle connections on two lock-free stacks. *)
(* Users pop from the first stack, then from the second, and push to the   *)
(* second; the pinger empties the first stack, pinging what is due, and    *)
(* exchanges the two.  A connection that fails is handed to a detached     *)
(* thread that reconnects it and pushes it.  The destructor joins the      *)
(* pinger and deletes what is on the stacks.                               *)
(*                                                                         *)
(* A load or compare-exchange of shared memory is a step; so is the read   *)
(* of nextConn_ by Pop, which may be outdated when the exchange succeeds.  *)
(***************************************************************************)
EXTENDS Naturals, FiniteSets

CONSTANTS
  Users,       \* the threads that may use the pool
  Pinger,      \* the pinger thread
  Owner,       \* the thread that destroys the pool
  MaxCount,    \* maxConnectionsCnt_
  Casts        \* the sets of threads, of Users and Pinger, that a behaviour may have

ASSUME PullAssumption ==
  /\ MaxCount \in Nat \ {0}
  /\ \A c \in Casts : IsFiniteSet(c) /\ c \subseteq Users \cup {Pinger}
  /\ Pinger # Owner /\ {Pinger, Owner} \cap Users = {}
  /\ (Users \cup {Pinger, Owner}) \cap Nat = {}

None == 0
Connections == 1 .. MaxCount + 1  \* one more than the pool may construct
Threads == Users \cup {Pinger, Owner} \cup Connections  \* a connection: its detached thread

VARIABLES
  cast,    \* the users and the pinger of this behaviour
  top,     \* stack_[0], stack_[1]
  first,   \* stackPtrs_: which stack is First()
  next,    \* nextConn_ of each connection
  count,   \* connectionsCnt_
  created, \* how many connections were constructed
  deleted, \* the connections the destructor has deleted
  running, \* nowRun_
  pc,      \* where each thread is
  conn,    \* the connection each thread holds, or looks at in Pop
  on,      \* the stack it works on
  seen,    \* nextConn_ as Pop read it; connectionsCnt_ as the growing user read it
  tries,   \* how many empty stacks a user met
  last,    \* the pinger returns after this push
  outdated \* history: a Pop has exchanged the top for an outdated successor

shared == <<top, first, next, count, created, deleted, running, outdated>>
local == <<conn, on, seen, tries, last>>
vars == <<cast, shared, pc, local>>

Goto(t, label) == pc' = [pc EXCEPT ![t] = label]
GotoOn(t, label, stack) == Goto(t, label) /\ on' = [on EXCEPT ![t] = stack]
Keep(t, c) == conn' = [conn EXCEPT ![t] = c]
Zero(f, t) == [f EXCEPT ![t] = 0]  \* a local variable whose scope ends

\* The constructor puts the connections it makes on stack_[0].
Init ==
  /\ cast \in Casts
  /\ \E n \in 0 .. MaxCount :
       /\ count = n /\ created = n
       /\ top = [s \in {0, 1} |-> IF s = 0 THEN n ELSE None]
       /\ next = [c \in Connections |-> IF c <= n THEN c - 1 ELSE None]
  /\ first = 0 /\ deleted = {} /\ running = TRUE
  /\ pc = [t \in Threads |-> IF t = Pinger /\ t \in cast THEN "sleep" ELSE "idle"]
  /\ conn = [t \in Threads |-> None]
  /\ on = [t \in Threads |-> 0]
  /\ seen = [t \in Threads |-> 0]
  /\ tries = [t \in Threads |-> 0]
  /\ last = FALSE /\ outdated = FALSE

-----------------------------------------------------------------------------
(* Pop from a stack, by a user, the pinger or the destructor.            *)

\* Where a thread starts looking: First(), evaluated anew by every Pop.
PopFirst(t) ==
  /\ pc[t] = "popFirst"
  /\ GotoOn(t, "popLoad", first)
  /\ UNCHANGED <<cast, shared, conn, seen, tries, last>>

PopSecond(t) ==
  /\ pc[t] = "popSecond"
  /\ GotoOn(t, "popLoad", 1 - first)
  /\ UNCHANGED <<cast, shared, conn, seen, tries, last>>

Found(t) == CASE t \in Users -> "use" [] t = Pinger -> "found" [] OTHER -> "delete"

\* After an empty stack: a user tries both three times and then grows the pool,
\* the pinger exchanges the stacks, the destructor goes on to the second.
AfterEmpty(t) ==
  CASE t = Pinger -> "exchange"
    [] t = Owner -> IF on[t] = first THEN "popSecond" ELSE "gone"
    [] OTHER -> IF tries[t] = 5 THEN "grow" ELSE
                IF tries[t] % 2 = 0 THEN "popSecond" ELSE "popFirst"

LookAt(t, c) ==
  /\ Keep(t, c)
  /\ IF c # None
       THEN Goto(t, "popNext") /\ UNCHANGED tries
       ELSE /\ Goto(t, AfterEmpty(t))
            /\ tries' = [tries EXCEPT ![t] = IF t \in Users THEN (@ + 1) % 6 ELSE @]

PopLoad(t) ==
  /\ pc[t] = "popLoad"
  /\ LookAt(t, top[on[t]])
  /\ UNCHANGED <<cast, shared, on, seen, last>>

\* ptr->nextConn_, the value to exchange, is read before the exchange.
PopNext(t) ==
  /\ pc[t] = "popNext"
  /\ seen' = [seen EXCEPT ![t] = next[conn[t]]]
  /\ Goto(t, "popCas")
  /\ UNCHANGED <<cast, shared, conn, on, tries, last>>

PopCas(t) ==
  /\ pc[t] = "popCas"
  /\ IF top[on[t]] = conn[t]
       THEN /\ top' = [top EXCEPT ![on[t]] = seen[t]]
            /\ Goto(t, Found(t))
            /\ tries' = Zero(tries, t)
            /\ outdated' = (outdated \/ seen[t] # next[conn[t]])
            /\ UNCHANGED conn
       ELSE LookAt(t, top[on[t]]) /\ UNCHANGED <<top, outdated>>
  /\ seen' = Zero(seen, t)
  /\ UNCHANGED <<cast, first, next, count, created, deleted, running, on, last>>

-----------------------------------------------------------------------------
(* Push of a connection to a stack, always to Second().                    *)

PushSecond(t) ==
  /\ pc[t] = "push"
  /\ GotoOn(t, "pushLoad", 1 - first)
  /\ UNCHANGED <<cast, shared, conn, seen, tries, last>>

PushLoad(t) ==
  /\ pc[t] = "pushLoad"
  /\ next' = [next EXCEPT ![conn[t]] = top[on[t]]]
  /\ Goto(t, "pushCas")
  /\ UNCHANGED <<cast, top, first, count, created, deleted, running, outdated, local>>

Pushed(t) == IF t # Pinger THEN "idle" ELSE IF last THEN "finished" ELSE "popFirst"

\* A mutant: the new top is stored whether the top has changed or not.
PushStore(t) ==
  /\ pc[t] = "pushCas"
  /\ top' = [top EXCEPT ![on[t]] = conn[t]]
  /\ Goto(t, Pushed(t))
  /\ conn' = Zero(conn, t) /\ on' = Zero(on, t)
  /\ UNCHANGED <<cast, first, next, count, created, deleted, running, outdated, seen, tries, last>>

PushCas(t) ==
  /\ pc[t] = "pushCas"
  /\ IF top[on[t]] = next[conn[t]]
       THEN /\ top' = [top EXCEPT ![on[t]] = conn[t]]
            /\ Goto(t, Pushed(t))
            /\ conn' = Zero(conn, t) /\ on' = Zero(on, t)
            /\ UNCHANGED next
       ELSE next' = [next EXCEPT ![conn[t]] = top[on[t]]] /\ UNCHANGED <<top, pc, conn, on>>
  /\ UNCHANGED <<cast, first, count, created, deleted, running, outdated, seen, tries, last>>

-----------------------------------------------------------------------------
(* A user: Pop(), and Push with or without forceReconnect.                  *)

\* Users use the pool as long as its destruction has not begun.
StartPop(u) ==
  /\ u \in cast /\ pc[u] = "idle" /\ pc[Owner] = "idle"
  /\ Goto(u, "popFirst")
  /\ UNCHANGED <<cast, shared, local>>

\* The pool is grown only below its limit: otherwise Pop returns no connection.
TestCount(u) ==
  IF count < MaxCount
    THEN Goto(u, "growCas") /\ seen' = [seen EXCEPT ![u] = count]
    ELSE Goto(u, "idle") /\ seen' = Zero(seen, u)

LoadCount(u) ==
  /\ pc[u] = "grow"
  /\ TestCount(u)
  /\ UNCHANGED <<cast, shared, conn, on, tries, last>>

\* A mutant: the count is stored without comparing it.
GrowStore(u) ==
  /\ pc[u] = "growCas"
  /\ count' = seen[u] + 1
  /\ created' = created + 1
  /\ Keep(u, created + 1)
  /\ Goto(u, "use")
  /\ seen' = Zero(seen, u)
  /\ UNCHANGED <<cast, top, first, next, deleted, running, outdated, on, tries, last>>

GrowCas(u) ==
  /\ pc[u] = "growCas"
  /\ IF count = seen[u]
       THEN /\ count' = seen[u] + 1
            /\ created' = created + 1
            /\ Keep(u, created + 1)
            /\ Goto(u, "use")
            /\ seen' = Zero(seen, u)
       ELSE TestCount(u) /\ UNCHANGED <<count, created, conn>>
  /\ UNCHANGED <<cast, top, first, next, deleted, running, outdated, on, tries, last>>

\* Push(connection, true) starts a detached thread for the connection.
Detach(t, after) ==
  /\ pc' = [pc EXCEPT ![t] = after, ![conn[t]] = "reconnect"]
  /\ conn' = [conn EXCEPT ![t] = IF t = conn[t] THEN @ ELSE None, ![conn[t]] = conn[t]]

PushBack(u) ==
  /\ pc[u] = "use" /\ pc[Owner] = "idle"
  /\ \/ Goto(u, "push") /\ UNCHANGED conn
     \/ Detach(u, "idle")
  /\ UNCHANGED <<cast, shared, on, seen, tries, last>>

\* The detached thread connects, or starts another one that tries again.
Reconnected(c) ==
  /\ pc[c] = "reconnect"
  /\ \/ Goto(c, "push") /\ UNCHANGED conn
     \/ Detach(c, "reconnect")
  /\ UNCHANGED <<cast, shared, on, seen, tries, last>>

-----------------------------------------------------------------------------
(* PingerRoutine                                                            *)

\* The first stack is exchanged when it is empty, at the end of a sleep of
\* 100 ms, which may also be the last one of the period.
Sleep ==
  /\ pc[Pinger] = "sleep"
  /\ \/ running /\ top[first] = None /\ Goto(Pinger, "exchangeEarly")
     \/ Goto(Pinger, "popFirst")  \* the period is over, or the pool is destroyed
  /\ UNCHANGED <<cast, shared, local>>

\* A mutant: the outer loop does not look at nowRun_.
ExchangeForever ==
  /\ pc[Pinger] \in {"exchange", "exchangeEarly"}
  /\ first' = 1 - first
  /\ Goto(Pinger, "sleep")
  /\ UNCHANGED <<cast, top, next, count, created, deleted, running, outdated, local>>

Exchange ==
  /\ pc[Pinger] \in {"exchange", "exchangeEarly"}
  /\ first' = 1 - first
  /\ Goto(Pinger, IF pc[Pinger] = "exchangeEarly" \/ running THEN "sleep" ELSE "finished")
  /\ UNCHANGED <<cast, top, next, count, created, deleted, running, outdated, local>>

\* What was popped goes back when the pool is being destroyed or no ping is due.
PingerFound ==
  /\ pc[Pinger] = "found"
  /\ \/ ~running /\ Goto(Pinger, "push") /\ last' = TRUE
     \/ running /\ Goto(Pinger, "ping") /\ UNCHANGED last
  /\ UNCHANGED <<cast, shared, conn, on, seen, tries>>

\* A ping that fails leads to a reconnect, unless the pool is being destroyed.
PingConnection ==
  /\ pc[Pinger] = "ping"
  /\ \/ Goto(Pinger, "push") /\ UNCHANGED conn
     \/ running /\ Detach(Pinger, "popFirst")
  /\ UNCHANGED <<cast, shared, on, seen, tries, last>>

-----------------------------------------------------------------------------
(* ~ConnectionPull: no user is in a call then.                              *)

Destroy ==
  /\ pc[Owner] = "idle" /\ \A u \in Users : pc[u] \in {"idle", "use"}
  /\ running' = FALSE
  /\ Goto(Owner, "join")
  /\ UNCHANGED <<cast, top, first, next, count, created, deleted, outdated, local>>

Join ==
  /\ pc[Owner] = "join" /\ pc[Pinger] \in {"idle", "finished"}
  /\ Goto(Owner, "popFirst")
  /\ UNCHANGED <<cast, shared, local>>

Delete ==
  /\ pc[Owner] = "delete"
  /\ deleted' = deleted \cup {conn[Owner]}
  /\ Goto(Owner, IF on[Owner] = first THEN "popFirst" ELSE "popSecond")
  /\ UNCHANGED <<cast, top, first, next, count, created, running, outdated, local>>

-----------------------------------------------------------------------------
Popping(t) == PopFirst(t) \/ PopSecond(t) \/ PopLoad(t) \/ PopNext(t) \/ PopCas(t)
Pushing(t) == PushSecond(t) \/ PushLoad(t) \/ PushCas(t)
User(u) == Popping(u) \/ Pushing(u) \/ StartPop(u) \/ LoadCount(u) \/ GrowCas(u) \/ PushBack(u)
PingerRoutine ==
  Popping(Pinger) \/ Pushing(Pinger) \/ Sleep \/ Exchange \/ PingerFound \/ PingConnection
Reconnect(c) == Pushing(c) \/ Reconnected(c)
Destructor == Popping(Owner) \/ Join \/ Delete

Next ==
  \/ \E u \in Users : User(u)
  \/ PingerRoutine
  \/ \E c \in Connections : Reconnect(c)
  \/ Destroy
  \/ Destructor

\* The pinger and the destructor are scheduled; whether the pool is used or
\* destroyed is up to its owner, and how long a connection fails to its peer.
Spec == Init /\ [][Next]_vars /\ WF_vars(PingerRoutine) /\ WF_vars(Destructor)

-----------------------------------------------------------------------------
(* Properties                                                               *)

\* The connections that are reached from n by following link: the least set that
\* contains n and whatever its members point to.
Closed(S, n, link) == n \in S \cup {None} /\ \A d \in S : link[d] \in S \cup {None}
Reachable(n, link) ==
  {c \in Connections : \A S \in SUBSET Connections : Closed(S, n, link) => c \in S}

\* The connections linked from the top of a stack.
Chain(s) == Reachable(top[s], next)

Holding == {"use", "push", "pushLoad", "pushCas", "found", "ping", "reconnect", "delete"}
Places(c) ==
  {t \in Threads : pc[t] \in Holding /\ conn[t] = c}
    \cup {s \in {"stack 0", "stack 1"} : c \in Chain(IF s = "stack 0" THEN 0 ELSE 1)}
    \cup (IF c \in deleted THEN {"deleted"} ELSE {})

\* Whoever pops and pushes at the same time, a connection is in one place, in use
\* by one thread, or linked in one stack, or deleted, never in two and never lost,
\* up to the one exchange that is wrong: that of a Pop which finds the top it has
\* looked at, gone and back meanwhile with another successor.  A thread that alone
\* pops (a user, or the pinger and after it the destructor) never makes that one
\* (connection_pull.hpp:73-86, connection_pull.cpp:54-147).
EachOnce ==
  /\ ~outdated => \A c \in 1 .. created : Cardinality(Places(c)) = 1
  /\ Cardinality(cast) <= 1 => ~outdated

\* Users that find the pool empty at the same time do not construct more
\* connections than maxConnectionsCnt (connection_pull.cpp:105-117).
CountBounded == created <= MaxCount

\* The destructor ends, whatever the pinger is doing when it starts: a pinger
\* that returns puts what it has popped on the stack that it does not empty
\* (connection_pull.cpp:30-45 and 54-84).
DestructionEnds == Cardinality(cast) <= 1 => (pc[Owner] = "join" ~> pc[Owner] = "gone")

=============================================================================
