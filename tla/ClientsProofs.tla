--------------------------- MODULE ClientsProofs ---------------------------
(***************************************************************************)
(* The two clients of the network.                                         *)
(*                                                                         *)
(* The bound on the connections of module ConnectionPull, for any number   *)
(* of users and any limit.  The argument: the count changes only by a      *)
(* compare-exchange from a value that was found below the limit.           *)
(* And that a connection is in one place, until a Pop exchanges the top    *)
(* for an outdated successor, which a thread that alone pops never does.   *)
(* The argument: a hand, a chain of links and the deleted are disjoint and *)
(* hold everything that was made (OwnInv); no two links of a chain lead to *)
(* the same connection and none leads back to the top (LineInv), so that   *)
(* popping the top takes just that from what is reached; and the           *)
(* connection a thread that alone pops looks at is linked where it was     *)
(* found, with the successor it has read (PopInv), because nobody else     *)
(* takes it away.                                                          *)
(*                                                                         *)
(* The safety of module WebsocketClient for any clients, retries and       *)
(* messages.  The argument for a client that is alone on its loop: it is   *)
(* counted exactly while it is not NotConnected (and then no call of       *)
(* Connect has failed), so its Finish destroys the context and, with it,   *)
(* whatever could call back.                                               *)
(***************************************************************************)
EXTENDS ConnectionPull, WebsocketClient, Integers, FiniteSetTheorems, WellFoundedInduction, TLAPS

\* The count is that of the connections made, and who is about to raise it has
\* read a value below the limit.
CountInv ==
  /\ count \in 0 .. MaxCount /\ created = count
  /\ \A u \in Users : pc[u] = "growCas" => seen[u] \in Nat /\ seen[u] < MaxCount

FunctionInv ==
  /\ DOMAIN pc = Threads
  /\ DOMAIN seen = Threads

IInv == CountInv /\ FunctionInv

-----------------------------------------------------------------------------
LEMMA InitInv == Init => IInv
  BY PullAssumption DEF Init, IInv, CountInv, FunctionInv, Threads

\* No search leads straight to the compare-exchange of the count.
LEMMA SearchLabels ==
  ASSUME NEW t \in Threads
  PROVE  Found(t) # "growCas" /\ AfterEmpty(t) # "growCas" /\ Pushed(t) # "growCas"
  <1>1. Found(t) \in {"use", "found", "delete"}
    BY Zenon DEF Found
  <1>2. AfterEmpty(t) \in {"exchange", "popSecond", "gone", "grow", "popFirst"}
    BY Zenon DEF AfterEmpty
  <1>3. Pushed(t) \in {"idle", "finished", "popFirst"}
    BY DEF Pushed
  <1> QED BY <1>1, <1>2, <1>3

LEMMA UsersAreThreads == Users \subseteq Threads
  BY DEF Threads

\* A step that leaves the count alone and brings nobody to the compare-exchange
\* keeps the invariant.
LEMMA CountKept ==
  ASSUME IInv, UNCHANGED <<count, created>>, FunctionInv',
         \A u \in Users : pc'[u] = "growCas" => pc[u] = "growCas" /\ seen'[u] = seen[u]
  PROVE  IInv'
  BY DEF CountInv, IInv

\* So does one that brings a thread elsewhere, whatever becomes of its copy.
LEMMA GotoKeeps ==
  ASSUME IInv, UNCHANGED <<count, created>>,
         NEW t \in Threads, NEW label, label # "growCas", Goto(t, label),
         UNCHANGED seen \/ (\E v : seen' = [seen EXCEPT ![t] = v])
  PROVE  IInv'
  <1>1. FunctionInv'
    BY DEF Goto, FunctionInv, IInv
  <1>2. ASSUME NEW u \in Users, pc'[u] = "growCas"
        PROVE  pc[u] = "growCas" /\ seen'[u] = seen[u]
    BY <1>2, UsersAreThreads DEF Goto, FunctionInv, IInv
  <1> QED BY <1>1, <1>2, CountKept

LEMMA LookAtKeeps ==
  ASSUME IInv, UNCHANGED <<count, created>>,
         NEW t \in Threads, NEW c, LookAt(t, c),
         UNCHANGED seen \/ (\E v : seen' = [seen EXCEPT ![t] = v])
  PROVE  IInv'
  <1>1. Goto(t, "popNext") \/ Goto(t, AfterEmpty(t))
    BY DEF LookAt
  <1> QED BY <1>1, GotoKeeps, SearchLabels

\* So does one that hands a connection to a thread.
LEMMA DetachKeeps ==
  ASSUME IInv, UNCHANGED <<count, created, seen>>,
         NEW t \in Threads, NEW label, label # "growCas", Detach(t, label)
  PROVE  IInv'
  <1>1. FunctionInv'
    BY DEF Detach, FunctionInv, IInv
  <1>2. ASSUME NEW u \in Users, pc'[u] = "growCas"
        PROVE  pc[u] = "growCas" /\ seen'[u] = seen[u]
    BY <1>2, UsersAreThreads DEF Detach, FunctionInv, IInv
  <1> QED BY <1>1, <1>2, CountKept

LEMMA PopKeepsInv ==
  ASSUME IInv, NEW t \in Threads, Popping(t)
  PROVE  IInv'
  <1> USE DEF shared
  <1>1. CASE PopFirst(t) \/ PopSecond(t)
    BY <1>1, GotoKeeps DEF PopFirst, PopSecond, GotoOn
  <1>2. CASE PopLoad(t)
    BY <1>2, LookAtKeeps DEF PopLoad
  <1>3. CASE PopNext(t)
    BY <1>3, GotoKeeps DEF PopNext
  <1>4. CASE PopCas(t)
    <2>1. UNCHANGED <<count, created>> /\ seen' = [seen EXCEPT ![t] = 0]
      BY <1>4 DEF PopCas, Zero
    <2>2. Goto(t, Found(t)) \/ LookAt(t, top[on[t]])
      BY <1>4 DEF PopCas
    <2> QED BY <2>1, <2>2, GotoKeeps, LookAtKeeps, SearchLabels
  <1> QED BY <1>1, <1>2, <1>3, <1>4 DEF Popping

LEMMA PushKeepsInv ==
  ASSUME IInv, NEW t \in Threads, Pushing(t)
  PROVE  IInv'
  <1> USE DEF shared, local
  <1>1. CASE PushSecond(t) \/ PushLoad(t)
    BY <1>1, GotoKeeps DEF PushSecond, PushLoad, GotoOn
  <1>2. CASE PushCas(t)
    <2>1. UNCHANGED <<count, created, seen>>
      BY <1>2 DEF PushCas
    <2>2. Goto(t, Pushed(t)) \/ UNCHANGED pc
      BY <1>2 DEF PushCas
    <2>3. CASE UNCHANGED pc
      BY <2>1, <2>3, CountKept DEF IInv, FunctionInv
    <2> QED BY <2>1, <2>2, <2>3, GotoKeeps, SearchLabels
  <1> QED BY <1>1, <1>2 DEF Pushing

\* What a user does outside the stacks; here the count changes.
LEMMA UserKeepsInv ==
  ASSUME IInv, NEW u \in Users,
         StartPop(u) \/ LoadCount(u) \/ GrowCas(u) \/ PushBack(u)
  PROVE  IInv'
  <1> USE PullAssumption DEF IInv, FunctionInv, Goto, Keep, Zero, shared, local, Threads
  <1>1. CASE StartPop(u)
    BY <1>1, CountKept DEF StartPop
  <1>2. CASE LoadCount(u)
    BY <1>2 DEF LoadCount, TestCount, CountInv
  <1>3. CASE GrowCas(u)
    <2>1. CASE count = seen[u]
      BY <1>3, <2>1 DEF GrowCas, CountInv
    <2>2. CASE count # seen[u]
      BY <1>3, <2>2 DEF GrowCas, TestCount, CountInv
    <2> QED BY <2>1, <2>2
  <1>4. CASE PushBack(u)
    BY <1>4, CountKept DEF PushBack, Detach
  <1> QED BY <1>1, <1>2, <1>3, <1>4

\* The pinger outside the stacks, the detached threads and the destructor.
LEMMA OthersKeepInv ==
  ASSUME IInv,
         \/ Sleep \/ Exchange \/ PingerFound \/ PingConnection
         \/ \E c \in Connections : Reconnected(c)
         \/ Destroy \/ Join \/ Delete
  PROVE  IInv'
  <1> USE GotoKeeps, DetachKeeps DEF shared, local, Threads
  <1>1. CASE Sleep \/ Exchange
    BY <1>1 DEF Sleep, Exchange
  <1>2. CASE PingerFound \/ PingConnection
    BY <1>2 DEF PingerFound, PingConnection
  <1>3. CASE \E c \in Connections : Reconnected(c)
    BY <1>3 DEF Reconnected
  <1>4. CASE Destroy \/ Join \/ Delete
    BY <1>4 DEF Destroy, Join, Delete
  <1> QED BY <1>1, <1>2, <1>3, <1>4

LEMMA NextInv == IInv /\ [Next]_vars => IInv'
  <1> SUFFICES ASSUME IInv, [Next]_vars PROVE IInv'
    OBVIOUS
  <1>1. CASE UNCHANGED vars
    BY <1>1 DEF vars, shared, local, IInv, CountInv, FunctionInv
  <1>2. CASE \E t \in Threads : Popping(t) \/ Pushing(t)
    BY <1>2, PopKeepsInv, PushKeepsInv
  <1>3. CASE \E u \in Users : StartPop(u) \/ LoadCount(u) \/ GrowCas(u) \/ PushBack(u)
    BY <1>3, UserKeepsInv
  <1>4. CASE \/ Sleep \/ Exchange \/ PingerFound \/ PingConnection
             \/ \E c \in Connections : Reconnected(c)
             \/ Destroy \/ Join \/ Delete
    BY <1>4, OthersKeepInv
  <1>5. CASE Next
    BY <1>2, <1>3, <1>4, <1>5
       DEF Next, User, PingerRoutine, Reconnect, Destructor, Threads
  <1> QED BY <1>1, <1>5

\* For any number of users, with the pinger, reconnects and the destructor, no more
\* connections are constructed than maxConnectionsCnt (connection_pull.cpp:105-117).
THEOREM PoolIsBounded == Spec => []CountBounded
  <1>1. IInv => CountBounded
    BY PullAssumption DEF IInv, CountInv, CountBounded
  <1> QED BY <1>1, InitInv, NextInv, PTL DEF Spec

-----------------------------------------------------------------------------
(* What is reached from a connection.                                       *)

Links == [Connections -> Connections \cup {None}]

LEMMA LeastNumber ==
  ASSUME NEW T, T \subseteq Nat, T # {}
  PROVE  \E x \in T : \A y \in T : x <= y
  <1>1. \E x \in T : \A y \in T : ~ (<<y, x>> \in OpToRel(<, Nat))
    BY NatLessThanWellFounded, WFMin
  <1>2. \E x \in T : \A y \in T : ~(y < x)
    BY <1>1 DEF OpToRel
  <1> QED BY <1>2

LEMMA ReachableIsClosed ==
  ASSUME NEW f \in Links, NEW n \in Connections \cup {None}
  PROVE  Closed(Reachable(n, f), n, f)
  BY DEF Closed, Reachable, Links

LEMMA ReachableIsLeast ==
  ASSUME NEW f, NEW n, NEW S \in SUBSET Connections, Closed(S, n, f)
  PROVE  Reachable(n, f) \subseteq S
  BY DEF Reachable

\* Links elsewhere do not matter.
LEMMA ReachableKept ==
  ASSUME NEW f \in Links, NEW g \in Links, NEW n \in Connections \cup {None},
         \A c \in Reachable(n, f) : g[c] = f[c]
  PROVE  Reachable(n, g) = Reachable(n, f)
  <1> DEFINE R == Reachable(n, f)  Q == Reachable(n, g)
  <1>1. R \subseteq Connections /\ Q \subseteq Connections
    BY DEF Reachable
  <1>2. Closed(R, n, f) /\ Closed(Q, n, g)
    BY ReachableIsClosed
  <1>3. Closed(R, n, g)
    BY <1>2 DEF Closed
  <1>4. Q \subseteq R
    BY <1>1, <1>3, ReachableIsLeast
  <1>5. Closed(Q, n, f)
    BY <1>2, <1>4 DEF Closed
  <1> QED BY <1>1, <1>4, <1>5, ReachableIsLeast

\* A connection that points to n comes in front of n.
LEMMA ReachablePushed ==
  ASSUME NEW f \in Links, NEW c \in Connections, c \notin Reachable(f[c], f)
  PROVE  Reachable(c, f) = Reachable(f[c], f) \cup {c}
  <1> DEFINE R == Reachable(f[c], f)  Q == Reachable(c, f)
  <1>1. R \subseteq Connections /\ Q \subseteq Connections /\ c # None
    BY PullAssumption DEF Reachable, Connections, None
  <1>2. f[c] \in Connections \cup {None}
    BY DEF Links
  <1>3. Closed(R, f[c], f) /\ Closed(Q, c, f)
    BY <1>2, ReachableIsClosed
  <1>4. Closed(R \cup {c}, c, f)
    BY <1>3 DEF Closed
  <1>5. Q \subseteq R \cup {c}
    BY <1>1, <1>4, ReachableIsLeast
  <1>6. c \in Q /\ Closed(Q, f[c], f)
    BY <1>1, <1>3 DEF Closed
  <1>7. R \subseteq Q
    BY <1>1, <1>6, ReachableIsLeast
  <1> QED BY <1>5, <1>6, <1>7

\* What nobody points back to is no longer reached from its successor.
LEMMA ReachablePopped ==
  ASSUME NEW f \in Links, NEW c \in Connections, \A d \in Reachable(c, f) : f[d] # c
  PROVE  c \in Reachable(c, f) /\ Reachable(f[c], f) = Reachable(c, f) \ {c}
  <1> DEFINE R == Reachable(c, f)  Q == Reachable(f[c], f)
  <1>1. R \subseteq Connections /\ Q \subseteq Connections /\ c # None
    BY PullAssumption DEF Reachable, Connections, None
  <1>2. f[c] \in Connections \cup {None}
    BY DEF Links
  <1>3. Closed(Q, f[c], f) /\ Closed(R, c, f)
    BY <1>2, ReachableIsClosed
  <1>4. c \in R /\ Closed(R \ {c}, f[c], f)
    BY <1>1, <1>3 DEF Closed
  <1>5. Q \subseteq R \ {c}
    BY <1>1, <1>4, ReachableIsLeast
  <1>6. Closed(Q \cup {c}, c, f)
    BY <1>3 DEF Closed
  <1>7. R \subseteq Q \cup {c}
    BY <1>1, <1>6, ReachableIsLeast
  <1> QED BY <1>4, <1>5, <1>7

\* What the constructor links.
LEMMA ReachableAtFirst ==
  ASSUME NEW f \in Links, NEW n \in 0 .. MaxCount,
         \A c \in 1 .. n : f[c] = c - 1
  PROVE  Reachable(n, f) = 1 .. n
  <1> DEFINE R == Reachable(n, f)
  <1>1. 1 .. n \subseteq Connections /\ n \in Connections \cup {None}
    BY PullAssumption DEF Connections, None
  <1>2. Closed(1 .. n, n, f)
    BY DEF Closed, None
  <1>3. R \subseteq 1 .. n
    BY <1>1, <1>2, ReachableIsLeast
  <1>4. SUFFICES ASSUME NEW m \in 1 .. n, m \notin R PROVE FALSE
    BY <1>3
  <1>5. Closed(R, n, f)
    BY <1>1, ReachableIsClosed
  <1> DEFINE T == {k \in Nat : k < n /\ n - k \notin R}
  <1>6. n - m \in T
    BY <1>4
  <1>7. PICK k \in T : \A j \in T : k <= j
    BY <1>6, LeastNumber
  <1>8. k # 0
    BY <1>5, <1>7 DEF Closed, None
  <1>9. n - (k - 1) \in R
    BY <1>7, <1>8
  <1>10. f[n - (k - 1)] = n - k
    BY <1>7, <1>8
  <1> QED BY <1>5, <1>7, <1>9, <1>10 DEF Closed, None

-----------------------------------------------------------------------------
(* A connection is in one place.  What holds whoever pops:                  *)

Stack == {0, 1}
Made == 1 .. created
Pushes == {"push", "pushLoad", "pushCas"}
Pops == {"popFirst", "popSecond", "popLoad", "popNext", "popCas"}

TypeInv ==
  /\ top \in [Stack -> 0 .. created] /\ first \in Stack
  /\ next \in [Connections -> 0 .. created]
  /\ deleted \subseteq Made
  /\ conn \in [Threads -> 0 .. created] /\ on \in [Threads -> Stack]
  /\ seen \in [Threads -> 0 .. created]

PcInv ==
  /\ \A u \in Users : pc[u] \in Pops \cup Pushes \cup {"idle", "use", "grow", "growCas"}
  /\ pc[Pinger] \in Pops \cup Pushes \cup
                   {"idle", "sleep", "exchange", "exchangeEarly", "found", "ping", "finished"}
  /\ pc[Owner] \in Pops \cup {"idle", "join", "delete", "gone"}
  /\ \A c \in Connections : pc[c] \in Pushes \cup {"idle", "reconnect"}

\* A detached thread works on its own connection.
ConnInv ==
  /\ \A t \in Threads : pc[t] \in Holding \cup {"popNext", "popCas"} => conn[t] # None
  /\ \A c \in Connections : pc[c] # "idle" => conn[c] = c

\* Threads take turns with popping, if there is one user or the pinger.
TurnInv ==
  /\ \A u \in Users : u \notin cast => pc[u] = "idle"
  /\ Pinger \notin cast => pc[Pinger] = "idle"
  /\ pc[Owner] # "idle" => \A u \in Users : pc[u] \in {"idle", "use"}
  /\ pc[Owner] \notin {"idle", "join"} => pc[Pinger] \in {"idle", "finished"}

Shape == TypeInv /\ PcInv /\ ConnInv /\ TurnInv

\* What holds as long as no Pop has exchanged a top for an outdated successor.
Hand(t) == IF pc[t] \in Holding THEN conn[t] ELSE None

OwnInv ==
  /\ \A t, r \in Threads : Hand(t) = Hand(r) /\ Hand(t) # None => t = r
  /\ \A t \in Threads, s \in Stack : Hand(t) \notin Chain(s) /\ Hand(t) \notin deleted
  /\ Chain(0) \cap Chain(1) = {}
  /\ \A s \in Stack : Chain(s) \subseteq Made \ deleted
  /\ \A c \in Made : c \in deleted \cup Chain(0) \cup Chain(1) \/ \E t \in Threads : Hand(t) = c

\* No chain comes back to where it was.
LineInv ==
  \A s \in Stack :
    /\ \A c \in Chain(s) : next[c] # top[s]
    /\ \A c, d \in Chain(s) : next[c] = next[d] /\ next[c] # None => c = d

\* A thread that alone pops looks at a connection that stays where it is, and what
\* it has read of it is not outdated.
Alone == \A x, y \in cast : x = y

PopInv ==
  Alone => \A t \in Threads :
    /\ pc[t] \in {"popNext", "popCas"} => conn[t] \in Chain(on[t])
    /\ pc[t] = "popCas" => seen[t] = next[conn[t]]

PlaceInv ==
  /\ Shape
  /\ ~outdated => OwnInv /\ LineInv /\ PopInv
  /\ Alone => ~outdated

-----------------------------------------------------------------------------
LEMMA ThreadFacts ==
  /\ Users \subseteq Threads /\ Connections \subseteq Threads
  /\ Pinger \in Threads /\ Owner \in Threads /\ Pinger # Owner
  /\ Pinger \notin Users /\ Owner \notin Users
  /\ Users \cap Connections = {} /\ Pinger \notin Connections /\ Owner \notin Connections
  /\ None \notin Connections
  BY PullAssumption DEF Threads, Connections, None

LEMMA Numbers ==
  ASSUME IInv
  PROVE  /\ created \in Nat /\ None \in 0 .. created
         /\ 0 .. created \subseteq Connections \cup {None} /\ Made \subseteq Connections
  BY PullAssumption DEF IInv, CountInv, Connections, None, Made

LEMMA InitShape == Init => Shape
  <1> SUFFICES ASSUME Init PROVE Shape
    OBVIOUS
  <1> USE PullAssumption
  <1>1. TypeInv
    BY DEF Init, TypeInv, Stack, Made, Connections, None
  <1>2. PcInv /\ ConnInv /\ TurnInv
    <2>1. \A t \in Threads : pc[t] = IF t = Pinger /\ t \in cast THEN "sleep" ELSE "idle"
      BY DEF Init
    <2> QED BY <2>1, ThreadFacts DEF PcInv, ConnInv, TurnInv, Pops, Pushes, Holding
  <1> QED BY <1>1, <1>2 DEF Shape

LEMMA InitPlaces == Init => PlaceInv
  <1> SUFFICES ASSUME Init PROVE PlaceInv
    OBVIOUS
  <1> USE PullAssumption
  <1>1. Shape
    BY InitShape
  <1>2. PICK n \in 0 .. MaxCount :
           /\ created = n
           /\ top = [s \in {0, 1} |-> IF s = 0 THEN n ELSE None]
           /\ next = [c \in Connections |-> IF c <= n THEN c - 1 ELSE None]
    BY DEF Init
  <1>3. next \in Links /\ \A c \in 1 .. n : next[c] = c - 1
    BY <1>2 DEF Links, Connections, None
  <1>4. Chain(0) = 1 .. n /\ Chain(1) = {}
    <2>1. Reachable(n, next) = 1 .. n
      BY <1>3, ReachableAtFirst
    <2>2. Reachable(0, next) = 1 .. 0
      BY <1>3, ReachableAtFirst
    <2> QED BY <2>1, <2>2, <1>2 DEF Chain, None
  <1>5. \A t \in Threads : pc[t] \in {"sleep", "idle"}
    BY DEF Init
  <1>6. OwnInv
    BY <1>2, <1>4, <1>5 DEF Init, OwnInv, Hand, Holding, Stack, Made, None
  <1>7. LineInv
    BY <1>2, <1>3, <1>4 DEF LineInv, Stack, None
  <1>8. PopInv
    BY <1>5 DEF PopInv
  <1>9. ~outdated
    BY DEF Init
  <1> QED BY <1>1, <1>6, <1>7, <1>8, <1>9 DEF PlaceInv

-----------------------------------------------------------------------------
\* The labels a search leads to.
LEMMA FoundLabels ==
  /\ \A u \in Users : Found(u) = "use" /\ AfterEmpty(u) \in {"grow", "popFirst", "popSecond"}
  /\ Found(Pinger) = "found" /\ AfterEmpty(Pinger) = "exchange"
  /\ Found(Owner) = "delete" /\ AfterEmpty(Owner) \in {"gone", "popSecond"}
  /\ Pushed(Pinger) \in {"finished", "popFirst"}
  /\ \A t \in Threads : t # Pinger => Pushed(t) = "idle"
  <1>1. \A u \in Users : Found(u) = "use"
    BY ThreadFacts, Zenon DEF Found
  <1>2. \A u \in Users : AfterEmpty(u) \in {"grow", "popFirst", "popSecond"}
    BY ThreadFacts, Zenon DEF AfterEmpty
  <1>3. Found(Pinger) = "found" /\ Found(Owner) = "delete"
    BY ThreadFacts, Zenon DEF Found
  <1>4. AfterEmpty(Pinger) = "exchange" /\ AfterEmpty(Owner) \in {"gone", "popSecond"}
    BY ThreadFacts, Zenon DEF AfterEmpty
  <1> QED BY <1>1, <1>2, <1>3, <1>4 DEF Pushed

\* Only a user, the pinger and the destructor pop.
LEMMA Poppers ==
  ASSUME Shape, NEW t \in Threads, pc[t] \in Pops
  PROVE  t \in Users \cup {Pinger, Owner}
  BY ThreadFacts DEF Shape, PcInv, Pops, Pushes, Threads

\* A step of one thread t to label keeps the shape if the label is one of t's, the
\* thread that starts to look for a connection is in the cast, and it takes turns.
TurnsTo(t, label) ==
  /\ t \in Users => /\ label \in Pops \cup Pushes \cup {"idle", "use", "grow", "growCas"}
                    /\ t \in cast \/ label = "idle"
                    /\ pc[Owner] = "idle" \/ label \in {"idle", "use"}
  /\ t = Pinger => /\ label \in Pops \cup Pushes \cup {"idle", "sleep", "exchange",
                                 "exchangeEarly", "found", "ping", "finished"}
                   /\ t \in cast \/ label = "idle"
                   /\ pc[Owner] \in {"idle", "join"} \/ label \in {"idle", "finished"}
  /\ t = Owner => /\ label \in Pops \cup {"join", "delete", "gone"}
                  /\ \A u \in Users : pc[u] \in {"idle", "use"}
                  /\ label # "join" => pc[Pinger] \in {"idle", "finished"}
  /\ t \in Connections => label \in Pushes \cup {"idle", "reconnect"}

LEMMA TurnKept ==
  ASSUME Shape, FunctionInv, NEW t \in Threads, NEW label, Goto(t, label), TurnsTo(t, label),
         cast' = cast
  PROVE  PcInv' /\ TurnInv'
  <1> USE ThreadFacts DEF Goto, TurnsTo, FunctionInv
  <1>1. PcInv'
    BY DEF Shape, PcInv
  <1>2. TurnInv'
    BY DEF Shape, PcInv, TurnInv
  <1> QED BY <1>1, <1>2

LEMMA DetachTurnKept ==
  ASSUME Shape, FunctionInv, NEW t \in Threads, NEW label, conn[t] \in Connections,
         Detach(t, label), TurnsTo(t, label), cast' = cast
  PROVE  PcInv' /\ TurnInv'
  <1> USE ThreadFacts DEF Detach, TurnsTo, FunctionInv
  <1>1. \A r \in Threads : pc'[r] = IF r = conn[t] THEN "reconnect"
                                    ELSE IF r = t THEN label ELSE pc[r]
    OBVIOUS
  <1> HIDE DEF Detach
  <1>2. PcInv'
    BY <1>1 DEF Shape, PcInv
  <1>3. TurnInv'
    BY <1>1 DEF Shape, PcInv, TurnInv
  <1> QED BY <1>2, <1>3

\* Everything of Shape but the turns.
LEMMA DetachConnKept ==
  ASSUME Shape, IInv, NEW t \in Threads, NEW label, pc[t] # "idle", conn[t] \in Connections,
         label \notin Holding \cup {"popNext", "popCas"} \/ t = conn[t],
         Detach(t, label), UNCHANGED <<top, first, next, created, deleted, on, seen>>
  PROVE  TypeInv' /\ ConnInv'
  <1> USE ThreadFacts, Numbers DEF Detach, IInv, FunctionInv
  <1>1. \A r \in Threads : /\ pc'[r] = IF r = conn[t] THEN "reconnect"
                                       ELSE IF r = t THEN label ELSE pc[r]
                           /\ conn'[r] = IF r = conn[t] THEN conn[t]
                                         ELSE IF r = t THEN None ELSE conn[r]
    BY DEF Shape, TypeInv
  <1>2. conn' \in [Threads -> 0 .. created]
    BY DEF Shape, TypeInv, None
  <1> HIDE DEF Detach
  <1>3. TypeInv'
    BY <1>2 DEF Shape, TypeInv, Made
  <1>4. ConnInv'
    BY <1>1 DEF Shape, ConnInv, Holding
  <1> QED BY <1>3, <1>4

LEMMA PopKeepsShape ==
  ASSUME Shape, IInv, NEW t \in Threads, Popping(t)
  PROVE  Shape'
  <1> USE ThreadFacts DEF IInv, FunctionInv
  <1>1. t \in Users \cup {Pinger, Owner} /\ pc[t] \in Pops /\ cast' = cast
    BY Poppers DEF Popping, PopFirst, PopSecond, PopLoad, PopNext, PopCas, Pops
  <1>2. \A label \in Pops \cup {Found(t), AfterEmpty(t)} : TurnsTo(t, label)
    BY <1>1, FoundLabels DEF TurnsTo, Shape, PcInv, TurnInv, Pops, Pushes
  <1>3. CASE PopFirst(t) \/ PopSecond(t)
    <2>1. PICK label \in {"popLoad"} : Goto(t, label)
      BY <1>3 DEF PopFirst, PopSecond, GotoOn
    <2>2. PcInv' /\ TurnInv'
      BY <1>1, <1>2, <2>1, TurnKept DEF Pops
    <2>3. TypeInv'
      <3>1. first \in Stack /\ 1 - first \in Stack
        BY DEF Shape, TypeInv, Stack
      <3>2. on' \in [Threads -> Stack]
        BY <1>3, <3>1 DEF Shape, TypeInv, PopFirst, PopSecond, GotoOn
      <3> QED BY <1>3, <3>2 DEF Shape, TypeInv, PopFirst, PopSecond, shared, Made
    <2>4. ConnInv'
      BY <1>3, <1>1 DEF Shape, ConnInv, PopFirst, PopSecond, GotoOn, Goto, Holding
    <2> QED BY <2>2, <2>3, <2>4 DEF Shape
  <1>4. CASE PopLoad(t)
    <2>1. Goto(t, "popNext") \/ Goto(t, AfterEmpty(t))
      BY <1>4 DEF PopLoad, LookAt
    <2>2. PcInv' /\ TurnInv'
      BY <1>1, <1>2, <2>1, TurnKept DEF Pops
    <2>3. TypeInv'
      BY <1>4, <1>1, Numbers DEF Shape, TypeInv, PopLoad, LookAt, Keep, shared, Made
    <2>4. ConnInv'
      BY <1>4, <1>1, FoundLabels, Numbers DEF Shape, TypeInv, ConnInv, PopLoad, LookAt, Goto, Keep,
         Holding, Pops
    <2> QED BY <2>2, <2>3, <2>4 DEF Shape
  <1>5. CASE PopNext(t)
    <2>1. Goto(t, "popCas")
      BY <1>5 DEF PopNext
    <2>2. PcInv' /\ TurnInv'
      BY <1>1, <1>2, <2>1, TurnKept DEF Pops
    <2>3. conn[t] \in Connections
      BY <1>5, Numbers DEF PopNext, Shape, TypeInv, ConnInv
    <2>4. TypeInv' /\ ConnInv'
      BY <1>5, <1>1, <2>3 DEF Shape, TypeInv, ConnInv, PopNext, Goto, shared, Stack, Made,
         Holding, Pops
    <2> QED BY <2>2, <2>4 DEF Shape
  <1>6. CASE PopCas(t)
    <2>1. Goto(t, "popNext") \/ Goto(t, AfterEmpty(t)) \/ Goto(t, Found(t))
      BY <1>6 DEF PopCas, LookAt
    <2>2. PcInv' /\ TurnInv'
      BY <1>1, <1>2, <2>1, TurnKept DEF Pops
    <2>3. TypeInv'
      BY <1>6, <1>1 DEF Shape, TypeInv, PopCas, LookAt, Zero, Keep, Stack, Made, CountInv
    <2>4. ConnInv'
      BY <1>6, <1>1, FoundLabels DEF Shape, TypeInv, ConnInv, PopCas, LookAt, Goto, Keep, Holding, Pops
    <2> QED BY <2>2, <2>3, <2>4 DEF Shape
  <1> QED BY <1>3, <1>4, <1>5, <1>6 DEF Popping

LEMMA PushKeepsShape ==
  ASSUME Shape, IInv, NEW t \in Threads, Pushing(t)
  PROVE  Shape'
  <1> USE ThreadFacts DEF IInv, FunctionInv
  <1>1. t \in Users \cup {Pinger} \cup Connections /\ pc[t] \in Pushes /\ cast' = cast
    BY DEF Pushing, PushSecond, PushLoad, PushCas, Pushes, Shape, PcInv, Pops, Threads
  <1>2. \A label \in {"pushLoad", "pushCas", Pushed(t)} : TurnsTo(t, label)
    BY <1>1, FoundLabels DEF TurnsTo, Shape, PcInv, TurnInv, Pops, Pushes
  <1>3. conn[t] \in Connections
    BY <1>1, Numbers DEF Pushes, Holding, Shape, TypeInv, ConnInv
  <1>4. CASE PushSecond(t) \/ PushLoad(t)
    <2>1. Goto(t, "pushLoad") \/ Goto(t, "pushCas")
      BY <1>4 DEF PushSecond, PushLoad, GotoOn
    <2>2. PcInv' /\ TurnInv'
      BY <1>2, <2>1, TurnKept, <1>1
    <2>3. ASSUME PushSecond(t) PROVE TypeInv'
      BY <2>3, <1>1, <1>3 DEF Shape, TypeInv, PushSecond, GotoOn, shared, Stack, Made
    <2>4. ASSUME PushLoad(t) PROVE TypeInv'
      <3>1. top[on[t]] \in 0 .. created
        BY DEF Shape, TypeInv
      <3>2. next' \in [Connections -> 0 .. created]
        BY <2>4, <3>1, <1>3 DEF Shape, TypeInv, PushLoad
      <3> QED BY <2>4, <3>2 DEF Shape, TypeInv, PushLoad, local, Made
    <2>5. TypeInv'
      BY <1>4, <2>3, <2>4 DEF Shape
    <2>6. ConnInv'
      BY <1>4, <1>1 DEF Shape, ConnInv, PushSecond, PushLoad, GotoOn, Goto, Holding, local, Pushes
    <2> QED BY <2>2, <2>5, <2>6 DEF Shape
  <1>5. CASE PushCas(t)
    <2>1. Goto(t, Pushed(t)) \/ UNCHANGED pc
      BY <1>5 DEF PushCas
    <2>2. PcInv' /\ TurnInv'
      BY <1>2, <2>1, TurnKept, <1>1 DEF Shape, PcInv, TurnInv
    <2>3. top[on[t]] \in 0 .. created /\ conn[t] \in 0 .. created /\ on[t] \in Stack
      BY DEF Shape, TypeInv
    <2>4. TypeInv'
      <3>1. next' \in [Connections -> 0 .. created]
        BY <1>5, <2>3, <1>3 DEF Shape, TypeInv, PushCas
      <3>2. top' \in [Stack -> 0 .. created]
        BY <1>5, <2>3 DEF Shape, TypeInv, PushCas
      <3>3. conn' \in [Threads -> 0 .. created] /\ on' \in [Threads -> Stack]
        BY <1>5, <1>1 DEF Shape, TypeInv, PushCas, Zero, Stack, CountInv
      <3> QED BY <1>5, <3>1, <3>2, <3>3 DEF Shape, TypeInv, PushCas, Made
    <2>5. ConnInv'
      BY <1>5, <1>1, FoundLabels DEF Shape, TypeInv, ConnInv, PushCas, Goto, Zero, Holding, Pushes
    <2> QED BY <2>2, <2>4, <2>5 DEF Shape
  <1> QED BY <1>4, <1>5 DEF Pushing

LEMMA UserKeepsShape ==
  ASSUME Shape, IInv, CountInv', NEW u \in Users,
         StartPop(u) \/ LoadCount(u) \/ GrowCas(u) \/ PushBack(u)
  PROVE  Shape'
  <1> USE ThreadFacts DEF IInv, FunctionInv
  <1>1. pc[u] \in {"use", "grow", "growCas"} => u \in cast
    BY DEF Shape, TurnInv
  <1>2. CASE StartPop(u)
    <2>1. PcInv' /\ TurnInv'
      BY <1>2, TurnKept DEF StartPop, TurnsTo, Pops
    <2>2. TypeInv' /\ ConnInv'
      BY <1>2 DEF StartPop, Shape, TypeInv, ConnInv, Goto, shared, local, Made, Holding
    <2> QED BY <2>1, <2>2 DEF Shape
  <1>3. CASE LoadCount(u)
    <2>1. Goto(u, "growCas") \/ Goto(u, "idle")
      BY <1>3 DEF LoadCount, TestCount
    <2>2. pc[Owner] = "idle" /\ cast' = cast
      BY <1>3 DEF LoadCount, Shape, TurnInv
    <2>3. PcInv' /\ TurnInv'
      BY <1>1, <1>3, <2>1, <2>2, TurnKept DEF LoadCount, TurnsTo
    <2>4. seen' \in [Threads -> 0 .. created]
      BY <1>3, Numbers DEF LoadCount, TestCount, Zero, Shape, TypeInv, CountInv, None
    <2>5. TypeInv' /\ ConnInv'
      BY <1>3, <2>1, <2>4 DEF LoadCount, Shape, TypeInv, ConnInv, Goto, shared, Made, Holding
    <2> QED BY <2>3, <2>5 DEF Shape
  <1>4. CASE GrowCas(u)
    <2>1. Goto(u, "growCas") \/ Goto(u, "idle") \/ Goto(u, "use")
      BY <1>4 DEF GrowCas, TestCount
    <2>2. pc[Owner] = "idle" /\ cast' = cast
      BY <1>4 DEF GrowCas, Shape, TurnInv
    <2>3. PcInv' /\ TurnInv'
      BY <1>1, <1>4, <2>1, <2>2, TurnKept DEF GrowCas, TurnsTo
    <2>4. seen' \in [Threads -> 0 .. created]
      BY <1>4, Numbers DEF GrowCas, TestCount, Zero, Shape, TypeInv, CountInv, None
    <2>5. created \in Nat /\ created' \in {created, created + 1}
      BY <1>4, Numbers DEF GrowCas
    <2>6. 0 .. created \subseteq 0 .. created'
      BY <2>5
    <2>7. conn' \in [Threads -> 0 .. created']
      BY <1>4, <2>5, <2>6 DEF GrowCas, Keep, Shape, TypeInv
    <2>8. TypeInv'
      BY <1>4, <2>4, <2>6, <2>7 DEF GrowCas, Shape, TypeInv, Made
    <2>9. ConnInv'
      BY <1>4, <2>5 DEF GrowCas, TestCount, Shape, TypeInv, ConnInv, Goto, Keep, Holding, None
    <2> QED BY <2>3, <2>8, <2>9 DEF Shape
  <1>5. CASE PushBack(u)
    <2>1. conn[u] \in Connections /\ pc[u] = "use" /\ cast' = cast /\ pc[Owner] = "idle"
      BY <1>5, Numbers DEF PushBack, Shape, TypeInv, ConnInv, Holding
    <2>2. CASE Goto(u, "push") /\ UNCHANGED conn
      <3>1. PcInv' /\ TurnInv'
        BY <1>1, <2>1, <2>2, TurnKept DEF TurnsTo, Pushes
      <3>2. TypeInv' /\ ConnInv'
        BY <1>5, <2>1, <2>2 DEF PushBack, Shape, TypeInv, ConnInv, Goto, shared, Made, Holding
      <3> QED BY <3>1, <3>2 DEF Shape
    <2>3. CASE Detach(u, "idle")
      <3>1. PcInv' /\ TurnInv'
        BY <2>1, <2>3, DetachTurnKept DEF TurnsTo
      <3>2. TypeInv' /\ ConnInv'
        BY <1>5, <2>1, <2>3, DetachConnKept DEF PushBack, shared, Holding
      <3> QED BY <3>1, <3>2 DEF Shape
    <2> QED BY <1>5, <2>2, <2>3 DEF PushBack
  <1> QED BY <1>2, <1>3, <1>4, <1>5

LEMMA PingerKeepsShape ==
  ASSUME Shape, IInv, Sleep \/ Exchange \/ PingerFound \/ PingConnection
  PROVE  Shape'
  <1> USE ThreadFacts DEF IInv, FunctionInv
  <1>1. /\ pc[Pinger] \in {"sleep", "exchange", "exchangeEarly", "found", "ping"}
        /\ Pinger \in cast /\ pc[Owner] \in {"idle", "join"} /\ cast' = cast
    BY DEF Sleep, Exchange, PingerFound, PingConnection, Shape, TurnInv
  <1>2. \A label \in Pops \cup Pushes \cup {"sleep", "exchange", "exchangeEarly", "found",
                                            "ping", "finished"} : TurnsTo(Pinger, label)
    BY <1>1 DEF TurnsTo
  <1>3. CASE Sleep \/ Exchange \/ PingerFound
    <2>1. PICK label \in {"popFirst", "push", "sleep", "exchangeEarly", "ping", "finished"} :
            Goto(Pinger, label)
      BY <1>3 DEF Sleep, Exchange, PingerFound
    <2>2. PcInv' /\ TurnInv'
      BY <1>1, <1>2, <2>1, TurnKept DEF Pops, Pushes
    <2>3. UNCHANGED <<top, next, created, deleted, conn, on, seen>> /\ first' \in Stack
      BY <1>3 DEF Sleep, Exchange, PingerFound, shared, local, Shape, TypeInv, Stack
    <2>4. TypeInv'
      BY <2>3 DEF Shape, TypeInv, Made
    <2>5. ConnInv'
      BY <1>3, <2>3 DEF Shape, ConnInv, Sleep, Exchange, PingerFound, Goto, Holding
    <2> QED BY <2>2, <2>4, <2>5 DEF Shape
  <1>4. CASE PingConnection
    <2>1. conn[Pinger] \in Connections
      BY <1>4, Numbers DEF PingConnection, Shape, TypeInv, ConnInv, Holding
    <2>2. CASE Goto(Pinger, "push") /\ UNCHANGED conn
      <3>1. PcInv' /\ TurnInv'
        BY <1>1, <1>2, <2>2, TurnKept DEF Pushes
      <3>2. TypeInv' /\ ConnInv'
        BY <1>4, <2>1, <2>2 DEF PingConnection, Shape, TypeInv, ConnInv, Goto, shared, Made, Holding
      <3> QED BY <3>1, <3>2 DEF Shape
    <2>3. CASE Detach(Pinger, "popFirst")
      <3>1. PcInv' /\ TurnInv'
        BY <1>1, <1>2, <2>1, <2>3, DetachTurnKept DEF Pops
      <3>2. TypeInv' /\ ConnInv'
        BY <1>1, <1>4, <2>1, <2>3, DetachConnKept DEF PingConnection, shared, Holding
      <3> QED BY <3>1, <3>2 DEF Shape
    <2> QED BY <1>4, <2>2, <2>3 DEF PingConnection
  <1> QED BY <1>3, <1>4

LEMMA OthersKeepShape ==
  ASSUME Shape, IInv, (\E c \in Connections : Reconnected(c)) \/ Destroy \/ Join \/ Delete
  PROVE  Shape'
  <1> USE ThreadFacts DEF IInv, FunctionInv
  <1>1. ASSUME NEW c \in Connections, Reconnected(c) PROVE Shape'
    <2>1. conn[c] = c /\ cast' = cast
      BY <1>1 DEF Reconnected, Shape, ConnInv
    <2>2. CASE Goto(c, "push") /\ UNCHANGED conn
      <3>1. PcInv' /\ TurnInv'
        BY <2>1, <2>2, TurnKept DEF TurnsTo, Pushes
      <3>2. TypeInv' /\ ConnInv'
        BY <1>1, <2>1, <2>2 DEF Reconnected, Shape, TypeInv, ConnInv, Goto, shared, Made, Holding
      <3> QED BY <3>1, <3>2 DEF Shape
    <2>3. CASE Detach(c, "reconnect")
      <3>1. PcInv' /\ TurnInv'
        BY <2>1, <2>3, DetachTurnKept DEF TurnsTo
      <3>2. TypeInv' /\ ConnInv'
        BY <1>1, <2>1, <2>3, DetachConnKept DEF Reconnected, shared
      <3> QED BY <3>1, <3>2 DEF Shape
    <2> QED BY <1>1, <2>2, <2>3 DEF Reconnected
  <1>2. CASE Destroy \/ Join \/ Delete
    <2>1. PICK label \in {"popFirst", "popSecond", "join"} : Goto(Owner, label)
      BY <1>2 DEF Destroy, Join, Delete
    <2>2. TurnsTo(Owner, label)
      BY <1>2, <2>1 DEF Destroy, Join, Delete, Goto, TurnsTo, Shape, PcInv, TurnInv, Pops
    <2>3. PcInv' /\ TurnInv'
      BY <1>2, <2>1, <2>2, TurnKept DEF Destroy, Join, Delete
    <2>4. conn[Owner] \in Made \/ ~Delete
      BY Numbers DEF Delete, Shape, TypeInv, ConnInv, Holding, Made, None
    <2>5. /\ UNCHANGED <<top, first, next, created, conn, on, seen>>
          /\ deleted' \subseteq Made
      BY <1>2, <2>4 DEF Destroy, Join, Delete, local, shared, Shape, TypeInv
    <2>6. TypeInv'
      BY <2>5 DEF Shape, TypeInv, Made
    <2>7. ConnInv'
      BY <2>1, <2>5 DEF Shape, ConnInv, Goto, Holding
    <2> QED BY <2>3, <2>6, <2>7 DEF Shape
  <1> QED BY <1>1, <1>2

-----------------------------------------------------------------------------
(* The places of the connections, step by step.                             *)

Strict == OwnInv /\ LineInv /\ PopInv

LEMMA LinkFacts ==
  ASSUME IInv, Shape
  PROVE  /\ next \in Links
         /\ \A s \in Stack : top[s] \in Connections \cup {None} /\ Chain(s) \subseteq Connections
  BY Numbers DEF Shape, TypeInv, Links, Chain, Reachable

\* Whoever looks at the top of a stack is the only one who takes from it.
LEMMA OneTakes ==
  ASSUME Shape, Alone, NEW t \in Threads, NEW r \in Threads,
         pc[t] \in {"popNext", "popCas"}, pc[r] \in {"popNext", "popCas"}
  PROVE  t = r
  <1>1. t \in Users \cup {Pinger, Owner} /\ r \in Users \cup {Pinger, Owner}
    BY Poppers DEF Pops
  <1>2. CASE t = Owner \/ r = Owner
    BY <1>1, <1>2, ThreadFacts DEF Shape, TurnInv
  <1>3. CASE t # Owner /\ r # Owner
    BY <1>1, <1>3 DEF Shape, TurnInv, Alone
  <1> QED BY <1>2, <1>3

\* A step that changes no link, no top and no hand.
LEMMA StillKeeps ==
  ASSUME Strict, UNCHANGED <<cast, top, next, deleted, created>>,
         \A t \in Threads : Hand(t)' = Hand(t),
         Alone => \A t \in Threads : pc'[t] \in {"popNext", "popCas"} =>
           \/ pc'[t] = "popNext" /\ conn'[t] \in Chain(on'[t])
           \/ pc'[t] = "popCas" /\ pc[t] \in {"popNext", "popCas"}
              /\ conn'[t] = conn[t] /\ on'[t] = on[t] /\ seen'[t] = next[conn[t]]
  PROVE  Strict'
  <1>1. \A s : Chain(s)' = Chain(s)
    BY DEF Chain, Reachable, Closed
  <1>2. OwnInv'
    BY <1>1 DEF Strict, OwnInv, Made
  <1>3. LineInv'
    BY <1>1 DEF Strict, LineInv
  <1>4. PopInv'
    <2>1. Alone' = Alone
      BY DEF Alone
    <2> QED BY <1>1, <2>1 DEF Strict, PopInv
  <1> QED BY <1>2, <1>3, <1>4 DEF Strict

\* A step that gives what one thread held to another, who held nothing.
LEMMA PassKeeps ==
  ASSUME Strict, UNCHANGED <<cast, top, next, deleted, created, on, seen>>,
         NEW t \in Threads, NEW r \in Threads, t = r \/ Hand(r) = None,
         \A x \in Threads : Hand(x)' = IF x = r THEN Hand(t) ELSE IF x = t THEN None ELSE Hand(x),
         \A x \in Threads : pc'[x] \in {"popNext", "popCas"} =>
                              pc'[x] = pc[x] /\ conn'[x] = conn[x]
  PROVE  Strict'
  <1>1. \A s : Chain(s)' = Chain(s)
    BY DEF Chain, Reachable, Closed
  <1>2. OwnInv'
    <2>1. \A c \in Made' : c \in (deleted \cup Chain(0) \cup Chain(1))' \/ \E x \in Threads : Hand(x)' = c
      BY <1>1 DEF Strict, OwnInv, Made, None
    <2>2. \A x, y \in Threads : Hand(x)' = Hand(y)' /\ Hand(x)' # None => x = y
      BY DEF Strict, OwnInv
    <2>3. \A x \in Threads, s \in Stack : Hand(x)' \notin Chain(s)' /\ Hand(x)' \notin deleted'
      BY <1>1 DEF Strict, OwnInv
    <2> QED BY <1>1, <2>1, <2>2, <2>3 DEF Strict, OwnInv, Made
  <1>3. LineInv'
    BY <1>1 DEF Strict, LineInv
  <1>4. PopInv'
    <2>1. Alone' = Alone
      BY DEF Alone
    <2> QED BY <1>1, <2>1 DEF Strict, PopInv
  <1> QED BY <1>2, <1>3, <1>4 DEF Strict

LEMMA TopInChain ==
  ASSUME IInv, Shape, NEW s \in Stack, top[s] # None
  PROVE  top[s] \in Chain(s)
  BY LinkFacts, ReachableIsClosed DEF Chain, Closed

\* The compare-exchange of Pop that succeeds.
LEMMA TakeKeeps ==
  ASSUME IInv, Shape, Strict, NEW t \in Threads, PopCas(t), top[on[t]] = conn[t],
         seen[t] = next[conn[t]]
  PROVE  Strict'
  <1> USE ThreadFacts DEF IInv, FunctionInv
  <1>1. PICK c \in Connections, s \in Stack : c = conn[t] /\ s = on[t]
    BY Numbers DEF PopCas, Shape, TypeInv, ConnInv
  <1>2. c \in Chain(s) /\ c # None /\ pc[t] = "popCas" /\ top[s] = c /\ seen[t] = next[c]
    BY <1>1, ThreadFacts, TopInChain DEF PopCas
  <1>3. next' = next /\ UNCHANGED <<deleted, created, conn, on>>
    BY DEF PopCas
  <1>4. top' = [top EXCEPT ![s] = next[c]]
    BY <1>1, <1>2 DEF PopCas
  <1>5. \A r \in Stack : top'[r] = IF r = s THEN next[c] ELSE top[r]
    BY <1>2, <1>4 DEF Shape, TypeInv
  <1>6. Reachable(next[c], next) = Chain(s) \ {c}
    BY <1>2, LinkFacts, ReachablePopped DEF Strict, LineInv, Chain
  <1>7. \A r \in Stack : Chain(r)' = IF r = s THEN Chain(s) \ {c} ELSE Chain(r)
    <2>1. \A r \in Stack : Chain(r)' = Reachable(top'[r], next)
      BY <1>3 DEF Chain, Reachable, Closed
    <2> QED BY <2>1, <1>5, <1>6 DEF Chain
  <1>8. Hand(t) = None /\ Hand(t)' = c
    <2>1. pc'[t] \in {"use", "found", "delete"}
      BY <1>2, Poppers, FoundLabels DEF PopCas, Goto, Pops
    <2> QED BY <1>1, <1>2, <1>3, <2>1 DEF Hand, Holding
  <1>9. \A r \in Threads : r # t => Hand(r)' = Hand(r) /\ pc'[r] = pc[r]
    BY <1>3 DEF PopCas, Goto, Hand
  <1>10. OwnInv'
    <2>1. \A r \in Threads : Hand(r)' = IF r = t THEN c ELSE Hand(r)
      BY <1>8, <1>9
    <2>2. \A r \in Threads : Hand(r) # c
      BY <1>2 DEF Strict, OwnInv
    <2>3. \A r, x \in Threads : Hand(r)' = Hand(x)' /\ Hand(r)' # None => r = x
      BY <2>1, <2>2 DEF Strict, OwnInv
    <2>4. \A r \in Threads, x \in Stack : Hand(r)' \notin Chain(x)' /\ Hand(r)' \notin deleted'
      <3>1. c \notin deleted /\ \A x \in Stack : x # s => c \notin Chain(x)
        BY <1>2 DEF Strict, OwnInv, Stack
      <3> QED BY <1>2, <1>3, <1>7, <2>1, <3>1 DEF Strict, OwnInv
    <2>5. (Chain(0) \cap Chain(1))' = {} /\ \A x \in Stack : Chain(x)' \subseteq Made' \ deleted'
      BY <1>2, <1>3, <1>7 DEF Strict, OwnInv, Stack, Made
    <2>6. \A x \in Made' : \/ x \in deleted' \cup Chain(0)' \cup Chain(1)'
                           \/ \E r \in Threads : Hand(r)' = x
      <3>1. ASSUME NEW x \in Made, x # c
            PROVE  x \in deleted' \cup Chain(0)' \cup Chain(1)' \/ \E r \in Threads : Hand(r)' = x
        <4>1. ASSUME NEW r \in Threads, Hand(r) = x PROVE Hand(r)' = x
          <5>1. x # None
            BY DEF Made, None
          <5> QED BY <4>1, <5>1, <1>8, <1>9
        <4>2. CASE x \in deleted \cup Chain(0) \cup Chain(1)
          BY <4>2, <1>3, <1>7, <3>1 DEF Stack
        <4> QED BY <4>1, <4>2 DEF Strict, OwnInv
      <3> QED BY <3>1, <1>3, <1>8 DEF Made
    <2> QED BY <2>3, <2>4, <2>5, <2>6 DEF OwnInv
  <1>11. LineInv'
    <2>1. ASSUME NEW r \in Stack, r # s PROVE Chain(r)' = Chain(r) /\ top'[r] = top[r]
      BY <2>1, <1>5, <1>7
    <2>2. Chain(s)' = Chain(s) \ {c} /\ top'[s] = next[c]
      BY <1>5, <1>7
    <2>3. ASSUME NEW r \in Stack, NEW d \in Chain(r)' PROVE next'[d] # top'[r]
      <3>1. ASSUME next[c] = None PROVE Chain(s)' = {}
        <4>1. Closed({}, next[c], next)
          BY <3>1 DEF Closed
        <4>2. Reachable(next[c], next) \subseteq {}
          BY <4>1, ReachableIsLeast
        <4> QED BY <1>6, <2>2, <4>2
      <3>2. CASE r = s
        BY <1>2, <1>3, <2>2, <2>3, <3>1, <3>2 DEF Strict, LineInv
      <3>3. CASE r # s
        BY <1>3, <2>1, <2>3, <3>3 DEF Strict, LineInv
      <3> QED BY <3>2, <3>3
    <2>4. ASSUME NEW r \in Stack, NEW d \in Chain(r)', NEW e \in Chain(r)',
                 next'[d] = next'[e], next'[d] # None
          PROVE  d = e
      BY <1>3, <2>1, <2>2, <2>4 DEF Strict, LineInv
    <2> QED BY <2>3, <2>4 DEF LineInv
  <1>12. PopInv'
    <2>1. Alone' = Alone
      BY DEF PopCas, Alone
    <2>2. ASSUME Alone, NEW r \in Threads PROVE pc'[r] \notin {"popNext", "popCas"}
      <3>1. pc'[t] \in {"use", "found", "delete"}
        BY <1>2, Poppers, FoundLabels DEF PopCas, Goto, Pops
      <3> QED BY <1>2, <1>9, <2>2, <3>1, OneTakes
    <2> QED BY <2>1, <2>2 DEF PopInv
  <1> QED BY <1>10, <1>11, <1>12 DEF Strict

\* A new link of a connection that is in someone's hand.
LEMMA LinkKeeps ==
  ASSUME IInv, Shape, Strict, NEW t \in Threads, pc[t] \in Holding, NEW n \in 0 .. created,
         next' = [next EXCEPT ![conn[t]] = n], UNCHANGED <<cast, top, deleted, created, conn, on, seen>>,
         pc' = pc \/ (Goto(t, "pushCas"))
  PROVE  Strict'
  <1> USE ThreadFacts DEF IInv, FunctionInv
  <1>1. conn[t] \in Connections /\ Hand(t) = conn[t] /\ Hand(t) # None
    BY Numbers DEF Shape, TypeInv, ConnInv, Hand, None
  <1>2. next \in Links /\ next' \in Links
    BY <1>1, LinkFacts, Numbers DEF Links
  <1>3. \A s \in Stack : \A c \in Chain(s) : next'[c] = next[c]
    BY <1>1, LinkFacts DEF Strict, OwnInv, Shape, TypeInv
  <1>4. \A s \in Stack : Chain(s)' = Chain(s)
    <2>1. ASSUME NEW s \in Stack PROVE Reachable(top[s], next') = Chain(s)
      <3>1. top[s] \in Connections \cup {None} /\ \A c \in Reachable(top[s], next) : next'[c] = next[c]
        BY <1>3, LinkFacts DEF Chain
      <3>2. Reachable(top[s], next') = Reachable(top[s], next)
        BY <1>2, <3>1, ReachableKept
      <3> QED BY <3>2 DEF Chain
    <2>2. \A s \in Stack : Chain(s)' = Reachable(top[s], next')
      BY DEF Chain, Reachable, Closed
    <2> QED BY <2>1, <2>2
  <1>5. \A r \in Threads : Hand(r)' = Hand(r)
    BY <1>1 DEF Goto, Hand, Holding
  <1>6. OwnInv'
    BY <1>4, <1>5 DEF Strict, OwnInv, Made, Stack
  <1>7. LineInv'
    BY <1>3, <1>4 DEF Strict, LineInv
  <1>8. PopInv'
    <2>1. Alone' = Alone
      BY DEF Alone
    <2> QED BY <1>3, <1>4, <2>1 DEF Strict, PopInv, Goto, Shape, TypeInv
  <1> QED BY <1>6, <1>7, <1>8 DEF Strict

\* The compare-exchange of Push that succeeds.
LEMMA GiveKeeps ==
  ASSUME IInv, Shape, Strict, NEW t \in Threads, PushCas(t), top[on[t]] = next[conn[t]]
  PROVE  Strict'
  <1> USE ThreadFacts DEF IInv, FunctionInv
  <1>1. PICK c \in Connections, s \in Stack : c = conn[t] /\ s = on[t]
    BY Numbers DEF PushCas, Shape, TypeInv, ConnInv, Holding
  <1>2. c \in Made /\ Hand(t) = c
    BY <1>1, Numbers DEF PushCas, Shape, TypeInv, ConnInv, Hand, Holding, Made, None
  <1>3. next' = next /\ UNCHANGED <<deleted, created, seen>>
    BY DEF PushCas
  <1>4. \A r \in Stack : top'[r] = IF r = s THEN c ELSE top[r]
    BY <1>1 DEF PushCas, Shape, TypeInv
  <1>5. c \notin Chain(s) /\ c # None /\ Chain(s) = Reachable(next[c], next)
    BY <1>1, <1>2, ThreadFacts DEF Strict, OwnInv, PushCas, Chain
  <1>6. Reachable(c, next) = Chain(s) \cup {c}
    BY <1>2, <1>5, LinkFacts, ReachablePushed
  <1>7. \A r \in Stack : Chain(r)' = IF r = s THEN Chain(s) \cup {c} ELSE Chain(r)
    <2>1. \A r \in Stack : Chain(r)' = Reachable(top'[r], next)
      BY <1>3 DEF Chain, Reachable, Closed
    <2> QED BY <2>1, <1>4, <1>6 DEF Chain
  <1>8. pc'[t] \notin Holding \cup {"popNext", "popCas"} /\ Hand(t)' = None
    BY FoundLabels DEF PushCas, Goto, Hand, Holding
  <1>9. \A r \in Threads : r # t => /\ Hand(r)' = Hand(r) /\ pc'[r] = pc[r]
                                    /\ conn'[r] = conn[r] /\ on'[r] = on[r]
    BY DEF PushCas, Goto, Zero, Hand, Shape, TypeInv
  <1>10. OwnInv'
    <2>1. \A r \in Threads : Hand(r)' = IF r = t THEN None ELSE Hand(r)
      BY <1>8, <1>9
    <2>2. \A r \in Threads : r # t => Hand(r) # c
      BY <1>2, <1>5 DEF Strict, OwnInv
    <2>3. \A r, x \in Threads : Hand(r)' = Hand(x)' /\ Hand(r)' # None => r = x
      BY <2>1 DEF Strict, OwnInv
    <2>4. \A r \in Threads, x \in Stack : Hand(r)' \notin Chain(x)' /\ Hand(r)' \notin deleted'
      <3>1. None \notin deleted /\ \A x \in Stack : None \notin Chain(x)
        BY LinkFacts, Numbers DEF Shape, TypeInv
      <3> QED BY <1>3, <1>5, <1>7, <2>1, <2>2, <3>1 DEF Strict, OwnInv
    <2>5. (Chain(0) \cap Chain(1))' = {} /\ \A x \in Stack : Chain(x)' \subseteq Made' \ deleted'
      <3>1. c \notin deleted /\ \A x \in Stack : c \notin Chain(x)
        BY <1>2 DEF Strict, OwnInv
      <3> QED BY <1>2, <1>3, <1>7, <3>1 DEF Strict, OwnInv, Stack, Made
    <2>6. \A x \in Made' : \/ x \in deleted' \cup Chain(0)' \cup Chain(1)'
                           \/ \E r \in Threads : Hand(r)' = x
      <3>1. ASSUME NEW x \in Made
            PROVE  x \in deleted' \cup Chain(0)' \cup Chain(1)' \/ \E r \in Threads : Hand(r)' = x
        <4>1. ASSUME NEW r \in Threads, Hand(r) = x
              PROVE  x \in Chain(0)' \cup Chain(1)' \/ Hand(r)' = x
          <5>1. CASE r = t
            <6>1. x \in Chain(s)'
              BY <4>1, <5>1, <1>2, <1>7
            <6> QED BY <6>1, <1>2 DEF Stack
          <5>2. CASE r # t
            BY <4>1, <5>2, <1>9
          <5> QED BY <5>1, <5>2
        <4>2. CASE x \in deleted \cup Chain(0) \cup Chain(1)
          BY <4>2, <1>3, <1>7 DEF Stack
        <4> QED BY <4>1, <4>2 DEF Strict, OwnInv
      <3> QED BY <3>1, <1>3 DEF Made
    <2> QED BY <2>3, <2>4, <2>5, <2>6 DEF OwnInv
  <1>11. LineInv'
    <2>1. Closed(Chain(s), next[c], next)
      BY <1>2, <1>5, LinkFacts, ReachableIsClosed DEF Links
    <2>2. \A d \in Chain(s) : next[d] # c /\ next[d] # top[s]
      BY <1>2, <1>5, <2>1 DEF Closed, Strict, LineInv
    <2>3. next[c] # c /\ next[c] = top[s]
      BY <1>1, <1>5, <2>1 DEF Closed, PushCas
    <2>4. ASSUME NEW r \in Stack, r # s PROVE Chain(r)' = Chain(r) /\ top'[r] = top[r]
      BY <2>4, <1>4, <1>7
    <2>5. Chain(s)' = Chain(s) \cup {c} /\ top'[s] = c
      BY <1>2, <1>4, <1>7
    <2>6. ASSUME NEW r \in Stack, NEW d \in Chain(r)' PROVE next'[d] # top'[r]
      BY <1>2, <1>3, <2>2, <2>3, <2>4, <2>5, <2>6 DEF Strict, LineInv
    <2>7. ASSUME NEW r \in Stack, NEW d \in Chain(r)', NEW e \in Chain(r)',
                 next'[d] = next'[e], next'[d] # None
          PROVE  d = e
      BY <1>2, <1>3, <2>2, <2>3, <2>4, <2>5, <2>7 DEF Strict, LineInv
    <2> QED BY <2>6, <2>7 DEF LineInv
  <1>12. PopInv'
    <2>1. Alone' = Alone
      BY DEF PushCas, Alone
    <2> QED BY <1>3, <1>7, <1>8, <1>9, <2>1 DEF Strict, PopInv, Shape, TypeInv
  <1> QED BY <1>10, <1>11, <1>12 DEF Strict

\* The pool grows: the user holds a connection that is nowhere else.
LEMMA GrowKeeps ==
  ASSUME IInv, Shape, Strict, NEW u \in Users, GrowCas(u), count = seen[u]
  PROVE  Strict'
  <1> USE ThreadFacts DEF IInv, FunctionInv
  <1> DEFINE c == created + 1
  <1>1. created \in Nat /\ created' = c /\ UNCHANGED <<top, next, deleted, on>>
    BY Numbers DEF GrowCas
  <1>2. Made' = Made \cup {c} /\ c \notin Made /\ c # None
    BY <1>1 DEF Made, None
  <1>3. Hand(u) = None /\ Hand(u)' = c /\ pc'[u] = "use"
    BY <1>1 DEF GrowCas, Goto, Keep, Hand, Holding, Shape, TypeInv
  <1>4. \A r \in Threads : r # u => /\ Hand(r)' = Hand(r) /\ pc'[r] = pc[r]
                                    /\ conn'[r] = conn[r] /\ seen'[r] = seen[r]
    BY DEF GrowCas, Goto, Keep, Zero, Hand, Shape, TypeInv
  <1>5. \A r \in Threads : Hand(r) \in Made \cup {None}
    BY <1>1 DEF Shape, TypeInv, Hand, Made, None
  <1>6. \A s : Chain(s)' = Chain(s)
    BY <1>1 DEF Chain, Reachable, Closed
  <1>7. OwnInv'
    <2>1. \A r, x \in Threads : Hand(r)' = Hand(x)' /\ Hand(r)' # None => r = x
      BY <1>2, <1>3, <1>4, <1>5 DEF Strict, OwnInv
    <2>2. \A s \in Stack : c \notin Chain(s) /\ c \notin deleted
      BY <1>2 DEF Strict, OwnInv, Shape, TypeInv
    <2>3. \A r \in Threads, s \in Stack : Hand(r)' \notin Chain(s)' /\ Hand(r)' \notin deleted'
      BY <1>1, <1>3, <1>4, <1>6, <2>2 DEF Strict, OwnInv
    <2>4. (Chain(0) \cap Chain(1))' = {} /\ \A s \in Stack : Chain(s)' \subseteq Made' \ deleted'
      BY <1>1, <1>2, <1>6 DEF Strict, OwnInv
    <2>5. \A x \in Made' : \/ x \in deleted' \cup Chain(0)' \cup Chain(1)'
                           \/ \E r \in Threads : Hand(r)' = x
      <3>1. ASSUME NEW x \in Made
            PROVE  x \in deleted' \cup Chain(0)' \cup Chain(1)' \/ \E r \in Threads : Hand(r)' = x
        <4>1. CASE \E r \in Threads : Hand(r) = x
          <5>1. x # None
            BY DEF Made, None
          <5> QED BY <4>1, <5>1, <1>3, <1>4
        <4>2. CASE x \in deleted \cup Chain(0) \cup Chain(1)
          BY <4>2, <1>1, <1>6
        <4> QED BY <4>1, <4>2 DEF Strict, OwnInv
      <3> QED BY <3>1, <1>2, <1>3
    <2> QED BY <2>1, <2>3, <2>4, <2>5 DEF OwnInv
  <1>8. LineInv'
    BY <1>1, <1>6 DEF Strict, LineInv
  <1>9. PopInv'
    <2>1. Alone' = Alone
      BY DEF GrowCas, Alone
    <2> QED BY <1>1, <1>3, <1>4, <1>6, <2>1 DEF Strict, PopInv
  <1> QED BY <1>7, <1>8, <1>9 DEF Strict

\* The destructor deletes what it holds.
LEMMA DeleteKeeps ==
  ASSUME IInv, Shape, Strict, Delete
  PROVE  Strict'
  <1> USE ThreadFacts DEF IInv, FunctionInv
  <1> DEFINE c == conn[Owner]
  <1>1. deleted' = deleted \cup {c} /\ UNCHANGED <<top, next, created, conn, on, seen>>
    BY DEF Delete, local
  <1>2. Hand(Owner) = c /\ Hand(Owner)' = None /\ c # None
        /\ pc'[Owner] \notin {"popNext", "popCas"}
    BY <1>1 DEF Delete, Goto, Hand, Holding, Shape, ConnInv
  <1>3. \A r \in Threads : r # Owner => Hand(r)' = Hand(r) /\ pc'[r] = pc[r]
    BY <1>1 DEF Delete, Goto, Hand
  <1>4. \A s : Chain(s)' = Chain(s)
    BY <1>1 DEF Chain, Reachable, Closed
  <1>5. OwnInv'
    <2>1. \A r, x \in Threads : Hand(r)' = Hand(x)' /\ Hand(r)' # None => r = x
      BY <1>2, <1>3 DEF Strict, OwnInv
    <2>2. \A r \in Threads : r # Owner => Hand(r) # c
      BY <1>2 DEF Strict, OwnInv
    <2>3. None \notin deleted /\ \A s \in Stack : None \notin Chain(s)
      BY LinkFacts, Numbers DEF Shape, TypeInv
    <2>4. \A r \in Threads, s \in Stack : Hand(r)' \notin Chain(s)' /\ Hand(r)' \notin deleted'
      BY <1>1, <1>2, <1>3, <1>4, <2>2, <2>3 DEF Strict, OwnInv
    <2>5. (Chain(0) \cap Chain(1))' = {} /\ \A s \in Stack : Chain(s)' \subseteq Made' \ deleted'
      BY <1>1, <1>2, <1>4 DEF Strict, OwnInv, Made
    <2>6. \A x \in Made' : \/ x \in deleted' \cup Chain(0)' \cup Chain(1)'
                           \/ \E r \in Threads : Hand(r)' = x
      BY <1>1, <1>2, <1>3, <1>4 DEF Strict, OwnInv, Made
    <2> QED BY <2>1, <2>4, <2>5, <2>6 DEF OwnInv
  <1>6. LineInv'
    BY <1>1, <1>4 DEF Strict, LineInv
  <1>7. PopInv'
    <2>1. Alone' = Alone
      BY DEF Delete, Alone
    <2> QED BY <1>1, <1>2, <1>3, <1>4, <2>1 DEF Strict, PopInv
  <1> QED BY <1>5, <1>6, <1>7 DEF Strict

\* A step of one thread that changes no link, no top and no hand.
LEMMA StillFor ==
  ASSUME Strict, UNCHANGED <<cast, top, next, deleted, created>>, NEW t \in Threads,
         \A r \in Threads : r # t => /\ pc'[r] = pc[r] /\ conn'[r] = conn[r]
                                     /\ on'[r] = on[r] /\ seen'[r] = seen[r],
         Hand(t)' = Hand(t),
         pc'[t] \in {"popNext", "popCas"} =>
           \/ pc'[t] = "popNext" /\ conn'[t] \in Chain(on'[t])
           \/ pc'[t] = "popCas" /\ pc[t] \in {"popNext", "popCas"}
              /\ conn'[t] = conn[t] /\ on'[t] = on[t] /\ seen'[t] = next[conn[t]]
  PROVE  Strict'
  <1>1. \A r \in Threads : Hand(r)' = Hand(r)
    BY DEF Hand
  <1>2. ASSUME Alone, NEW r \in Threads, pc'[r] \in {"popNext", "popCas"}
        PROVE  \/ pc'[r] = "popNext" /\ conn'[r] \in Chain(on'[r])
               \/ pc'[r] = "popCas" /\ pc[r] \in {"popNext", "popCas"}
                  /\ conn'[r] = conn[r] /\ on'[r] = on[r] /\ seen'[r] = next[conn[r]]
    BY <1>2 DEF Strict, PopInv
  <1> QED BY <1>1, <1>2, StillKeeps

LEMMA LookKeeps ==
  ASSUME IInv, Shape, Strict, NEW t \in Threads, pc[t] \in Pops, LookAt(t, top[on[t]]),
         UNCHANGED <<cast, top, next, deleted, created, on>>,
         seen' = seen \/ seen' = Zero(seen, t)
  PROVE  Strict'
  <1> USE ThreadFacts DEF IInv, FunctionInv
  <1>1. on[t] \in Stack /\ top[on[t]] \in Connections \cup {None}
    BY LinkFacts DEF Shape, TypeInv
  <1>2. \A r \in Threads : r # t => /\ pc'[r] = pc[r] /\ conn'[r] = conn[r]
                                    /\ on'[r] = on[r] /\ seen'[r] = seen[r]
    BY DEF LookAt, Goto, Keep, Zero, Shape, TypeInv
  <1>3. Hand(t)' = Hand(t)
    BY Poppers, FoundLabels DEF LookAt, Goto, Hand, Holding, Pops
  <1>4. ASSUME pc'[t] \in {"popNext", "popCas"}
        PROVE  pc'[t] = "popNext" /\ conn'[t] \in Chain(on'[t])
    <2>1. top[on[t]] # None /\ pc'[t] = "popNext"
      BY <1>4, Poppers, FoundLabels DEF LookAt, Goto
    <2>2. conn'[t] = top[on[t]]
      BY DEF LookAt, Keep, Shape, TypeInv
    <2> QED BY <1>1, <2>1, <2>2, TopInChain
  <1> QED BY <1>2, <1>3, <1>4, StillFor

LEMMA PopKeepsPlaces ==
  ASSUME IInv, Shape, Strict, ~outdated, NEW t \in Threads, Popping(t)
  PROVE  (~outdated' => Strict') /\ (Alone => ~outdated')
  <1> USE ThreadFacts DEF IInv, FunctionInv
  <1>1. CASE PopFirst(t) \/ PopSecond(t)
    <2>1. \A r \in Threads : r # t => /\ pc'[r] = pc[r] /\ conn'[r] = conn[r]
                                      /\ on'[r] = on[r] /\ seen'[r] = seen[r]
      BY <1>1 DEF PopFirst, PopSecond, GotoOn, Goto, Shape, TypeInv
    <2>2. Hand(t)' = Hand(t) /\ pc'[t] = "popLoad"
      BY <1>1 DEF PopFirst, PopSecond, GotoOn, Goto, Hand, Holding
    <2>3. UNCHANGED <<cast, outdated, top, next, deleted, created>>
      BY <1>1 DEF PopFirst, PopSecond, shared
    <2> QED BY <2>1, <2>2, <2>3, StillFor
  <1>2. CASE PopLoad(t)
    BY <1>2, LookKeeps DEF PopLoad, shared, Pops
  <1>3. CASE PopNext(t)
    <2>1. \A r \in Threads : r # t => /\ pc'[r] = pc[r] /\ conn'[r] = conn[r]
                                      /\ on'[r] = on[r] /\ seen'[r] = seen[r]
      BY <1>3 DEF PopNext, Goto, Shape, TypeInv
    <2>2. Hand(t)' = Hand(t) /\ pc'[t] = "popCas"
      BY <1>3 DEF PopNext, Goto, Hand, Holding
    <2>3. /\ UNCHANGED <<cast, outdated, top, next, deleted, created>> /\ pc[t] = "popNext"
          /\ conn'[t] = conn[t] /\ on'[t] = on[t] /\ seen'[t] = next[conn[t]]
      BY <1>3 DEF PopNext, shared
    <2> QED BY <2>1, <2>2, <2>3, StillFor
  <1>4. CASE PopCas(t) /\ top[on[t]] = conn[t]
    <2>1. outdated' = (seen[t] # next[conn[t]])
      BY <1>4 DEF PopCas
    <2>2. Alone => seen[t] = next[conn[t]]
      BY <1>4 DEF PopCas, Strict, PopInv
    <2> QED BY <1>4, <2>1, <2>2, TakeKeeps
  <1>5. CASE PopCas(t) /\ top[on[t]] # conn[t]
    BY <1>5, LookKeeps DEF PopCas, Pops
  <1> QED BY <1>1, <1>2, <1>3, <1>4, <1>5 DEF Popping

LEMMA PushKeepsPlaces ==
  ASSUME IInv, Shape, Strict, NEW t \in Threads, Pushing(t)
  PROVE  Strict'
  <1> USE ThreadFacts DEF IInv, FunctionInv
  <1>1. on[t] \in Stack /\ top[on[t]] \in 0 .. created
    BY DEF Shape, TypeInv
  <1>2. CASE PushSecond(t)
    <2>1. \A r \in Threads : r # t => /\ pc'[r] = pc[r] /\ conn'[r] = conn[r]
                                      /\ on'[r] = on[r] /\ seen'[r] = seen[r]
      BY <1>2 DEF PushSecond, GotoOn, Goto, Shape, TypeInv
    <2>2. Hand(t)' = Hand(t) /\ pc'[t] = "pushLoad"
      BY <1>2 DEF PushSecond, GotoOn, Goto, Hand, Holding
    <2>3. UNCHANGED <<cast, top, next, deleted, created>>
      BY <1>2 DEF PushSecond, shared
    <2> QED BY <2>1, <2>2, <2>3, StillFor
  <1>3. CASE PushLoad(t)
    BY <1>1, <1>3, LinkKeeps DEF PushLoad, local, Holding
  <1>4. CASE PushCas(t) /\ top[on[t]] = next[conn[t]]
    BY <1>4, GiveKeeps
  <1>5. CASE PushCas(t) /\ top[on[t]] # next[conn[t]]
    BY <1>1, <1>5, LinkKeeps DEF PushCas, Holding
  <1> QED BY <1>2, <1>3, <1>4, <1>5 DEF Pushing

\* What a thread reconnects was not in the hand of the detached thread.
LEMMA DetachKeepsPlaces ==
  ASSUME IInv, Shape, Strict, NEW t \in Threads, NEW label, Detach(t, label),
         pc[t] \in Holding, label \notin Holding \cup {"popNext", "popCas"} \/ t = conn[t],
         UNCHANGED <<cast, top, next, deleted, created, on, seen>>
  PROVE  Strict'
  <1> USE ThreadFacts DEF IInv, FunctionInv
  <1>1. PICK c \in Connections : c = conn[t]
    BY Numbers DEF Shape, TypeInv, ConnInv
  <1>2. c \in Threads /\ Hand(t) = c /\ c # None
    BY <1>1 DEF Hand
  <1>3. t = c \/ Hand(c) = None
    BY <1>1, <1>2 DEF Hand, Holding, Shape, ConnInv, Strict, OwnInv
  <1>4. \A r \in Threads : /\ pc'[r] = IF r = c THEN "reconnect" ELSE IF r = t THEN label ELSE pc[r]
                           /\ conn'[r] = IF r = c THEN c ELSE IF r = t THEN None ELSE conn[r]
    BY <1>1, <1>2 DEF Detach, Shape, TypeInv
  <1>5. \A r \in Threads : Hand(r)' = IF r = c THEN Hand(t) ELSE IF r = t THEN None ELSE Hand(r)
    BY <1>1, <1>2, <1>4 DEF Hand, Holding
  <1>6. \A r \in Threads : pc'[r] \in {"popNext", "popCas"} => pc'[r] = pc[r] /\ conn'[r] = conn[r]
    BY <1>1, <1>4
  <1> QED BY <1>2, <1>3, <1>5, <1>6, PassKeeps

\* A step that changes nothing but one thread's label, which neither looks at a
\* connection nor lets go of one.
LEMMA LabelKeepsPlaces ==
  ASSUME IInv, Strict, NEW t \in Threads, NEW label, Goto(t, label),
         label \notin {"popNext", "popCas"}, label \in Holding <=> pc[t] \in Holding,
         UNCHANGED <<cast, top, next, deleted, created, conn, on>>,
         \A r \in Threads : r # t => seen'[r] = seen[r]
  PROVE  Strict'
  <1>1. \A r \in Threads : r # t => /\ pc'[r] = pc[r] /\ conn'[r] = conn[r]
                                    /\ on'[r] = on[r] /\ seen'[r] = seen[r]
    BY DEF Goto, IInv, FunctionInv
  <1>2. pc'[t] = label /\ Hand(t)' = Hand(t)
    BY DEF Goto, Hand, IInv, FunctionInv
  <1> QED BY <1>1, <1>2, StillFor

LEMMA UserKeepsPlaces ==
  ASSUME IInv, Shape, Strict, NEW u \in Users,
         StartPop(u) \/ LoadCount(u) \/ GrowCas(u) \/ PushBack(u)
  PROVE  Strict'
  <1> USE ThreadFacts DEF IInv, FunctionInv
  <1>1. CASE StartPop(u)
    BY <1>1, LabelKeepsPlaces DEF StartPop, shared, local, Holding
  <1>2. CASE LoadCount(u) \/ (GrowCas(u) /\ count # seen[u])
    <2>1. PICK label \in {"growCas", "idle"} : Goto(u, label)
      BY <1>2 DEF LoadCount, GrowCas, TestCount
    <2>2. \A r \in Threads : r # u => seen'[r] = seen[r]
      BY <1>2 DEF LoadCount, GrowCas, TestCount, Zero
    <2>3. pc[u] \notin Holding /\ UNCHANGED <<cast, top, next, deleted, created, conn, on>>
      BY <1>2 DEF LoadCount, GrowCas, shared, Holding
    <2> QED BY <2>1, <2>2, <2>3, LabelKeepsPlaces DEF Holding
  <1>3. CASE GrowCas(u) /\ count = seen[u]
    BY <1>3, GrowKeeps
  <1>4. CASE PushBack(u)
    <2>1. pc[u] = "use" /\ UNCHANGED <<cast, top, next, deleted, created, on, seen>>
      BY <1>4 DEF PushBack, shared
    <2>2. CASE Goto(u, "push") /\ UNCHANGED conn
      BY <2>1, <2>2, LabelKeepsPlaces DEF Holding
    <2>3. CASE Detach(u, "idle")
      BY <2>1, <2>3, DetachKeepsPlaces DEF Holding
    <2> QED BY <1>4, <2>2, <2>3 DEF PushBack
  <1> QED BY <1>1, <1>2, <1>3, <1>4

LEMMA PingerKeepsPlaces ==
  ASSUME IInv, Shape, Strict, Sleep \/ Exchange \/ PingerFound \/ PingConnection
  PROVE  Strict'
  <1> USE ThreadFacts DEF IInv, FunctionInv
  <1>1. CASE Sleep \/ Exchange
    <2>1. PICK label \in {"exchangeEarly", "popFirst", "sleep", "finished"} : Goto(Pinger, label)
      BY <1>1 DEF Sleep, Exchange
    <2>2. /\ pc[Pinger] \notin Holding
          /\ UNCHANGED <<cast, top, next, deleted, created, conn, on, seen>>
      BY <1>1 DEF Sleep, Exchange, shared, local, Holding
    <2> QED BY <2>1, <2>2, LabelKeepsPlaces DEF Holding
  <1>2. CASE PingerFound
    <2>1. PICK label \in {"push", "ping"} : Goto(Pinger, label)
      BY <1>2 DEF PingerFound
    <2>2. /\ pc[Pinger] \in Holding
          /\ UNCHANGED <<cast, top, next, deleted, created, conn, on, seen>>
      BY <1>2 DEF PingerFound, shared, Holding
    <2> QED BY <2>1, <2>2, LabelKeepsPlaces DEF Holding
  <1>3. CASE PingConnection
    <2>1. pc[Pinger] = "ping" /\ UNCHANGED <<cast, top, next, deleted, created, on, seen>>
      BY <1>3 DEF PingConnection, shared
    <2>2. CASE Goto(Pinger, "push") /\ UNCHANGED conn
      BY <2>1, <2>2, LabelKeepsPlaces DEF Holding
    <2>3. CASE Detach(Pinger, "popFirst")
      BY <2>1, <2>3, DetachKeepsPlaces DEF Holding
    <2> QED BY <1>3, <2>2, <2>3 DEF PingConnection
  <1> QED BY <1>1, <1>2, <1>3

LEMMA OthersKeepPlaces ==
  ASSUME IInv, Shape, Strict,
         (\E c \in Connections : Reconnected(c)) \/ Destroy \/ Join \/ Delete
  PROVE  Strict'
  <1> USE ThreadFacts DEF IInv, FunctionInv
  <1>1. ASSUME NEW c \in Connections, Reconnected(c) PROVE Strict'
    <2>1. /\ pc[c] = "reconnect" /\ conn[c] = c
          /\ UNCHANGED <<cast, top, next, deleted, created, on, seen>>
      BY <1>1 DEF Reconnected, shared, Shape, ConnInv
    <2>2. CASE Goto(c, "push") /\ UNCHANGED conn
      BY <2>1, <2>2, LabelKeepsPlaces DEF Holding
    <2>3. CASE Detach(c, "reconnect")
      BY <2>1, <2>3, DetachKeepsPlaces DEF Holding
    <2> QED BY <1>1, <2>2, <2>3 DEF Reconnected
  <1>2. CASE Destroy \/ Join
    <2>1. PICK label \in {"join", "popFirst"} : Goto(Owner, label)
      BY <1>2 DEF Destroy, Join
    <2>2. /\ pc[Owner] \notin Holding
          /\ UNCHANGED <<cast, top, next, deleted, created, conn, on, seen>>
      BY <1>2 DEF Destroy, Join, shared, local, Holding
    <2> QED BY <2>1, <2>2, LabelKeepsPlaces DEF Holding
  <1>3. CASE Delete
    BY <1>3, DeleteKeeps
  <1> QED BY <1>1, <1>2, <1>3

LEMMA NextPlaces == PlaceInv /\ IInv /\ IInv' /\ [Next]_vars => PlaceInv'
  <1> SUFFICES ASSUME PlaceInv, IInv, IInv', [Next]_vars PROVE PlaceInv'
    OBVIOUS
  <1>1. Shape /\ (~outdated => Strict) /\ (Alone => ~outdated) /\ CountInv'
    BY DEF PlaceInv, Strict, IInv
  <1>2. CASE UNCHANGED vars
    <2>1. \A s : Chain(s)' = Chain(s)
      BY <1>2 DEF vars, shared, Chain, Reachable, Closed
    <2>2. Shape'
      BY <1>1, <1>2 DEF vars, shared, local, Shape, TypeInv, PcInv, ConnInv, TurnInv, Made
    <2>3. Alone' = Alone
      BY <1>2 DEF vars, Alone
    <2>4. \A r \in Threads : Hand(r)' = Hand(r)
      BY <1>2 DEF vars, local, Hand
    <2>5. Strict => Strict'
      <3>1. UNCHANGED <<top, next, deleted, created, pc, conn, on, seen>>
        BY <1>2 DEF vars, shared, local
      <3>2. OwnInv => OwnInv'
        BY <2>1, <2>4, <3>1 DEF OwnInv, Made
      <3>3. LineInv => LineInv'
        BY <2>1, <3>1 DEF LineInv
      <3>4. PopInv => PopInv'
        BY <2>1, <2>3, <3>1 DEF PopInv
      <3> QED BY <3>2, <3>3, <3>4 DEF Strict
    <2>6. outdated' = outdated
      BY <1>2 DEF vars, shared
    <2> QED BY <1>1, <2>2, <2>3, <2>5, <2>6 DEF PlaceInv, Strict
  <1>3. CASE Next
    <2>1. Shape'
      <3>1. CASE \E t \in Threads : Popping(t) \/ Pushing(t)
        BY <1>1, <3>1, PopKeepsShape, PushKeepsShape
      <3>2. CASE \E u \in Users : StartPop(u) \/ LoadCount(u) \/ GrowCas(u) \/ PushBack(u)
        BY <1>1, <3>2, UserKeepsShape
      <3>3. CASE Sleep \/ Exchange \/ PingerFound \/ PingConnection
        BY <1>1, <3>3, PingerKeepsShape
      <3>4. CASE (\E c \in Connections : Reconnected(c)) \/ Destroy \/ Join \/ Delete
        BY <1>1, <3>4, OthersKeepShape
      <3> QED BY <1>3, <3>1, <3>2, <3>3, <3>4
              DEF Next, User, PingerRoutine, Reconnect, Destructor, Threads
    <2>2. Alone' = Alone
      <3>1. cast' = cast
        BY <1>3 DEF Next, User, PingerRoutine, Reconnect, Destructor, Popping, Pushing,
           PopFirst, PopSecond, PopLoad, PopNext, PopCas, PushSecond, PushLoad, PushCas,
           StartPop, LoadCount, GrowCas, PushBack, Sleep, Exchange, PingerFound,
           PingConnection, Reconnected, Destroy, Join, Delete
      <3> QED BY <3>1 DEF Alone
    <2>3. CASE \E t \in Threads : Popping(t)
      <3>1. outdated => outdated'
        BY <2>3 DEF Popping, PopFirst, PopSecond, PopLoad, PopNext, PopCas, shared
      <3>2. (~outdated' => Strict') /\ (Alone => ~outdated')
        BY <1>1, <2>3, <3>1, PopKeepsPlaces
      <3> QED BY <2>1, <2>2, <3>2 DEF PlaceInv, Strict
    <2>4. CASE ~ \E t \in Threads : Popping(t)
      <3> SUFFICES outdated' = outdated /\ (~outdated => Strict')
        BY <1>1, <2>1, <2>2 DEF PlaceInv, Strict
      <3>1. CASE \E t \in Threads : Pushing(t)
        <4>1. outdated' = outdated
          BY <3>1 DEF Pushing, PushSecond, PushLoad, PushCas, shared
        <4> QED BY <1>1, <3>1, <4>1, PushKeepsPlaces
      <3>2. CASE \E u \in Users : StartPop(u) \/ LoadCount(u) \/ GrowCas(u) \/ PushBack(u)
        <4>1. outdated' = outdated
          BY <3>2 DEF StartPop, LoadCount, GrowCas, PushBack, shared
        <4> QED BY <1>1, <3>2, <4>1, UserKeepsPlaces
      <3>3. CASE Sleep \/ Exchange \/ PingerFound \/ PingConnection
        <4>1. outdated' = outdated
          BY <3>3 DEF Sleep, Exchange, PingerFound, PingConnection, shared
        <4> QED BY <1>1, <3>3, <4>1, PingerKeepsPlaces
      <3>4. CASE (\E c \in Connections : Reconnected(c)) \/ Destroy \/ Join \/ Delete
        <4>1. outdated' = outdated
          BY <3>4 DEF Reconnected, Destroy, Join, Delete, shared
        <4> QED BY <1>1, <3>4, <4>1, OthersKeepPlaces
      <3> QED BY <1>3, <2>4, <3>1, <3>2, <3>3, <3>4
              DEF Next, User, PingerRoutine, Reconnect, Destructor, Threads
    <2> QED BY <2>3, <2>4
  <1> QED BY <1>2, <1>3

LEMMA AtMostOne ==
  ASSUME IsFiniteSet(cast), Cardinality(cast) <= 1
  PROVE  Alone
  <1> SUFFICES ASSUME NEW x \in cast, NEW y \in cast, x # y PROVE FALSE
    BY DEF Alone
  <1>1. IsFiniteSet({x}) /\ Cardinality({x}) = 1
    BY FS_Singleton
  <1>2. Cardinality({x} \cup {y}) = 2
    <2>1. Cardinality({x} \cup {y}) = IF y \in {x} THEN Cardinality({x}) ELSE Cardinality({x}) + 1
      BY <1>1, FS_AddElement, Zenon
    <2> QED BY <1>1, <2>1
  <1>3. Cardinality({x} \cup {y}) <= Cardinality(cast)
    <2>1. {x} \cup {y} \in SUBSET cast
      OBVIOUS
    <2> QED BY <2>1, FS_Subset, Zenon
  <1>4. Cardinality(cast) \in Nat
    BY FS_CardinalityType
  <1> QED BY <1>2, <1>3, <1>4

LEMMA OnePlace ==
  ASSUME IInv, Shape, OwnInv, NEW c \in Made
  PROVE  Cardinality(Places(c)) = 1
  <1>1. c # None
    BY DEF Made, None
  <1>2. \A t \in Threads : Hand(t) = c <=> pc[t] \in Holding /\ conn[t] = c
    BY <1>1 DEF Hand
  <1>3. \A s \in Stack : (\E t \in Threads : Hand(t) = c) => c \notin Chain(s) /\ c \notin deleted
    BY DEF OwnInv
  <1>4. \E x : Places(c) = {x}
    <2>1. CASE \E t \in Threads : Hand(t) = c
      <3>1. PICK t \in Threads : Hand(t) = c
        BY <2>1
      <3>2. \A r \in Threads : Hand(r) = c => r = t
        BY <1>1, <3>1 DEF OwnInv
      <3>3. Places(c) = {t}
        BY <1>2, <1>3, <3>1, <3>2 DEF Places, Stack
      <3> QED BY <3>3
    <2>2. CASE ~ \E t \in Threads : Hand(t) = c
      <3>1. {t \in Threads : pc[t] \in Holding /\ conn[t] = c} = {}
        BY <1>2, <2>2
      <3>2. c \in deleted \cup Chain(0) \cup Chain(1)
        BY <2>2 DEF OwnInv
      <3>3. ~(c \in Chain(0) /\ c \in Chain(1)) /\ ~(c \in deleted /\ c \in Chain(0))
              /\ ~(c \in deleted /\ c \in Chain(1))
        BY DEF OwnInv, Stack
      <3>4. c \in Chain(0) => Places(c) = {"stack 0"}
        BY <3>1, <3>3 DEF Places
      <3>5. c \in Chain(1) => Places(c) = {"stack 1"}
        BY <3>1, <3>3 DEF Places
      <3>6. c \in deleted => Places(c) = {"deleted"}
        BY <3>1, <3>3 DEF Places
      <3> QED BY <3>2, <3>4, <3>5, <3>6
    <2> QED BY <2>1, <2>2
  <1> QED BY <1>4, FS_Singleton

\* For any users, with or without the pinger, any limit and however long a connection
\* fails: as long as no Pop has exchanged the top for an outdated successor (the one
\* exchange of the code that can be wrong), a connection that the pool has made is in
\* use by one thread, or linked in one of the stacks, or deleted, and in one of these
\* places only.  And a thread that alone pops never makes such an exchange, whoever
\* pushes (connection_pull.hpp:73-86, connection_pull.cpp:54-147).
THEOREM EachConnectionOnce == Spec => []EachOnce
  <1>1. Init => PlaceInv /\ IsFiniteSet(cast)
    BY InitPlaces, PullAssumption DEF Init
  <1>2. IsFiniteSet(cast) /\ [Next]_vars => IsFiniteSet(cast)'
    <2> SUFFICES ASSUME IsFiniteSet(cast), [Next]_vars PROVE cast' = cast
      OBVIOUS
    <2> QED BY DEF vars, Next, User, PingerRoutine, Reconnect, Destructor, Popping, Pushing,
           PopFirst, PopSecond, PopLoad, PopNext, PopCas, PushSecond, PushLoad, PushCas,
           StartPop, LoadCount, GrowCas, PushBack, Sleep, Exchange, PingerFound,
           PingConnection, Reconnected, Destroy, Join, Delete
  <1>3. IInv /\ PlaceInv /\ IsFiniteSet(cast) => EachOnce
    BY AtMostOne, OnePlace DEF EachOnce, PlaceInv, Made
  <1> QED BY <1>1, <1>2, <1>3, InitInv, NextInv, NextPlaces, PTL DEF Spec


-----------------------------------------------------------------------------
(* The websocket client.                                                     *)

\* What one client, or libwebsockets for it, does.
ClientStep(c) ==
  \/ Connect(c) \/ Send(c) \/ Close(c) \/ Finish(c) \/ TimerFires(c)
  \/ \E k \in Sockets :
       ConnectionClosed(c, k) \/ Established(c, k) \/ Receive(c, k) \/ Writeable(c, k)

ShapeInv ==
  /\ loop \in Loops
  /\ context \in {"absent", "null", "live"}
  /\ clientsCount \in Int /\ failed \in Nat
  /\ state \in [Clients -> {"NotConnected", "Connecting", "Connected", "ClosingConnection"}]
  /\ conns \in [Clients -> [Sockets -> {"none", "connecting", "open", "closing"}]]
  /\ queued \in [Clients -> Nat]
  /\ retryCount \in [Clients -> Nat]

TimerInv == timer \in [Clients -> BOOLEAN]

\* What holds of client c if it is the only one, until the program crashes.
Lonely(c) ==
  /\ context = "absent" => failed = 0
  /\ failed > 0 => context = "null"
  /\ state[c] = "NotConnected" => conns[c] = NoConnections /\ ~timer[c] /\ clientsCount = failed
  /\ state[c] # "NotConnected" => failed = 0 /\ clientsCount = 1
  /\ state[c] \in {"Connecting", "Connected"} => timer[c] \/ \E k \in Sockets : conns[c][k] # "none"

LonelyInv == \A c \in Clients : loop = {c} /\ ~crashed => Lonely(c)

WebsocketInv == ShapeInv /\ TimerInv /\ LonelyInv

-----------------------------------------------------------------------------
LEMMA WebsocketInitInv == WebsocketInit => WebsocketInv
  <1> SUFFICES ASSUME WebsocketInit PROVE WebsocketInv
    OBVIOUS
  <1>1. ShapeInv
    BY DEF WebsocketInit, ShapeInv, NoConnections
  <1>2. TimerInv
    BY Zenon DEF WebsocketInit, TimerInv
  <1>3. \A c \in Clients : ~timer[c]
    BY Zenon DEF WebsocketInit
  <1>4. LonelyInv
    BY <1>3 DEF WebsocketInit, LonelyInv, Lonely
  <1> QED BY <1>1, <1>2, <1>4 DEF WebsocketInv

\* The steps of one client, each by what it leaves of the shape.
LEMMA ConnectImplShape ==
  ASSUME ShapeInv, NEW c \in Clients, NEW k \in {0} \cup Sockets, NEW p, ConnectImpl(c, k, p)
  PROVE  /\ conns' \in [Clients -> [Sockets -> {"none", "connecting", "open", "closing"}]]
         /\ state' \in [Clients -> {"NotConnected", "Connecting", "Connected", "ClosingConnection"}]
         /\ \A d \in Clients : state'[d] = state[d] \/ state'[d] = "ClosingConnection"
         /\ retryCount' \in [Clients -> Nat]
  <1> USE DEF ShapeInv
  <1>0. retryCount' \in [Clients -> Nat]
    BY ClientAssumption DEF ConnectImpl
  <1>1. /\ state' \in [Clients -> {"NotConnected", "Connecting", "Connected", "ClosingConnection"}]
        /\ \A d \in Clients : state'[d] = state[d] \/ state'[d] = "ClosingConnection"
    BY DEF ConnectImpl, Closing
  <1> DEFINE left == IF k = 0 THEN conns[c] ELSE [conns[c] EXCEPT ![k] = "none"]
  <1>2. left \in [Sockets -> {"none", "connecting", "open", "closing"}]
    OBVIOUS
  <1>3. PICK new \in {0} \cup Sockets :
          conns' = [conns EXCEPT ![c] = IF new = 0 THEN left ELSE [left EXCEPT ![new] = "connecting"]]
    BY Zenon DEF ConnectImpl
  <1> HIDE DEF left
  <1>4. (IF new = 0 THEN left ELSE [left EXCEPT ![new] = "connecting"])
          \in [Sockets -> {"none", "connecting", "open", "closing"}]
    BY <1>2
  <1>5. conns' \in [Clients -> [Sockets -> {"none", "connecting", "open", "closing"}]]
    BY <1>3, <1>4
  <1> QED BY <1>0, <1>1, <1>5

\* The steps of one client, each by what it leaves of the shape.
LEMMA StepKeepsShape ==
  ASSUME ShapeInv, NEW c \in Clients, ClientStep(c)
  PROVE  ShapeInv'
  <1> USE ClientAssumption DEF ShapeInv
  <1>1. CASE Connect(c)
    BY <1>1 DEF Connect
  <1>2. CASE Send(c)
    BY <1>2 DEF Send
  <1>3. CASE Close(c)
    BY <1>3 DEF Close, Closing
  <1>4. CASE Finish(c)
    <2>1. conns' = conns \/ conns' = [d \in Clients |-> NoConnections]
      BY <1>4, Zenon DEF Finish, ResetContext
    <2>2. conns' \in [Clients -> [Sockets -> {"none", "connecting", "open", "closing"}]]
      BY <2>1 DEF NoConnections
    <2>3. /\ context' \in {"absent", "null", "live"} /\ clientsCount' = clientsCount - 1
          /\ state' = [state EXCEPT ![c] = "NotConnected"] /\ UNCHANGED <<loop, failed, queued, retryCount>>
      BY <1>4 DEF Finish, ResetContext
    <2> QED BY <2>2, <2>3
  <1>5. CASE TimerFires(c)
    <2>1. ConnectImpl(c, 0, FALSE) /\ UNCHANGED <<loop, context, clientsCount, failed, queued>>
      BY <1>5 DEF TimerFires
    <2> QED BY <2>1, ConnectImplShape
  <1>6. ASSUME NEW k \in Sockets, ConnectionClosed(c, k) PROVE ShapeInv'
    <2>1. ConnectImpl(c, k, timer[c]) /\ UNCHANGED <<loop, context, clientsCount, failed, queued>>
      BY <1>6 DEF ConnectionClosed
    <2> QED BY <2>1, ConnectImplShape
  <1>7. ASSUME NEW k \in Sockets, Established(c, k) PROVE ShapeInv'
    BY <1>7 DEF Established
  <1>8. ASSUME NEW k \in Sockets, Receive(c, k) PROVE ShapeInv'
    BY <1>8 DEF Receive, lws
  <1>9. ASSUME NEW k \in Sockets, Writeable(c, k) PROVE ShapeInv'
    <2>1. /\ UNCHANGED <<loop, context, clientsCount, failed, retryCount>>
          /\ state' \in [Clients -> {"NotConnected", "Connecting", "Connected", "ClosingConnection"}]
          /\ queued' \in [Clients -> Nat]
      BY <1>9 DEF Writeable, Closing
    <2>2. conns' = conns \/ conns' = [conns EXCEPT ![c][k] = "closing"]
      BY <1>9, Zenon DEF Writeable
    <2>3. conns' \in [Clients -> [Sockets -> {"none", "connecting", "open", "closing"}]]
      <3>1. conns[c] \in [Sockets -> {"none", "connecting", "open", "closing"}]
        OBVIOUS
      <3>2. [conns[c] EXCEPT ![k] = "closing"] \in [Sockets -> {"none", "connecting", "open", "closing"}]
        BY <3>1
      <3> QED BY <2>2, <3>2
    <2> QED BY <2>1, <2>3
  <1> QED BY <1>1, <1>2, <1>3, <1>4, <1>5, <1>6, <1>7, <1>8, <1>9, Zenon DEF ClientStep

LEMMA StepKeepsTimer ==
  ASSUME TimerInv, NEW c \in Clients, ClientStep(c)
  PROVE  TimerInv'
  <1> USE DEF TimerInv
  <1>1. CASE Connect(c)
    BY <1>1, Zenon DEF Connect
  <1>2. CASE Finish(c)
    BY <1>2, Zenon DEF Finish, ResetContext, lws
  <1>3. ASSUME NEW p, NEW k, ConnectImpl(c, k, p), p \in BOOLEAN PROVE TimerInv'
    <2>1. PICK x \in BOOLEAN : timer' = [timer EXCEPT ![c] = x]
      <3>1. PICK failures \in 0..MaxNested :
              timer' = [timer EXCEPT ![c] = p \/ (failures > 0 /\ retryCount[c] < Backoffs)]
        BY <1>3, Zenon DEF ConnectImpl
      <3>2. (p \/ (failures > 0 /\ retryCount[c] < Backoffs)) \in BOOLEAN
        BY Zenon
      <3> QED BY <3>1, <3>2, Zenon
    <2> QED BY <2>1, Zenon
  <1>4. CASE UNCHANGED timer
    BY <1>4, Zenon
  <1>5. CASE TimerFires(c)
    BY <1>3, <1>5, Zenon DEF TimerFires
  <1>6. ASSUME NEW k \in Sockets, ConnectionClosed(c, k) PROVE TimerInv'
    <2>1. timer[c] \in BOOLEAN
      BY Zenon
    <2> QED BY <1>3, <1>6, <2>1, Zenon DEF ConnectionClosed
  <1>7. \/ Connect(c) \/ Finish(c) \/ TimerFires(c) \/ UNCHANGED timer
        \/ \E k \in Sockets : ConnectionClosed(c, k)
    BY DEF ClientStep, Send, Close, Closing, Established, Receive, Writeable, lws
  <1> QED BY <1>1, <1>2, <1>4, <1>5, <1>6, <1>7, Zenon

\* What ConnectImpl leaves: an attempt is scheduled, a connection is being made, or
\* the client closes.
LEMMA ConnectImplTries ==
  ASSUME ShapeInv, TimerInv, NEW c \in Clients, NEW k \in {0} \cup Sockets, NEW p \in BOOLEAN,
         ConnectImpl(c, k, p)
  PROVE  \/ timer'[c]
         \/ \E j \in Sockets : conns'[c][j] # "none"
         \/ state'[c] \in {"ClosingConnection", "NotConnected"}
  <1> DEFINE left == IF k = 0 THEN conns[c] ELSE [conns[c] EXCEPT ![k] = "none"]
  <1>1. PICK failures \in 0..MaxNested : \E new \in {0} \cup Sockets : \E w \in {0, new} :
          /\ failures = 0 => w = new /\ new # 0
          /\ conns' = [conns EXCEPT ![c] = IF new = 0 THEN left ELSE [left EXCEPT ![new] = "connecting"]]
          /\ timer' = [timer EXCEPT ![c] = p \/ (failures > 0 /\ retryCount[c] < Backoffs)]
          /\ IF retryCount[c] + failures <= Backoffs
               THEN /\ writable' = [writable EXCEPT ![c] = @ \ {k}]
                    /\ UNCHANGED <<state, crashed>>
               ELSE Closing(c, w, writable[c] \ {k})
    BY Zenon DEF ConnectImpl
  <1>2. PICK new \in {0} \cup Sockets : \E w \in {0, new} :
          /\ failures = 0 => w = new /\ new # 0
          /\ conns' = [conns EXCEPT ![c] = IF new = 0 THEN left ELSE [left EXCEPT ![new] = "connecting"]]
          /\ timer' = [timer EXCEPT ![c] = p \/ (failures > 0 /\ retryCount[c] < Backoffs)]
          /\ IF retryCount[c] + failures <= Backoffs
               THEN /\ writable' = [writable EXCEPT ![c] = @ \ {k}]
                    /\ UNCHANGED <<state, crashed>>
               ELSE Closing(c, w, writable[c] \ {k})
    BY <1>1, Zenon
  <1>3. left \in [Sockets -> {"none", "connecting", "open", "closing"}]
    BY DEF ShapeInv
  <1> HIDE DEF left
  <1>4. CASE new # 0
    <2>1. conns'[c] = [left EXCEPT ![new] = "connecting"]
      BY <1>2, <1>4 DEF ShapeInv
    <2>2. new \in Sockets /\ conns'[c][new] = "connecting"
      BY <2>1, <1>3, <1>4
    <2> QED BY <2>2
  <1>5. CASE new = 0 /\ failures > 0 /\ retryCount[c] < Backoffs
    <2>1. timer'[c]
      BY <1>2, <1>5, Zenon DEF TimerInv
    <2> QED BY <2>1
  <1>6. CASE new = 0 /\ failures > 0 /\ ~(retryCount[c] < Backoffs)
    <2>1. retryCount[c] \in Nat
      BY DEF ShapeInv
    <2>2. ~(retryCount[c] + failures <= Backoffs)
      BY <1>6, <2>1, ClientAssumption
    <2>3. state'[c] \in {"ClosingConnection", "NotConnected"}
      BY <1>2, <2>2 DEF Closing, ShapeInv
    <2> QED BY <2>3
  <1>7. failures > 0 \/ new # 0
    BY <1>2
  <1> QED BY <1>4, <1>5, <1>6, <1>7

LEMMA StepKeepsLonely ==
  ASSUME WebsocketInv, NEW c \in Clients, loop = {c}, ClientStep(c)
  PROVE  ~crashed' => Lonely(c)'
  <1>1. ~crashed
    BY DEF ClientStep, Connect, Send, Close, Finish, TimerFires, ConnectionClosed, Established, Receive, Writeable, Alive
  <1>2. Lonely(c)
    BY <1>1 DEF WebsocketInv, LonelyInv
  <1> USE <1>1, <1>2 DEF WebsocketInv, ShapeInv, TimerInv, Lonely
  <1>3. CASE Connect(c)
    <2> SUFFICES ASSUME ~crashed' PROVE Lonely(c)'
      OBVIOUS
    <2>1. /\ state[c] = "NotConnected" /\ conns' = conns
          /\ clientsCount' = clientsCount + 1 /\ clientsCount = failed
      BY <1>3 DEF Connect
    <2>2. CASE /\ context = "absent" /\ context' = "null" /\ failed' = failed + 1
               /\ UNCHANGED <<state, timer>>
      BY <2>1, <2>2
    <2>3. CASE /\ context' = IF context = "absent" THEN "live" ELSE context
               /\ timer' = [timer EXCEPT ![c] = TRUE]
               /\ state' = [state EXCEPT ![c] = "Connecting"]
               /\ crashed' = (context = "null")
               /\ UNCHANGED failed
      <3>1. context # "null"
        BY <2>3, Zenon
      <3>2. timer'[c]
        BY <2>3, Zenon DEF WebsocketInv, TimerInv
      <3>3. failed = 0 /\ context' # "absent" /\ state'[c] = "Connecting" /\ failed' = 0
        BY <2>3, <3>1
      <3> QED BY <2>1, <3>2, <3>3
    <2> QED BY <1>3, <2>2, <2>3, Zenon DEF Connect
  <1>4. CASE Send(c)
    BY <1>4 DEF Send
  <1>5. CASE Close(c)
    BY <1>5 DEF Close, Closing
  <1>6. CASE Finish(c)
    <2>1. state[c] # "NotConnected" /\ state'[c] = "NotConnected"
      BY <1>6 DEF Finish
    <2>2. /\ clientsCount' = 0 /\ context' = "null" /\ failed' = failed
          /\ timer' = [d \in Clients |-> FALSE] /\ conns' = [d \in Clients |-> NoConnections]
      BY <1>6, <2>1 DEF Finish, ResetContext
    <2>3. ~timer'[c] /\ conns'[c] = NoConnections'
      BY <2>2, Zenon DEF NoConnections, Sockets
    <2> QED BY <2>1, <2>2, <2>3
  <1>7. ASSUME NEW k \in {0} \cup Sockets, NEW p \in BOOLEAN, ConnectImpl(c, k, p),
               timer[c] \/ (k # 0 /\ conns[c][k] # "none"),
               UNCHANGED <<context, clientsCount, failed>>
        PROVE  Lonely(c)'
    <2>1. state[c] # "NotConnected"
      BY <1>7 DEF NoConnections
    <2>2. state'[c] = state[c] \/ state'[c] = "ClosingConnection"
      BY <1>7, ConnectImplShape
    <2>3. state'[c] # "NotConnected"
      BY <2>1, <2>2
    <2>4. \/ timer'[c]
          \/ \E j \in Sockets : conns'[c][j] # "none"
          \/ state'[c] \in {"ClosingConnection", "NotConnected"}
      BY <1>7, ConnectImplTries
    <2>5. (state'[c] \in {"Connecting", "Connected"}) => timer'[c] \/ \E j \in Sockets : conns'[c][j] # "none"
      BY <2>4
    <2>6. /\ context' = "absent" => failed' = 0
          /\ failed' > 0 => context' = "null"
          /\ state'[c] # "NotConnected" => failed' = 0 /\ clientsCount' = 1
      BY <1>7, <2>1
    <2> QED BY <2>3, <2>5, <2>6 DEF Sockets
  <1>8. CASE TimerFires(c)
    <2>1. ConnectImpl(c, 0, FALSE) /\ timer[c] /\ UNCHANGED <<context, clientsCount, failed>>
      BY <1>8 DEF TimerFires
    <2> QED BY <2>1, <1>7
  <1>9. ASSUME NEW k \in Sockets, ConnectionClosed(c, k) PROVE Lonely(c)'
    <2>1. ConnectImpl(c, k, timer[c]) /\ conns[c][k] # "none" /\ UNCHANGED <<context, clientsCount, failed>>
      BY <1>9 DEF ConnectionClosed
    <2>2. k # 0
      BY ClientAssumption DEF Sockets
    <2>3. timer[c] \in BOOLEAN
      BY Zenon
    <2> QED BY <2>1, <2>2, <2>3, <1>7
  <1>10. ASSUME NEW k \in Sockets, Established(c, k) PROVE Lonely(c)'
    <2>1. /\ conns[c][k] = "connecting" /\ conns'[c][k] = "open"
          /\ state[c] # "NotConnected" /\ state'[c] # "NotConnected"
          /\ UNCHANGED <<context, clientsCount, failed, timer>>
      BY <1>10 DEF Established, NoConnections
    <2> QED BY <2>1 DEF Sockets
  <1>11. ASSUME NEW k \in Sockets, Receive(c, k) PROVE Lonely(c)'
    BY <1>11 DEF Receive, lws, Sockets, NoConnections
  <1>12. ASSUME NEW k \in Sockets, Writeable(c, k) PROVE Lonely(c)'
    <2>1. /\ conns[c][k] = "open" /\ state[c] # "NotConnected"
          /\ UNCHANGED <<context, clientsCount, failed, timer>>
      BY <1>12 DEF Writeable, NoConnections
    <2>2. conns'[c][k] # "none"
      BY <1>12 DEF Writeable
    <2>3. state'[c] = state[c] \/ state'[c] = "ClosingConnection"
      BY <1>12 DEF Writeable, Closing
    <2> QED BY <2>1, <2>2, <2>3 DEF Sockets
  <1> QED BY <1>3, <1>4, <1>5, <1>6, <1>8, <1>9, <1>10, <1>11, <1>12, Zenon DEF ClientStep

LEMMA WebsocketNextInv == WebsocketInv /\ [WebsocketNext]_wvars => WebsocketInv'
  <1> SUFFICES ASSUME WebsocketInv, [WebsocketNext]_wvars PROVE WebsocketInv'
    OBVIOUS
  <1>1. CASE UNCHANGED wvars
    BY <1>1 DEF wvars, lws, WebsocketInv, ShapeInv, TimerInv, LonelyInv, Lonely, NoConnections, Sockets
  <1>2. CASE WebsocketNext
    <2>1. PICK c \in Clients : ClientStep(c)
      BY <1>2, Zenon DEF WebsocketNext, ClientStep
    <2>2. ShapeInv'
      BY <2>1, StepKeepsShape DEF WebsocketInv
    <2>3. c \in loop /\ loop' = loop
      BY <2>1 DEF ClientStep, Connect, Send, Close, Finish, TimerFires, ConnectionClosed, Established,
                  Receive, Writeable, Alive
    <2>4. LonelyInv'
      <3> SUFFICES ASSUME NEW d \in Clients, loop' = {d}, ~crashed' PROVE Lonely(d)'
        BY DEF LonelyInv
      <3>1. d = c /\ loop = {c}
        BY <2>3
      <3> QED BY <3>1, <2>1, StepKeepsLonely
    <2>5. TimerInv'
      BY <2>1, StepKeepsTimer DEF WebsocketInv
    <2> QED BY <2>2, <2>4, <2>5 DEF WebsocketInv
  <1> QED BY <1>1, <1>2

\* The inductive invariant holds in every reachable state.
LEMMA Invariance == WebsocketSpec => []WebsocketInv
  BY WebsocketInitInv, WebsocketNextInv, PTL DEF WebsocketSpec

\* Whoever is alone on the loop is its only member.
LEMMA AloneIsLonely ==
  ASSUME WebsocketInv, Cardinality(loop) = 1, ~crashed, NEW c \in loop
  PROVE  c \in Clients /\ Lonely(c)
  <1>1. loop \subseteq Clients /\ IsFiniteSet(loop)
    BY ClientAssumption, FS_Subset DEF WebsocketInv, ShapeInv
  <1>2. loop = {c}
    BY <1>1, FS_Singleton
  <1> QED BY <1>1, <1>2 DEF WebsocketInv, LonelyInv

\* For any number of retries, reconnects, connections and calls that fail within one
\* another, a client alone on its loop never stops trying while it connects or is
\* connected (client.cpp:86-113).
THEOREM NeverStopsTrying == WebsocketSpec => []KeepsTrying
  <1>1. WebsocketInv => KeepsTrying
    <2> SUFFICES ASSUME WebsocketInv, Cardinality(loop) = 1, ~crashed, NEW c \in loop,
                        state[c] \in {"Connecting", "Connected"}
                 PROVE  timer[c] \/ conns[c] # NoConnections
      BY Zenon DEF KeepsTrying
    <2>1. timer[c] \/ \E k \in Sockets : conns[c][k] # "none"
      BY AloneIsLonely DEF Lonely
    <2> QED BY <2>1 DEF NoConnections
  <1> QED BY <1>1, Invariance, PTL

\* For any number of retries, reconnects and messages, nothing can call back a
\* client alone on its loop once it has finished (client.cpp:165-198).
THEOREM FinishedClientIsSilent == WebsocketSpec => []FinishedIsSilent
  <1>1. WebsocketInv => FinishedIsSilent
    BY AloneIsLonely DEF FinishedIsSilent, Lonely
  <1> QED BY <1>1, Invariance, PTL

\* For any number of clients on a loop, a client that closes does not become
\* connected again, and none of the messages that wait is written, whether or not
\* more are sent (client.cpp:123-133, 157-163 and 200-207).
THEOREM ClosingStaysFinal == WebsocketSpec => ClosingIsFinal
  <1> DEFINE A == \A c \in loop : state[c] = "ClosingConnection" =>
                    /\ state'[c] \in {"ClosingConnection", "NotConnected"}
                    /\ queued'[c] >= queued[c]
  <1>1. WebsocketInv /\ [WebsocketNext]_wvars => [A]_wvars
    <2> SUFFICES ASSUME WebsocketInv, WebsocketNext, NEW c \in loop, state[c] = "ClosingConnection"
                 PROVE  /\ state'[c] \in {"ClosingConnection", "NotConnected"}
                        /\ queued'[c] >= queued[c]
      OBVIOUS
    <2>1. PICK d \in Clients :
            ClientStep(d)
      BY Zenon DEF WebsocketNext, ClientStep
    <2>2. c \in Clients
      BY ClientAssumption DEF WebsocketInv, ShapeInv
    <2> USE <2>2 DEF WebsocketInv, ShapeInv
    <2>3. CASE Connect(d) \/ Send(d)
      BY <2>3 DEF Connect, Send
    <2>4. CASE Close(d) \/ Finish(d)
      BY <2>4 DEF Close, Finish, Closing
    <2>5. ASSUME NEW k \in {0} \cup Sockets, NEW p, ConnectImpl(d, k, p), UNCHANGED queued
          PROVE  /\ state'[c] \in {"ClosingConnection", "NotConnected"}
                 /\ queued'[c] >= queued[c]
      <3>1. state'[c] = state[c] \/ state'[c] = "ClosingConnection"
        BY <2>5, ConnectImplShape
      <3> QED BY <3>1, <2>5
    <2>6. CASE TimerFires(d)
      BY <2>6, <2>5 DEF TimerFires
    <2>7. ASSUME NEW k \in Sockets, ConnectionClosed(d, k)
          PROVE  /\ state'[c] \in {"ClosingConnection", "NotConnected"}
                 /\ queued'[c] >= queued[c]
      BY <2>7, <2>5 DEF ConnectionClosed
    <2>8. ASSUME NEW k \in Sockets, Established(d, k) \/ Receive(d, k)
          PROVE  /\ state'[c] \in {"ClosingConnection", "NotConnected"}
                 /\ queued'[c] >= queued[c]
      BY <2>8 DEF Established, Receive
    <2>9. ASSUME NEW k \in Sockets, Writeable(d, k)
          PROVE  /\ state'[c] \in {"ClosingConnection", "NotConnected"}
                 /\ queued'[c] >= queued[c]
      BY <2>9 DEF Writeable, Closing
    <2> QED BY <2>1, <2>3, <2>4, <2>6, <2>7, <2>8, <2>9, Zenon DEF ClientStep
  <1>2. WebsocketSpec => [][A]_wvars
    BY <1>1, Invariance, PTL DEF WebsocketSpec
  <1> QED BY <1>2 DEF ClosingIsFinal
=============================================================================
