-------------------------- MODULE WebsocketClient --------------------------
(***************************************************************************)
(* websocket::Client: the clients of one event loop, and the entry of that *)
(* loop in `contexts'.  Clients of one loop share a libwebsockets context, *)
(* which the first one creates and the last one destroys.                  *)
(*                                                                         *)
(* libwebsockets is external: a timer (sul_) that fires once, connections  *)
(* that are connecting, then open, and are closed, and for each a request  *)
(* for a writable callback, which is lost with it.  wsi_ is the connection *)
(* that the last call for one has left there, which need not be the only   *)
(* one.  Its service thread also uses the clients (websocket.cpp:24-46).   *)
(***************************************************************************)
EXTENDS Naturals, FiniteSets

CONSTANTS
  Clients,
  Loops,       \* the sets of clients that may be on the loop
  Backoffs,    \* the entries of kBackoffMs, also kRetry.conceal_count
  MaxConnects, \* bound: how often a client is connected
  MaxConnections, \* bound: the connections a client has at a time
  MaxNested,   \* bound: the failing calls for a connection within one another
  MaxQueue     \* bound: the messages that wait in msgsToSend_

ASSUME ClientAssumption ==
  /\ IsFiniteSet(Clients)
  /\ \A c \in Loops : c \subseteq Clients
  /\ Backoffs \in Nat /\ MaxConnects \in Nat /\ MaxQueue \in Nat
  /\ MaxConnections \in Nat /\ MaxNested \in Nat

VARIABLES
  loop,      \* the clients that are on it
  context,   \* the loop's entry in `contexts': "absent", or its context is "null" or "live"
  clientsCount,
  failed,    \* how many calls of Connect could not create the context
  state,     \* state_
  connects,  \* how often Connect was called
  timer,     \* sul_ is scheduled
  retryCount,
  conns,     \* its connections: "none", "connecting", "open", or "closing" after a -1
  wsi,       \* wsi_, 0 when it points to no connection
  writable,  \* the connections with a writable callback requested
  queued,    \* the length of msgsToSend_
  buffered,  \* buffer_ holds fragments
  crashed    \* a null context or a null connection was used

lws == <<timer, retryCount, conns, wsi, writable>>
wvars == <<loop, context, clientsCount, failed, state, connects, lws, queued, buffered, crashed>>

Sockets == 1..MaxConnections
NoConnections == [k \in Sockets |-> "none"]

WebsocketInit ==
  /\ loop \in Loops
  /\ context = "absent" /\ clientsCount = 0 /\ failed = 0
  /\ state = [c \in Clients |-> "NotConnected"]
  /\ connects = [c \in Clients |-> 0]
  /\ timer = [c \in Clients |-> FALSE]
  /\ retryCount = [c \in Clients |-> 0]
  /\ conns = [c \in Clients |-> NoConnections]
  /\ wsi = [c \in Clients |-> 0]
  /\ writable = [c \in Clients |-> {}]
  /\ queued = [c \in Clients |-> 0]
  /\ buffered = [c \in Clients |-> FALSE]
  /\ crashed = FALSE

\* A crash is the end of the program.
Alive(c) == c \in loop /\ ~crashed

-----------------------------------------------------------------------------
(* What the program does: Connect, Send, Close and Finish.                  *)

\* Only the call that inserts the entry creates the context.  When that fails
\* the exception leaves the entry and the count behind.
Connect(c) ==
  /\ Alive(c)
  /\ state[c] = "NotConnected" /\ connects[c] < MaxConnects
  /\ connects' = [connects EXCEPT ![c] = @ + 1]
  /\ clientsCount' = clientsCount + 1
  /\ \/ /\ context = "absent"
        /\ context' = "null" /\ failed' = failed + 1
        /\ UNCHANGED <<state, timer, crashed>>
     \/ /\ context' = IF context = "absent" THEN "live" ELSE context
        /\ timer' = [timer EXCEPT ![c] = TRUE]
        /\ state' = [state EXCEPT ![c] = "Connecting"]
        /\ crashed' = (context' = "null")
        /\ UNCHANGED failed
  /\ UNCHANGED <<loop, retryCount, conns, wsi, writable, queued, buffered>>

\* A message asks for the writable callback if it is the first one waiting,
\* whether or not there is a connection to ask.
Send(c) ==
  /\ Alive(c)
  /\ queued[c] < MaxQueue
  /\ queued' = [queued EXCEPT ![c] = @ + 1]
  /\ IF queued[c] # 0
       THEN UNCHANGED <<writable, crashed>>
       ELSE /\ writable' = [writable EXCEPT ![c] = @ \cup ({wsi[c]} \ {0})]
            /\ crashed' = (wsi[c] = 0)
  /\ UNCHANGED <<loop, context, clientsCount, failed, state, connects, timer, retryCount, conns,
                 wsi, buffered>>

\* Close(reason), when wsi_ is w and the connections in asked wait for a callback.
Closing(c, w, asked) ==
  IF state[c] \in {"ClosingConnection", "NotConnected"}
    THEN /\ writable' = [writable EXCEPT ![c] = asked]
         /\ UNCHANGED <<state, crashed>>
    ELSE /\ state' = [state EXCEPT ![c] = "ClosingConnection"]
         /\ writable' = [writable EXCEPT ![c] = asked \cup ({w} \ {0})]
         /\ crashed' = (w = 0)

Close(c) ==
  /\ Alive(c)
  /\ Closing(c, wsi[c], writable[c])
  /\ UNCHANGED <<loop, context, clientsCount, failed, connects, timer, retryCount, conns, wsi,
                 queued, buffered>>

\* The context goes with its last client, and with it every timer and connection:
\* wsi_ is left dangling.
ResetContext ==
  /\ clientsCount' = clientsCount - 1
  /\ IF clientsCount = 1
       THEN /\ context' = "null"
            /\ timer' = [c \in Clients |-> FALSE]
            /\ conns' = [c \in Clients |-> NoConnections]
            /\ wsi' = [c \in Clients |-> 0]
            /\ writable' = [c \in Clients |-> {}]
       ELSE UNCHANGED <<context, timer, conns, wsi, writable>>

\* A mutant: Finish leaves the context alone.
FinishOnly(c) ==
  /\ Alive(c)
  /\ state[c] # "NotConnected"
  /\ state' = [state EXCEPT ![c] = "NotConnected"]
  /\ UNCHANGED <<loop, context, clientsCount, lws, failed, connects, queued, buffered, crashed>>

Finish(c) ==
  /\ Alive(c)
  /\ state[c] # "NotConnected"
  /\ state' = [state EXCEPT ![c] = "NotConnected"]
  /\ ResetContext
  /\ UNCHANGED <<loop, failed, connects, retryCount, queued, buffered, crashed>>

-----------------------------------------------------------------------------
(* What the service loop calls.                                             *)

\* What a call of ConnectImpl has done when it returns, in which connection k (0:
\* none) is gone and pending says whether the timer was scheduled.  A call for a
\* connection that fails may report the error before it returns, and with that
\* call ConnectImpl again: so calls fail within one another, around one that may
\* have made the connection new.  Each one that fails schedules the timer, until
\* the retries are exhausted (retryCount_ is never reset), and leaves in wsi_ w: null
\* or what the call within it has put there.  No call cancels the timer.
ConnectImpl(c, k, pending) ==
  LET left == IF k = 0 THEN conns[c] ELSE [conns[c] EXCEPT ![k] = "none"]
  IN \E failures \in 0..MaxNested : \E new \in {0} \cup Sockets : \E w \in {0, new} :
    /\ failures = 0 => w = new /\ new # 0
    /\ new # 0 => left[new] = "none" /\ \A j \in 1..(new - 1) : left[j] # "none"
    /\ conns' = [conns EXCEPT ![c] = IF new = 0 THEN left ELSE [left EXCEPT ![new] = "connecting"]]
    /\ wsi' = [wsi EXCEPT ![c] = w]
    /\ timer' = [timer EXCEPT ![c] = pending \/ (failures > 0 /\ retryCount[c] < Backoffs)]
    /\ retryCount' = [retryCount EXCEPT ![c] = IF @ + failures < Backoffs THEN @ + failures ELSE Backoffs]
    /\ IF retryCount[c] + failures <= Backoffs
         THEN /\ writable' = [writable EXCEPT ![c] = @ \ {k}]
              /\ UNCHANGED <<state, crashed>>
         ELSE Closing(c, w, writable[c] \ {k})

TimerFires(c) ==
  /\ Alive(c)
  /\ timer[c]
  /\ ConnectImpl(c, 0, FALSE)
  /\ UNCHANGED <<loop, context, clientsCount, failed, connects, queued, buffered>>

\* A mutant: that the retries are exhausted is not looked at when a connection closes.
ClosedUnnoticed(c, k) ==
  /\ Alive(c)
  /\ conns[c][k] # "none"
  /\ IF retryCount[c] < Backoffs
       THEN ConnectImpl(c, k, timer[c])
       ELSE /\ conns' = [conns EXCEPT ![c][k] = "none"]
            /\ wsi' = [wsi EXCEPT ![c] = 0]
            /\ writable' = [writable EXCEPT ![c] = @ \ {k}]
            /\ UNCHANGED <<state, timer, retryCount, crashed>>
  /\ UNCHANGED <<loop, context, clientsCount, failed, connects, queued, buffered>>

\* CLIENT_CLOSED or CLIENT_CONNECTION_ERROR of connection k: whatever the state.
ConnectionClosed(c, k) ==
  /\ Alive(c)
  /\ conns[c][k] # "none"
  /\ ConnectImpl(c, k, timer[c])
  /\ UNCHANGED <<loop, context, clientsCount, failed, connects, queued, buffered>>

\* A mutant: the state is not compared with Connected.
EstablishedAnyway(c, k) ==
  /\ Alive(c)
  /\ conns[c][k] = "connecting"
  /\ conns' = [conns EXCEPT ![c][k] = "open"]
  /\ state' = [state EXCEPT ![c] = "Connected"]
  /\ UNCHANGED <<loop, context, clientsCount, failed, connects, timer, retryCount, wsi, writable,
                 queued, buffered, crashed>>

Established(c, k) ==
  /\ Alive(c)
  /\ conns[c][k] = "connecting"
  /\ conns' = [conns EXCEPT ![c][k] = "open"]
  /\ state' = [state EXCEPT ![c] =
       IF @ \in {"NotConnected", "Connecting", "Reconnecting"} THEN "Connected" ELSE @]
  /\ UNCHANGED <<loop, context, clientsCount, failed, connects, timer, retryCount, wsi, writable,
                 queued, buffered, crashed>>

\* A fragment, the last one of its message or not.
Receive(c, k) ==
  /\ Alive(c)
  /\ conns[c][k] = "open"
  /\ \E more \in BOOLEAN : buffered' = [buffered EXCEPT ![c] = more]
  /\ UNCHANGED <<loop, context, clientsCount, failed, state, connects, lws, queued, crashed>>

\* One message is written per callback, to wsi_, and the next one asks for a
\* callback of k; -1 makes libwebsockets close k.
Writeable(c, k) ==
  /\ Alive(c)
  /\ conns[c][k] = "open" /\ k \in writable[c]
  /\ \/ /\ state[c] = "ClosingConnection"
        /\ conns' = [conns EXCEPT ![c][k] = "closing"]
        /\ writable' = [writable EXCEPT ![c] = @ \ {k}]
        /\ UNCHANGED <<state, queued, crashed>>
     \/ /\ state[c] # "ClosingConnection" /\ queued[c] = 0
        /\ writable' = [writable EXCEPT ![c] = @ \ {k}]
        /\ UNCHANGED <<state, conns, queued, crashed>>
     \/ /\ state[c] # "ClosingConnection" /\ queued[c] > 0 /\ wsi[c] = 0
        /\ crashed' = TRUE
        /\ UNCHANGED <<state, conns, queued, writable>>
     \/ /\ state[c] # "ClosingConnection" /\ queued[c] > 0 /\ wsi[c] # 0
        /\ queued' = [queued EXCEPT ![c] = @ - 1]
        /\ \/ /\ writable' = [writable EXCEPT ![c] = IF queued[c] > 1 THEN @ ELSE @ \ {k}]
              /\ UNCHANGED <<state, conns, crashed>>
           \/ /\ conns' = [conns EXCEPT ![c][k] = "closing"]  \* a part of it was written
              /\ Closing(c, wsi[c], writable[c] \ {k})
  /\ UNCHANGED <<loop, context, clientsCount, failed, connects, timer, retryCount, wsi, buffered>>

-----------------------------------------------------------------------------
WebsocketNext == \E c \in Clients :
  \/ Connect(c) \/ Send(c) \/ Close(c) \/ Finish(c) \/ TimerFires(c)
  \/ \E k \in Sockets :
       ConnectionClosed(c, k) \/ Established(c, k) \/ Receive(c, k) \/ Writeable(c, k)

WebsocketSpec == WebsocketInit /\ [][WebsocketNext]_wvars

-----------------------------------------------------------------------------
(* Properties                                                               *)

\* A client that is alone on its loop, as the websocket processor makes it, never
\* stops trying while it connects or is connected, however the calls for a
\* connection fail within one another: an attempt is scheduled or there is a
\* connection, the closing of which makes the next one (client.cpp:86-113).
KeepsTrying ==
  (Cardinality(loop) = 1 /\ ~crashed) =>
    \A c \in loop : state[c] \in {"Connecting", "Connected"} =>
      timer[c] \/ conns[c] # NoConnections

\* When such a client has finished, no callback can reach it any more, and only
\* the calls of Connect that failed are still counted (client.cpp:165-198).
FinishedIsSilent ==
  (Cardinality(loop) = 1 /\ ~crashed) =>
    \A c \in loop : state[c] = "NotConnected" =>
      conns[c] = NoConnections /\ ~timer[c] /\ clientsCount = failed

\* A client that closes stays so until it is finished, whatever connection is
\* established meanwhile, and writes none of the messages that wait, though Send
\* still adds to them (client.cpp:123-133, 157-163 and 200-207).
ClosingIsFinal ==
  [][\A c \in loop : state[c] = "ClosingConnection" =>
       /\ state'[c] \in {"ClosingConnection", "NotConnected"}
       /\ queued'[c] >= queued[c]]_wvars

\* The assertion of ResetContext (client.cpp:191), of the calls that a client
\* may make next: a client that is not NotConnected is counted.
CountIsPositive == \A c \in Clients : state[c] # "NotConnected" => clientsCount > 0

=============================================================================
