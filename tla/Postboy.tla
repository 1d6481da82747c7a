------------------------------ MODULE Postboy ------------------------------
(***************************************************************************)
(* One postboy: the worker thread that runs Postboy::RunImpl, the control  *)
(* threads that call RequestStop, RequestResume, RequestFinish and         *)
(* RequestSample (HTTP handlers, or the processor itself from inside       *)
(* Process), and the thread that calls Runtime::WaitFinished.  They share  *)
(* the atomic state_ and the atomic deadline sampleEnd_.                   *)
(*                                                                         *)
(* Every atomic access of shared state is a step of its own, except that a *)
(* store or compare-exchange and the notify_all that follows it are one    *)
(* step.  The tests of RunImpl's loops only read the worker's local copy   *)
(* of the state and belong to the step that changed it.                    *)
(***************************************************************************)
EXTENDS Naturals

CONSTANTS
  Clients,      \* the control threads
  Waiters,      \* the threads in Runtime::WaitFinished
  CallNumbers,  \* the values Processor::CallNumber may have
  NoLimit       \* Processor::kInf, the call number of most processors

Worker == "worker"
Callers == Clients \cup {Worker}

ASSUME PostboyAssumption ==
  /\ Worker \notin Clients \cup Waiters
  /\ NoLimit \notin Nat
  /\ CallNumbers \subseteq (Nat \ {0}) \cup {NoLimit}

VARIABLES
  state,      \* state_
  pc,         \* where the worker thread is
  loc,        \* RunImpl's local copy of state_
  processed,  \* processedCalls_ (not counted when the call number is kInf)
  callNumber, \* processor_->CallNumber()
  elapsed,    \* the clock has passed sampleEnd_
  endAfter,   \* RunImpl's local "end" lies after sampleEnd_
  inputEnded, \* what the processor reads from has no more elements
  op,         \* the request each caller is executing
  seen,       \* that request's local copy of state_
  armed,      \* RequestSample has stored sampleEnd_ in this iteration
  asleep,     \* threads blocked in state_.wait() that no notify_all reached
  wpc,        \* where each thread in Runtime::WaitFinished is
  wseen,      \* its local copy of state_
  released,   \* what the worker has released: Finalize, then UnlinkQueues
  late        \* history: calls of Process begun since the state became one
              \* that asks for no more of them

requestVars == <<op, seen, armed>>
workerVars == <<pc, loc, processed, callNumber, endAfter, released>>
waiterVars == <<wpc, wseen>>
vars == <<state, elapsed, inputEnded, asleep, late, requestVars, workerVars,
          waiterVars>>

-----------------------------------------------------------------------------
States ==
  { "NotInitialized", "Initialized", "Running", "StopRequested", "Stopped",
    "ResumeRequested", "FinishRequested", "Finished", "SampleRequested",
    "Sampling" }

Requests == {"stop", "resume", "finish", "sample"}

\* Mutant of Accepts: a stop request is also taken from FinishRequested.
AcceptsAfterFinish(r) ==
  [stop   |-> {"ResumeRequested", "Running", "FinishRequested"},
   resume |-> {"StopRequested", "Stopped"},
   finish |-> {"ResumeRequested", "Running", "StopRequested", "Stopped"},
   sample |-> {"ResumeRequested", "Running"}][r]

\* Mutant of Accepts: RequestFinish forgets the running postboy.
AcceptsFinishWhenIdle(r) ==
  [stop   |-> {"ResumeRequested", "Running"},
   resume |-> {"StopRequested", "Stopped"},
   finish |-> {"ResumeRequested", "StopRequested", "Stopped"},
   sample |-> {"ResumeRequested", "Running"}][r]

\* Mutant of Target: a stop takes effect without the worker's consent.
TargetAtOnce(r) ==
  [stop |-> "Stopped", resume |-> "ResumeRequested",
   finish |-> "FinishRequested", sample |-> "SampleRequested"][r]

\* The states in which a request acts (the condition of its loop) and the
\* state it asks for.
Accepts(r) ==
  CASE r = "stop"   -> {"ResumeRequested", "Running"}
    [] r = "resume" -> {"StopRequested", "Stopped"}
    [] r = "finish" -> {"ResumeRequested", "Running", "StopRequested", "Stopped"}
    [] r = "sample" -> {"ResumeRequested", "Running"}

Target(r) ==
  CASE r = "stop"   -> "StopRequested"
    [] r = "resume" -> "ResumeRequested"
    [] r = "finish" -> "FinishRequested"
    [] r = "sample" -> "SampleRequested"

NoMoreCalls == {"StopRequested", "FinishRequested"}

\* The tests at the end of the outer loop's body, in their order (lines 67, 72,
\* 77 and 82), and where RunImpl's loops continue with local state l.
Tests == <<"SampleRequested", "StopRequested", "ResumeRequested", "Stopped">>

TestLabel ==
  [SampleRequested |-> "beginSampling", StopRequested |-> "confirmStop",
   ResumeRequested |-> "confirmResume", Stopped |-> "park"]

Branch(l) == IF l \in DOMAIN TestLabel THEN TestLabel[l] ELSE "call"

\* Mutant of CallsLeft: off by one.
CallsLeftInclusive(n) == callNumber = NoLimit \/ n <= callNumber

CallsLeft(n) == callNumber = NoLimit \/ n < callNumber

\* processedCalls_ after one more call.
Count(n) == IF callNumber = NoLimit THEN n ELSE n + 1

\* Mutant of Outer: the request to finish does not end the loop.
OuterIgnoresFinish(l, n) == IF CallsLeft(n) THEN Branch(l) ELSE "finalize"

\* Mutant of Outer: a request to stop ends the loop.
OuterEndsOnStop(l, n) ==
  IF CallsLeft(n) /\ l \notin NoMoreCalls THEN Branch(l) ELSE "finalize"

\* The outer loop's condition after n calls; then the branch local state l
\* selects.
Outer(l, n) ==
  IF CallsLeft(n) /\ l # "FinishRequested" THEN Branch(l) ELSE "finalize"

\* After test k took the local state to l, only the later tests apply before
\* the outer condition is evaluated again.
AfterTest(k, l, n) ==
  IF \E i \in 1..4 : i > k /\ Tests[i] = l THEN Branch(l) ELSE Outer(l, n)

-----------------------------------------------------------------------------
Init ==
  /\ state = "NotInitialized"
  /\ pc = "constructed"
  /\ loc = "NotInitialized"
  /\ processed = 0
  /\ callNumber \in CallNumbers
  /\ elapsed = TRUE
  /\ endAfter = FALSE
  /\ inputEnded = FALSE
  /\ op = [c \in Callers |-> "none"]
  /\ seen = [c \in Callers |-> "NotInitialized"]
  /\ armed = [c \in Callers |-> FALSE]
  /\ asleep = {}
  /\ wpc = [w \in Waiters |-> "idle"]
  /\ wseen = [w \in Waiters |-> "NotInitialized"]
  /\ released = "nothing"
  /\ late = 0

\* A change of state_ without and with the notify_all that follows it.
Store(s) ==
  /\ state' = s
  /\ late' = IF s = state THEN late ELSE 0

\* Mutant of StoreAndNotify: the notification is forgotten.
StoreSilently(s) == Store(s) /\ UNCHANGED asleep

StoreAndNotify(s) == Store(s) /\ asleep' = {}

-----------------------------------------------------------------------------
(* Postboy::Init and Postboy::Run.                                         *)

InitPostboy ==
  /\ pc = "constructed"
  /\ Store("Initialized")
  /\ pc' = "ready"
  /\ UNCHANGED <<elapsed, inputEnded, asleep, requestVars, loc, processed,
                 callNumber, endAfter, released, waiterVars>>

\* Run stores Running and tells nobody: a thread already waiting for a change
\* of state_ sleeps on until the next one.
Run ==
  /\ pc = "ready"
  /\ Store("Running")
  /\ pc' = "starting"
  /\ UNCHANGED <<elapsed, inputEnded, asleep, requestVars, loc, processed,
                 callNumber, endAfter, released, waiterVars>>

StartThread ==
  /\ pc = "starting"
  /\ pc' = "begin"
  /\ UNCHANGED <<state, late, elapsed, inputEnded, asleep, requestVars, loc,
                 processed, callNumber, endAfter, released, waiterVars>>

-----------------------------------------------------------------------------
(* Postboy::RunImpl.                                                       *)

Begin ==
  /\ pc = "begin"
  /\ loc' = state
  /\ pc' = Outer(state, processed)
  /\ UNCHANGED <<state, late, elapsed, inputEnded, asleep, requestVars,
                 processed, callNumber, endAfter, released, waiterVars>>

BeginProcess ==
  /\ pc = "call"
  /\ pc' = "process"
  /\ late' = IF state \in NoMoreCalls THEN late + 1 ELSE late
  /\ UNCHANGED <<state, elapsed, inputEnded, asleep, requestVars, loc,
                 processed, callNumber, endAfter, released, waiterVars>>

\* Process returns.  Sampling, the worker takes the time of the return.
EndProcess ==
  /\ \/ pc = "process" /\ ~inputEnded
     \/ pc = "request" /\ op[Worker] = "none"
  /\ pc' = "load"
  /\ endAfter' = (loc = "Sampling" /\ elapsed)
  /\ UNCHANGED <<state, late, elapsed, inputEnded, asleep, requestVars, loc,
                 processed, callNumber, released, waiterVars>>

\* One more call is counted and state_ is read again.  In the sampling loop a
\* postboy that is still sampling compares the time of the return with
\* sampleEnd_ next.
LoadState ==
  /\ pc = "load"
  /\ loc' = state
  /\ processed' = Count(processed)
  /\ pc' = IF loc = "Sampling" /\ state = "Sampling" THEN "deadline"
           ELSE AfterTest(0, state, processed')
  /\ UNCHANGED <<state, late, elapsed, inputEnded, asleep, requestVars,
                 callNumber, endAfter, released, waiterVars>>

CheckDeadline ==
  /\ pc = "deadline"
  /\ pc' = IF endAfter THEN "endSampling" ELSE Outer(loc, processed)
  /\ UNCHANGED <<state, late, elapsed, inputEnded, asleep, requestVars, loc,
                 processed, callNumber, endAfter, released, waiterVars>>

\* Mutant of Exchange: a plain store.
ExchangeBlindly(label, k, to) ==
  /\ pc = label
  /\ StoreAndNotify(to)
  /\ pc' = AfterTest(k, loc, processed)
  /\ UNCHANGED <<elapsed, inputEnded, requestVars, loc, processed, callNumber,
                 endAfter, released, waiterVars>>

\* The worker's compare_exchange_strong(loc, to) and what follows it.  The
\* local copy changes only when the exchange fails.
Exchange(label, k, to) ==
  /\ pc = label
  /\ IF state = loc
       THEN StoreAndNotify(to) /\ UNCHANGED loc
       ELSE StoreAndNotify(state) /\ loc' = state
  /\ pc' = AfterTest(k, loc', processed)
  /\ UNCHANGED <<elapsed, inputEnded, requestVars, processed, callNumber,
                 endAfter, released, waiterVars>>

EndSampling   == Exchange("endSampling", 0, "Running")
BeginSampling == Exchange("beginSampling", 1, "Sampling")
ConfirmStop   == Exchange("confirmStop", 2, "Stopped")
ConfirmResume == Exchange("confirmResume", 3, "Running")

\* state_.wait(Stopped): blocks while the state is Stopped, and looks again
\* only when notified.
Park ==
  /\ pc = "park"
  /\ IF state = "Stopped"
       THEN pc' = "asleep" /\ asleep' = asleep \cup {Worker}
       ELSE pc' = "reload" /\ UNCHANGED asleep
  /\ UNCHANGED <<state, late, elapsed, inputEnded, requestVars, loc, processed,
                 callNumber, endAfter, released, waiterVars>>

Wake ==
  /\ pc = "asleep"
  /\ Worker \notin asleep
  /\ pc' = "park"
  /\ UNCHANGED <<state, late, elapsed, inputEnded, asleep, requestVars, loc,
                 processed, callNumber, endAfter, released, waiterVars>>

Reload ==
  /\ pc = "reload"
  /\ loc' = state
  /\ pc' = Outer(state, processed)
  /\ UNCHANGED <<state, late, elapsed, inputEnded, asleep, requestVars,
                 processed, callNumber, endAfter, released, waiterVars>>

Finalize ==
  /\ pc = "finalize"
  /\ released' = "finalized"
  /\ pc' = "unlink"
  /\ UNCHANGED <<state, late, elapsed, inputEnded, asleep, requestVars, loc,
                 processed, callNumber, endAfter, waiterVars>>

UnlinkQueues ==
  /\ pc = "unlink"
  /\ released' = "unlinked"
  /\ pc' = "publish"
  /\ UNCHANGED <<state, late, elapsed, inputEnded, asleep, requestVars, loc,
                 processed, callNumber, endAfter, waiterVars>>

\* The last store is unconditional: it also overwrites a request that arrived
\* after the worker's last look at state_.
PublishFinished ==
  /\ pc = "publish"
  /\ StoreAndNotify("Finished")
  /\ pc' = "done"
  /\ UNCHANGED <<elapsed, inputEnded, requestVars, loc, processed, callNumber,
                 endAfter, released, waiterVars>>

WorkerStep ==
  \/ StartThread \/ Begin \/ BeginProcess \/ EndProcess \/ LoadState
  \/ CheckDeadline \/ EndSampling \/ BeginSampling \/ ConfirmStop
  \/ ConfirmResume \/ Park \/ Wake \/ Reload \/ Finalize \/ UnlinkQueues
  \/ PublishFinished

-----------------------------------------------------------------------------
(* The four requests.                                                      *)

\* After a look at state_ that found s, caller c goes round its loop again or
\* returns (and its local copy is gone).
Continue(c, r, s) ==
  /\ op' = [op EXCEPT ![c] = IF s \in Accepts(r) THEN r ELSE "none"]
  /\ seen' = [seen EXCEPT ![c] = IF s \in Accepts(r) THEN s ELSE "NotInitialized"]
  /\ armed' = [armed EXCEPT ![c] = FALSE]

Invoke(c, r) ==
  /\ op[c] = "none"
  /\ Continue(c, r, state)

\* A client reaches a postboy through the runtime, after Init.
ClientInvoke(c, r) ==
  /\ pc # "constructed"
  /\ Invoke(c, r)
  /\ UNCHANGED <<state, elapsed, inputEnded, asleep, late, workerVars,
                 waiterVars>>

\* The processor calls Processor::RequestFinish when its input has ended, and
\* may call Processor::RequestStop, from inside Process.
ProcessorInvoke ==
  /\ pc = "process"
  /\ Invoke(Worker, IF inputEnded THEN "finish" ELSE "stop")
  /\ pc' = "request"
  /\ UNCHANGED <<state, elapsed, inputEnded, asleep, late, loc, processed,
                 callNumber, endAfter, released, waiterVars>>

\* RequestSample stores a new deadline in every iteration of its loop.
Arm(c) ==
  /\ op[c] = "sample"
  /\ ~armed[c]
  /\ armed' = [armed EXCEPT ![c] = TRUE]
  /\ elapsed' = FALSE
  /\ endAfter' = FALSE
  /\ UNCHANGED <<state, inputEnded, asleep, late, op, seen, pc, loc, processed,
                 callNumber, released, waiterVars>>

\* compare_exchange_strong(seen, Target): an exchange that succeeds leaves the
\* caller's copy as it was, so the caller tries once more.
Apply(c) ==
  /\ op[c] # "none"
  /\ op[c] = "sample" => armed[c]
  /\ IF state = seen[c]
       THEN StoreAndNotify(Target(op[c])) /\ Continue(c, op[c], seen[c])
       ELSE StoreAndNotify(state) /\ Continue(c, op[c], state)
  /\ UNCHANGED <<elapsed, inputEnded, workerVars, waiterVars>>

RequestStep(c) == Arm(c) \/ Apply(c)

-----------------------------------------------------------------------------
(* Runtime::WaitFinished and Postboy::Wait.                                *)

\* The waiting thread goes on to l, its local copy of state_ now s.
Watch(w, l, s) ==
  /\ wpc' = [wpc EXCEPT ![w] = l]
  /\ wseen' = [wseen EXCEPT ![w] = s]
  /\ UNCHANGED <<state, elapsed, inputEnded, late, requestVars, workerVars>>

WaitFinished(w) ==
  /\ wpc[w] = "idle"
  /\ pc # "constructed"
  /\ Watch(w, IF state = "Finished" THEN "returned" ELSE "look", state)
  /\ UNCHANGED asleep

\* Wait returns the first state that differs from the one it was given.
Look(w) ==
  /\ wpc[w] = "look"
  /\ Watch(w, CASE state = wseen[w]   -> "block"
               [] state = "Finished" -> "returned"
               [] OTHER              -> "look", state)
  /\ UNCHANGED asleep

Block(w) ==
  /\ wpc[w] = "block"
  /\ IF state = wseen[w]
       THEN Watch(w, "asleep", wseen[w]) /\ asleep' = asleep \cup {w}
       ELSE Watch(w, "look", wseen[w]) /\ UNCHANGED asleep

WakeWaiter(w) ==
  /\ wpc[w] = "asleep"
  /\ w \notin asleep
  /\ Watch(w, "block", wseen[w])
  /\ UNCHANGED asleep

WaiterStep(w) == Look(w) \/ Block(w) \/ WakeWaiter(w)

-----------------------------------------------------------------------------
(* The environment: the clock and what the processor reads from.           *)

ClockPasses ==
  /\ ~elapsed
  /\ elapsed' = TRUE
  /\ UNCHANGED <<state, inputEnded, asleep, late, requestVars, workerVars,
                 waiterVars>>

InputEnds ==
  /\ ~inputEnded
  /\ inputEnded' = TRUE
  /\ UNCHANGED <<state, elapsed, asleep, late, requestVars, workerVars,
                 waiterVars>>

-----------------------------------------------------------------------------
Next ==
  \/ InitPostboy \/ Run
  \/ WorkerStep \/ ProcessorInvoke
  \/ \E c \in Clients, r \in Requests : ClientInvoke(c, r)
  \/ \E c \in Callers : RequestStep(c)
  \/ \E w \in Waiters : WaitFinished(w) \/ WaiterStep(w)
  \/ ClockPasses \/ InputEnds

\* The scheduler runs every thread that can run, the clock advances, and
\* Process returns.  Nobody has to send a request, run the postboy, wait for
\* it, or end its input.
Fairness ==
  /\ WF_vars(WorkerStep \/ (pc = "process" /\ inputEnded /\ ProcessorInvoke))
  /\ \A c \in Callers : WF_vars(RequestStep(c))
  /\ \A w \in Waiters : WF_vars(WaiterStep(w))
  /\ WF_vars(ClockPasses)

Spec == Init /\ [][Next]_vars
FairSpec == Spec /\ Fairness

-----------------------------------------------------------------------------
TypeOK ==
  /\ state \in States
  /\ pc \in { "constructed", "ready", "starting", "begin", "call", "process",
              "request", "load", "deadline", "endSampling", "beginSampling",
              "confirmStop", "confirmResume", "park", "asleep", "reload",
              "finalize", "unlink", "publish", "done" }
  /\ loc \in States
  /\ processed \in Nat
  /\ callNumber \in CallNumbers
  /\ elapsed \in BOOLEAN
  /\ endAfter \in BOOLEAN
  /\ inputEnded \in BOOLEAN
  /\ op \in [Callers -> Requests \cup {"none"}]
  /\ seen \in [Callers -> States]
  /\ armed \in [Callers -> BOOLEAN]
  /\ asleep \subseteq {Worker} \cup Waiters
  /\ wpc \in [Waiters -> {"idle", "look", "block", "asleep", "returned"}]
  /\ wseen \in [Waiters -> States]
  /\ released \in {"nothing", "finalized", "unlinked"}
  /\ late \in Nat

\* A stopped postboy processes nothing: while state_ is Stopped no call of
\* Process is in progress, and the worker is not about to make one on the
\* strength of an older copy of state_.
StoppedIsQuiet ==
  state = "Stopped" => pc \notin {"call", "process", "request", "load"}

\* A request to stop or to finish is obeyed at once, but for the one call the
\* worker decides on just before the request arrives.
AtMostOneLateCall == state \in NoMoreCalls => late <= 1

\* Processor::CallNumber bounds the number of calls, the sampled ones and the
\* one after the sampling deadline included.
CallsWithinLimit ==
  callNumber # NoLimit =>
    /\ processed <= callNumber
    /\ pc \in {"call", "process", "request", "load"} => processed < callNumber

\* A postboy is Finished only for one of the two reasons RunImpl gives, and
\* only after its processor was finalised and unlinked, in this order.
FinishedWhenDue ==
  state = "Finished" =>
    /\ released = "unlinked"
    /\ loc = "FinishRequested" \/ processed = callNumber

\* A request to finish, once state_ shows it, is never taken back: no stop,
\* resume or sample request and no answer of the worker overwrites it.
FinishIsIrrevocable ==
  [][ /\ state = "FinishRequested" => state' \in {"FinishRequested", "Finished"}
      /\ state = "Finished" => state' = "Finished" ]_state

\* The postboy keeps the promise of PostboyLifecycle: Process runs from
\* "process" to its return, and the queues are released by UnlinkQueues.
Lifecycle == INSTANCE PostboyLifecycle WITH
  busy <- pc \in {"process", "request"},
  released <- released = "unlinked"

LifecycleSpec == Lifecycle!LSpec

\* Whatever a postboy was asked for, it gets done (or overridden by a later
\* request): a request state does not last.  With FinishIsIrrevocable this
\* means that a postboy asked to finish is eventually Finished.
RequestsAreHandled ==
  \A s \in {"StopRequested", "ResumeRequested", "SampleRequested",
            "FinishRequested", "Sampling"} : state = s ~> state # s

\* RequestFinish does nothing while the postboy is sampling, so a processor
\* whose input has ended may ask in vain; it asks again in its next call.  Once
\* the clients leave the postboy alone (two of them that take turns can make
\* its compare-exchange fail, or ask for samples, for ever) it finishes, unless
\* they left it stopped.
EndOfInputFinishes ==
  <>[](\A c \in Clients : op[c] = "none") =>
     ((inputEnded /\ pc = "call") ~> state \in {"Stopped", "Finished"})

\* No wake-up is lost: the thread in WaitFinished returns once the postboy is
\* Finished, although Run changes the state without notifying anybody.
WaiterReturns ==
  \A w \in Waiters :
     (state = "Finished" /\ wpc[w] # "idle") ~> wpc[w] = "returned"
=============================================================================
