--------------------------- MODULE PostboyProofs ---------------------------
(***************************************************************************)
(* The safety of module Postboy for every set of control threads and       *)
(* waiting threads and every call number, and that Postboy implements      *)
(* PostboyLifecycle.                                                       *)
(*                                                                         *)
(* The inductive invariant says how the worker's program counter, its      *)
(* local copy of the state and the shared state fit together: which test   *)
(* of RunImpl the worker can only have reached with which local copy, and  *)
(* which shared states can exist while it is there.                        *)
(***************************************************************************)
EXTENDS Postboy, TLAPS

InCall == {"call", "process", "request", "load"}
Leaving == {"finalize", "unlink", "publish", "done"}

\* A caller inside a request holds a state in which that request acts, so an
\* exchange that succeeds moves the postboy out of such a state.
RequestInv == \A c \in Callers : op[c] # "none" => seen[c] \in Accepts(op[c])

\* Before the thread starts and after it has published Finished the state is
\* known; in between it is none of the three states without a thread.
PhaseInv ==
  /\ pc = "constructed" <=> state = "NotInitialized"
  /\ pc = "ready" <=> state = "Initialized"
  /\ pc = "done" <=> state = "Finished"

\* The local copy with which the worker reached its test.
LocalInv ==
  /\ pc = "beginSampling" => loc = "SampleRequested"
  /\ pc = "confirmStop" => loc = "StopRequested"
  /\ pc = "confirmResume" => loc = "ResumeRequested"
  /\ pc \in {"deadline", "endSampling"} => loc = "Sampling"
  /\ pc \in {"park", "asleep"} => loc = "Stopped"
  /\ pc \in InCall => loc \in {"Running", "Sampling"}

\* Only the worker makes a postboy Stopped, and then it sleeps or leaves.
StoppedInv ==
  state = "Stopped" => pc \in {"confirmStop", "park", "asleep"} \cup Leaving

\* Where the worker is once the late call has begun.
LateInv ==
  /\ state \notin NoMoreCalls => late = 0
  /\ late \in {0, 1}
  /\ late = 1 /\ state = "StopRequested" =>
       pc \in {"process", "request", "load", "confirmStop"}
  /\ late = 1 /\ state = "FinishRequested" =>
       pc \in {"process", "request", "load"} \cup Leaving

LimitInv ==
  /\ callNumber # NoLimit => processed <= callNumber
  /\ pc \in InCall => CallsLeft(processed)
  /\ pc \in Leaving =>
       loc = "FinishRequested" \/ (callNumber # NoLimit /\ processed = callNumber)

ReleaseInv ==
  /\ pc = "unlink" <=> released = "finalized"
  /\ pc \in {"publish", "done"} <=> released = "unlinked"

IInv ==
  /\ TypeOK
  /\ RequestInv
  /\ PhaseInv
  /\ LocalInv
  /\ StoppedInv
  /\ LateInv
  /\ LimitInv
  /\ ReleaseInv

-----------------------------------------------------------------------------
\* The constants: call numbers are positive naturals or NoLimit.
LEMMA CallNumberFact ==
  ASSUME TypeOK
  PROVE  callNumber # NoLimit => callNumber \in Nat /\ callNumber > 0
  BY PostboyAssumption DEF TypeOK

\* The branch each local state leads to.
LEMMA BranchFact ==
  ASSUME NEW l
  PROVE  /\ l = "SampleRequested" => Branch(l) = "beginSampling"
         /\ l = "StopRequested" => Branch(l) = "confirmStop"
         /\ l = "ResumeRequested" => Branch(l) = "confirmResume"
         /\ l = "Stopped" => Branch(l) = "park"
         /\ l \notin {"SampleRequested", "StopRequested", "ResumeRequested", "Stopped"}
              => Branch(l) = "call"
  BY DEF Branch, TestLabel

\* The branch the worker takes from the outer loop's condition.
LEMMA OuterFact ==
  ASSUME NEW l, NEW n
  PROVE  /\ CallsLeft(n) /\ l # "FinishRequested" => Outer(l, n) = Branch(l)
         /\ ~(CallsLeft(n) /\ l # "FinishRequested") => Outer(l, n) = "finalize"
  BY DEF Outer

\* The branch the worker takes after test k of the loop's body.
LEMMA AfterTestFact ==
  ASSUME NEW k \in 0..4, NEW l, NEW n
  PROVE  \/ /\ AfterTest(k, l, n) = Branch(l)
            /\ l \in {"SampleRequested", "StopRequested", "ResumeRequested", "Stopped"}
         \/ AfterTest(k, l, n) = Outer(l, n)
  <1>1. \A i \in 1..4 : Tests[i] \in
          {"SampleRequested", "StopRequested", "ResumeRequested", "Stopped"}
    BY DEF Tests
  <1>2. QED BY <1>1 DEF AfterTest

LEMMA FirstTestFact ==
  ASSUME NEW n
  PROVE  /\ AfterTest(0, "StopRequested", n) = "confirmStop"
         /\ AfterTest(2, "Stopped", n) = "park"
         /\ AfterTest(2, "StopRequested", n) = Outer("StopRequested", n)
  <1>1. /\ Tests[1] = "SampleRequested"
        /\ Tests[2] = "StopRequested"
        /\ Tests[3] = "ResumeRequested"
        /\ Tests[4] = "Stopped"
    BY DEF Tests
  <1>2. /\ \E i \in 1..4 : i > 0 /\ Tests[i] = "StopRequested"
        /\ \E i \in 1..4 : i > 2 /\ Tests[i] = "Stopped"
        /\ ~ \E i \in 1..4 : i > 2 /\ Tests[i] = "StopRequested"
    BY <1>1
  <1>3. QED BY <1>2, BranchFact DEF AfterTest

-----------------------------------------------------------------------------
LEMMA InitIInv == Init => IInv
  <1> SUFFICES ASSUME Init PROVE IInv
    OBVIOUS
  <1>1. TypeOK
    BY PostboyAssumption DEF Init, TypeOK, States
  <1>2. LimitInv
    BY <1>1, CallNumberFact DEF Init, LimitInv, InCall, Leaving
  <1>3. QED
    BY <1>1, <1>2 DEF Init, IInv, RequestInv, PhaseInv, LocalInv, StoppedInv, LateInv,
                ReleaseInv, NoMoreCalls, InCall, Leaving

LEMMA NextIInv == IInv /\ [Next]_vars => IInv'
  <1> SUFFICES ASSUME IInv, [Next]_vars PROVE IInv'
    OBVIOUS
  <1> USE CallNumberFact DEF IInv, InCall, Leaving, NoMoreCalls
  <1> USE DEF requestVars, workerVars, waiterVars
  <1>1. CASE InitPostboy
    BY <1>1 DEF InitPostboy, Store, TypeOK, States, RequestInv, PhaseInv, LocalInv,
         StoppedInv, LateInv, LimitInv, ReleaseInv, CallsLeft
  <1>2. CASE Run
    BY <1>2 DEF Run, Store, TypeOK, States, RequestInv, PhaseInv, LocalInv,
         StoppedInv, LateInv, LimitInv, ReleaseInv, CallsLeft
  <1>3. CASE StartThread
    BY <1>3 DEF StartThread, TypeOK, States, RequestInv, PhaseInv, LocalInv,
         StoppedInv, LateInv, LimitInv, ReleaseInv, CallsLeft
  <1>4. CASE Begin
    BY <1>4, OuterFact, BranchFact DEF Begin, TypeOK, States, RequestInv, PhaseInv, LocalInv,
         StoppedInv, LateInv, LimitInv, ReleaseInv, CallsLeft
  <1>5. CASE BeginProcess
    BY <1>5 DEF BeginProcess, TypeOK, States, RequestInv, PhaseInv, LocalInv,
         StoppedInv, LateInv, LimitInv, ReleaseInv, CallsLeft
  <1>6. CASE EndProcess
    BY <1>6 DEF EndProcess, TypeOK, States, RequestInv, PhaseInv, LocalInv,
         StoppedInv, LateInv, LimitInv, ReleaseInv, CallsLeft
  <1>7. CASE LoadState
    BY <1>7, OuterFact, BranchFact, AfterTestFact, FirstTestFact
       DEF LoadState, Count, TypeOK, States, RequestInv, PhaseInv, LocalInv,
         StoppedInv, LateInv, LimitInv, ReleaseInv, CallsLeft
  <1>8. CASE CheckDeadline
    BY <1>8, OuterFact, BranchFact DEF CheckDeadline, TypeOK, States, RequestInv, PhaseInv, LocalInv,
         StoppedInv, LateInv, LimitInv, ReleaseInv, CallsLeft
  <1>9. CASE EndSampling
    BY <1>9, OuterFact, BranchFact, AfterTestFact DEF EndSampling, Exchange, StoreAndNotify, Store,
         TypeOK, States, RequestInv, PhaseInv, LocalInv,
         StoppedInv, LateInv, LimitInv, ReleaseInv, CallsLeft
  <1>10. CASE BeginSampling
    BY <1>10, OuterFact, BranchFact, AfterTestFact DEF BeginSampling, Exchange, StoreAndNotify, Store,
         TypeOK, States, RequestInv, PhaseInv, LocalInv,
         StoppedInv, LateInv, LimitInv, ReleaseInv, CallsLeft
  <1>11. CASE ConfirmStop
    BY <1>11, OuterFact, BranchFact, AfterTestFact, FirstTestFact
       DEF ConfirmStop, Exchange, StoreAndNotify, Store,
         TypeOK, States, RequestInv, PhaseInv, LocalInv,
         StoppedInv, LateInv, LimitInv, ReleaseInv, CallsLeft
  <1>12. CASE ConfirmResume
    BY <1>12, OuterFact, BranchFact, AfterTestFact DEF ConfirmResume, Exchange, StoreAndNotify, Store,
         TypeOK, States, RequestInv, PhaseInv, LocalInv,
         StoppedInv, LateInv, LimitInv, ReleaseInv, CallsLeft
  <1>13. CASE Park
    BY <1>13 DEF Park, TypeOK, States, RequestInv, PhaseInv, LocalInv,
         StoppedInv, LateInv, LimitInv, ReleaseInv, CallsLeft
  <1>14. CASE Wake
    BY <1>14 DEF Wake, TypeOK, States, RequestInv, PhaseInv, LocalInv,
         StoppedInv, LateInv, LimitInv, ReleaseInv, CallsLeft
  <1>15. CASE Reload
    BY <1>15, OuterFact, BranchFact DEF Reload, TypeOK, States, RequestInv, PhaseInv, LocalInv,
         StoppedInv, LateInv, LimitInv, ReleaseInv, CallsLeft
  <1>16. CASE Finalize \/ UnlinkQueues \/ PublishFinished
    BY <1>16 DEF Finalize, UnlinkQueues, PublishFinished, StoreAndNotify, Store,
         TypeOK, States, RequestInv, PhaseInv, LocalInv,
         StoppedInv, LateInv, LimitInv, ReleaseInv, CallsLeft
  <1>17. CASE ProcessorInvoke
    BY <1>17 DEF ProcessorInvoke, Invoke, Continue, TypeOK, States, Callers, Requests,
         RequestInv, PhaseInv, LocalInv, StoppedInv, LateInv, LimitInv, ReleaseInv,
         CallsLeft
  <1>18. ASSUME NEW c \in Clients, NEW r \in Requests, ClientInvoke(c, r)
         PROVE  IInv'
    BY <1>18 DEF ClientInvoke, Invoke, Continue, TypeOK, States, Callers, RequestInv,
         PhaseInv, LocalInv, StoppedInv, LateInv, LimitInv, ReleaseInv, CallsLeft
  <1>19. ASSUME NEW c \in Callers, Arm(c)
         PROVE  IInv'
    <2>1. TypeOK'
      BY <1>19, Zenon DEF Arm, TypeOK
    <2>2. UNCHANGED <<state, late, op, seen, pc, loc, processed, callNumber, released>>
      BY <1>19 DEF Arm
    <2>3. QED
      BY <2>1, <2>2 DEF RequestInv, PhaseInv, LocalInv, StoppedInv, LateInv, LimitInv,
           ReleaseInv, CallsLeft
  <1>20. ASSUME NEW c \in Callers, Apply(c)
         PROVE  IInv'
    <2>1. /\ op[c] \in Requests
          /\ seen[c] \in Accepts(op[c])
      BY <1>20 DEF Apply, TypeOK, RequestInv
    <2>2. CASE state = seen[c]
      <3>1. /\ state \in {"Running", "ResumeRequested", "StopRequested", "Stopped"}
            /\ Target(op[c]) \in {"StopRequested", "ResumeRequested",
                                   "FinishRequested", "SampleRequested"}
            /\ state # Target(op[c])
            /\ Target(op[c]) = "StopRequested" => state # "Stopped"
        BY <2>1, <2>2 DEF Accepts, Target, Requests
      <3>2. /\ state' = Target(op[c])
            /\ late' = 0
            /\ asleep' = {}
            /\ Continue(c, op[c], seen[c])
            /\ UNCHANGED <<elapsed, inputEnded, workerVars, waiterVars>>
        BY <1>20, <2>2, <3>1 DEF Apply, StoreAndNotify, Store
      <3>3. TypeOK' /\ RequestInv'
        BY <2>1, <3>1, <3>2 DEF Continue, TypeOK, States, RequestInv
      <3>4. QED
        BY <3>1, <3>2, <3>3 DEF PhaseInv, LocalInv, StoppedInv, LateInv, LimitInv,
             ReleaseInv, CallsLeft
    <2>3. CASE state # seen[c]
      <3>1. /\ UNCHANGED <<state, late, elapsed, inputEnded, workerVars, waiterVars>>
            /\ asleep' = {}
            /\ Continue(c, op[c], state)
        BY <1>20, <2>3 DEF Apply, StoreAndNotify, Store
      <3>2. TypeOK' /\ RequestInv'
        BY <2>1, <3>1 DEF Continue, TypeOK, States, RequestInv
      <3>3. QED
        BY <3>1, <3>2 DEF PhaseInv, LocalInv, StoppedInv, LateInv, LimitInv,
             ReleaseInv, CallsLeft
    <2>4. QED BY <2>2, <2>3
  <1>21. ASSUME NEW w \in Waiters, WaitFinished(w) \/ WaiterStep(w)
         PROVE  IInv'
    BY <1>21 DEF WaitFinished, WaiterStep, Look, Block, WakeWaiter, Watch, TypeOK,
         RequestInv, PhaseInv, LocalInv, StoppedInv, LateInv, LimitInv, ReleaseInv,
         CallsLeft
  <1>22. CASE ClockPasses \/ InputEnds
    <2>1. TypeOK'
      BY <1>22, Zenon DEF ClockPasses, InputEnds, TypeOK
    <2>2. UNCHANGED <<state, late, requestVars, workerVars>>
      BY <1>22 DEF ClockPasses, InputEnds
    <2>3. QED
      BY <2>1, <2>2 DEF RequestInv, PhaseInv, LocalInv, StoppedInv, LateInv, LimitInv,
           ReleaseInv, CallsLeft
  <1>23. CASE UNCHANGED vars
    BY <1>23 DEF vars, TypeOK, RequestInv, PhaseInv, LocalInv, StoppedInv, LateInv,
         LimitInv, ReleaseInv, CallsLeft
  <1>24. QED
    BY <1>1, <1>2, <1>3, <1>4, <1>5, <1>6, <1>7, <1>8, <1>9, <1>10, <1>11, <1>12,
       <1>13, <1>14, <1>15, <1>16, <1>17, <1>18, <1>19, <1>20, <1>21, <1>22, <1>23
       DEF Next, WorkerStep, RequestStep

LEMMA Invariance == Spec => []IInv
  BY InitIInv, NextIInv, PTL DEF Spec

-----------------------------------------------------------------------------
\* Every variable of the postboy keeps its type.
THEOREM TypeCorrect == Spec => []TypeOK
  <1>1. IInv => TypeOK
    BY DEF IInv
  <1>2. QED BY <1>1, Invariance, PTL

\* A stopped postboy processes nothing (Postboy::RunImpl, lines 72-86).
THEOREM StoppedIsAlwaysQuiet == Spec => []StoppedIsQuiet
  <1>1. IInv => StoppedIsQuiet
    BY DEF IInv, StoppedInv, StoppedIsQuiet, Leaving
  <1>2. QED BY <1>1, Invariance, PTL

\* After a request to stop or to finish at most one more call begins.
THEOREM LateCallBound == Spec => []AtMostOneLateCall
  <1>1. IInv => AtMostOneLateCall
    BY DEF IInv, LateInv, AtMostOneLateCall
  <1>2. QED BY <1>1, Invariance, PTL

\* The call number bounds the calls of Process, whatever is requested.
THEOREM CallBound == Spec => []CallsWithinLimit
  <1>1. IInv => CallsWithinLimit
    BY CallNumberFact DEF IInv, TypeOK, LimitInv, CallsWithinLimit, CallsLeft, InCall
  <1>2. QED BY <1>1, Invariance, PTL

\* Finished is published for one of RunImpl's two reasons, after the release.
THEOREM FinishedIsDue == Spec => []FinishedWhenDue
  <1>1. IInv => FinishedWhenDue
    BY DEF IInv, PhaseInv, LimitInv, ReleaseInv, FinishedWhenDue, Leaving
  <1>2. QED BY <1>1, Invariance, PTL

-----------------------------------------------------------------------------
\* What a step may do to the state, by who takes it.
LEMMA ApplyMoves ==
  ASSUME IInv, NEW c \in Callers, Apply(c)
  PROVE  \/ state' = state
         \/ /\ pc # "constructed"
            /\ UNCHANGED pc
            /\ UNCHANGED released
            /\ \/ /\ state \in {"Running", "ResumeRequested"}
                  /\ state' \in {"StopRequested", "SampleRequested", "FinishRequested"}
               \/ /\ state \in {"StopRequested", "Stopped"}
                  /\ state' \in {"ResumeRequested", "FinishRequested"}
  <1>1. /\ op[c] \in Requests
        /\ seen[c] \in Accepts(op[c])
    BY DEF IInv, TypeOK, RequestInv, Apply
  <1>2. CASE state = seen[c]
    <2>1. state' = Target(op[c]) /\ UNCHANGED <<pc, released>>
      BY <1>2 DEF Apply, StoreAndNotify, Store, workerVars
    <2>2. state # "NotInitialized"
      BY <1>1, <1>2 DEF Accepts, Requests
    <2>3. QED
      BY <1>1, <1>2, <2>1, <2>2 DEF IInv, PhaseInv, Accepts, Target, Requests
  <1>3. CASE state # seen[c]
    BY <1>3 DEF Apply, StoreAndNotify, Store
  <1>4. QED BY <1>2, <1>3

\* The steps that leave what PostboyLifecycle speaks of as it was.
LEMMA QuietSteps ==
  ASSUME IInv,
         \/ Arm("worker")
         \/ \E c \in Clients : Arm(c)
         \/ \E c \in Clients, r \in Requests : ClientInvoke(c, r)
         \/ \E w \in Waiters : WaitFinished(w) \/ WaiterStep(w)
         \/ ClockPasses \/ InputEnds
         \/ UNCHANGED vars
  PROVE  UNCHANGED <<state, pc, released>>
  BY DEF Arm, ClientInvoke, WaitFinished, WaiterStep, Look, Block, WakeWaiter, Watch,
         ClockPasses, InputEnds, vars, workerVars

\* Every step of the postboy is a step of its lifecycle, or none.
LEMMA LifecycleStep == IInv /\ [Next]_vars => [Lifecycle!LNext]_(Lifecycle!lvars)
  <1> SUFFICES ASSUME IInv, [Next]_vars
               PROVE  [Lifecycle!LNext]_(Lifecycle!lvars)
    OBVIOUS
  <1> USE DEF IInv, PhaseInv, Lifecycle!lvars, Lifecycle!LNext, Lifecycle!Move
  <1>1. CASE InitPostboy \/ Run
    BY <1>1 DEF InitPostboy, Run, Store, ReleaseInv, Lifecycle!Initialize, Lifecycle!Start
  <1>2. CASE \/ StartThread \/ Begin \/ LoadState \/ CheckDeadline \/ Park \/ Wake
             \/ Reload \/ Finalize
    <2>1. UNCHANGED state
      BY <1>2 DEF StartThread, Begin, LoadState, CheckDeadline, Park, Wake, Reload, Finalize
    <2>2. /\ pc \notin {"process", "request"}
          /\ released # "unlinked"
          /\ released' # "unlinked"
      BY <1>2 DEF StartThread, Begin, LoadState, CheckDeadline, Park, Wake, Reload,
           Finalize, ReleaseInv
    <2>3. pc' \notin {"process", "request"}
      BY <1>2, OuterFact, BranchFact, AfterTestFact
         DEF StartThread, Begin, LoadState, CheckDeadline, Park, Wake, Reload, Finalize
    <2>4. QED BY <2>1, <2>2, <2>3
  <1>3. CASE BeginProcess
    BY <1>3 DEF BeginProcess, StoppedInv, Leaving, ReleaseInv, Lifecycle!StartCall
  <1>4. CASE EndProcess
    BY <1>4 DEF EndProcess, ReleaseInv, Lifecycle!EndCall
  <1>5. CASE EndSampling \/ BeginSampling \/ ConfirmStop \/ ConfirmResume
    <2>1. /\ pc \notin {"process", "request"}
          /\ released # "unlinked"
          /\ UNCHANGED released
      BY <1>5 DEF EndSampling, BeginSampling, ConfirmStop, ConfirmResume, Exchange,
           ReleaseInv
    <2>2. pc' \notin {"process", "request"}
      BY <1>5, OuterFact, BranchFact, AfterTestFact
         DEF EndSampling, BeginSampling, ConfirmStop, ConfirmResume, Exchange
    <2>3. \/ UNCHANGED state
          \/ state = "StopRequested" /\ state' = "Stopped"
          \/ state = "ResumeRequested" /\ state' = "Running"
          \/ state = "SampleRequested" /\ state' = "Sampling"
          \/ state = "Sampling" /\ state' = "Running"
      BY <1>5 DEF EndSampling, BeginSampling, ConfirmStop, ConfirmResume, Exchange,
           StoreAndNotify, Store, LocalInv
    <2>4. QED BY <2>1, <2>2, <2>3 DEF Lifecycle!Answer
  <1>6. CASE UnlinkQueues
    BY <1>6 DEF UnlinkQueues, ReleaseInv, Lifecycle!Release
  <1>7. CASE PublishFinished
    BY <1>7 DEF PublishFinished, StoreAndNotify, Store, ReleaseInv, Lifecycle!Finish
  <1>8. CASE ProcessorInvoke
    BY <1>8 DEF ProcessorInvoke
  <1>9. ASSUME NEW c \in Callers, Apply(c)
        PROVE  [Lifecycle!LNext]_(Lifecycle!lvars)
    BY <1>9, ApplyMoves DEF Apply, workerVars, Lifecycle!AskStop, Lifecycle!AskResume,
         Lifecycle!AskSample, Lifecycle!AskFinish
  <1>10. CASE UNCHANGED <<state, pc, released>>
    BY <1>10
  <1>11. QED
    BY <1>1, <1>2, <1>3, <1>4, <1>5, <1>6, <1>7, <1>8, <1>9, <1>10, QuietSteps
       DEF Next, WorkerStep, RequestStep, Callers, Worker

\* The postboy implements its lifecycle: only the transitions listed there
\* happen, each by whom it allows, and Process runs only when it may.
THEOREM PostboyImplementsLifecycle == Spec => LifecycleSpec
  <1>1. Init => Lifecycle!LInit
    BY DEF Init, Lifecycle!LInit
  <1>2. QED
    BY <1>1, LifecycleStep, Invariance, PTL DEF Spec, LifecycleSpec, Lifecycle!LSpec

\* A request to finish, once state_ shows it, is never taken back.
THEOREM FinishIsNeverTakenBack == Spec => FinishIsIrrevocable
  <1>1. ASSUME IInv, [Next]_vars
        PROVE  /\ state = "FinishRequested" => state' \in {"FinishRequested", "Finished"}
               /\ state = "Finished" => state' = "Finished"
    BY <1>1, LifecycleStep
       DEF Lifecycle!lvars, Lifecycle!LNext, Lifecycle!Move, Lifecycle!Initialize,
         Lifecycle!Start, Lifecycle!AskStop, Lifecycle!AskResume, Lifecycle!AskSample,
         Lifecycle!AskFinish, Lifecycle!Answer, Lifecycle!StartCall, Lifecycle!EndCall,
         Lifecycle!Release, Lifecycle!Finish
  <1>2. QED
    BY <1>1, Invariance, PTL DEF Spec, FinishIsIrrevocable
=============================================================================
