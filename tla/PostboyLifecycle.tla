-------------------------- MODULE PostboyLifecycle --------------------------
(***************************************************************************)
(* What a postboy promises whoever controls it, without saying how the     *)
(* worker thread and the control threads agree on it: the ten states of    *)
(* PostboyState, who may move the postboy from one to the next, when a     *)
(* call of Processor::Process may be in progress, and when the processor   *)
(* is finalised and unlinked from its queues.  Module Postboy implements   *)
(* it with one atomic variable and compare-exchange loops.                 *)
(***************************************************************************)

VARIABLES
  state,    \* the postboy's PostboyState
  busy,     \* a call of Processor::Process is in progress
  released  \* the processor is finalised and unlinked from its queues

lvars == <<state, busy, released>>

PostboyStates ==
  { "NotInitialized", "Initialized", "Running", "StopRequested", "Stopped",
    "ResumeRequested", "FinishRequested", "Finished", "SampleRequested",
    "Sampling" }

LTypeOK ==
  /\ state \in PostboyStates
  /\ busy \in BOOLEAN
  /\ released \in BOOLEAN

LInit ==
  /\ state = "NotInitialized"
  /\ busy = FALSE
  /\ released = FALSE

Move(from, to) ==
  /\ state \in from
  /\ state' = to
  /\ UNCHANGED <<busy, released>>

Initialize == Move({"NotInitialized"}, "Initialized")
Start      == Move({"Initialized"}, "Running")

\* The four requests.  Nothing asks a sampling postboy for anything, and
\* nothing takes a request to finish back.
AskStop   == Move({"Running", "ResumeRequested"}, "StopRequested")
AskResume == Move({"StopRequested", "Stopped"}, "ResumeRequested")
AskSample == Move({"Running", "ResumeRequested"}, "SampleRequested")
AskFinish == Move({"Running", "StopRequested", "Stopped", "ResumeRequested"},
                  "FinishRequested")

\* The worker's answers: each is given between two calls of Process.
Answer ==
  /\ ~busy
  /\ \/ Move({"StopRequested"}, "Stopped")
     \/ Move({"ResumeRequested"}, "Running")
     \/ Move({"SampleRequested"}, "Sampling")
     \/ Move({"Sampling"}, "Running")

\* A call starts only while the postboy is neither stopped nor released.
StartCall ==
  /\ ~busy
  /\ ~released
  /\ state \notin {"NotInitialized", "Initialized", "Stopped", "Finished"}
  /\ busy' = TRUE
  /\ UNCHANGED <<state, released>>

EndCall ==
  /\ busy
  /\ busy' = FALSE
  /\ UNCHANGED <<state, released>>

Release ==
  /\ ~busy
  /\ state \notin {"NotInitialized", "Initialized", "Finished"}
  /\ released' = TRUE
  /\ UNCHANGED <<state, busy>>

Finish ==
  /\ released
  /\ state # "Finished"
  /\ state' = "Finished"
  /\ UNCHANGED <<busy, released>>

LNext ==
  \/ Initialize \/ Start
  \/ AskStop \/ AskResume \/ AskSample \/ AskFinish
  \/ Answer \/ StartCall \/ EndCall \/ Release \/ Finish

LSpec == LInit /\ [][LNext]_lvars
=============================================================================
