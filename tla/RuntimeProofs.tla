---------------------------- MODULE RuntimeProofs ----------------------------
(***************************************************************************)
(* Three results, for any number of handlers, any configuration, bindings  *)
(* and requests.                                                           *)
(*                                                                         *)
(* What exists is listed: a thread that is going to insert a postboy or a  *)
(* binding has listed its name before, and names are never taken off.      *)
(*                                                                         *)
(* The counts are the links, and listed bindings are complete, as long as  *)
(* no two actors come to one slot at once: the slot at which an actor is   *)
(* looks as that actor left it, so what a thread tested before it began is *)
(* still so, and each step changes one slot and one count.                 *)
(***************************************************************************)
EXTENDS Runtime, FiniteSetTheorems, SequenceTheorems, TLAPS

\* The positions of a thread in which it links the slots of a binding.
AtLink == {"link"} \cup Setting

\* The positions of a thread between the listing of a name and its insertion;
\* the main thread constructs a postboy, and links a binding, before it lists it.
PostboyListed(t) ==
  \/ th[t].pc \in {"initMetrics", "init", "insertPostboy"}
  \/ th[t].pc = "construct" /\ t # Main
BindingListed(t) ==
  \/ th[t].pc = "insertBinding"
  \/ th[t].pc \in {"setup"} \cup AtLink /\ t # Main

Ready(t) ==
  /\ PostboyListed(t) => th[t].job \in listed.postboy
  /\ BindingListed(t) => th[t].job.name \in listed.binding

Fields == {"pc", "job", "at", "weak"}

ShapeInv ==
  /\ DOMAIN th = Actors /\ \A a \in Actors : DOMAIN th[a] = Fields
  /\ DOMAIN listed = {"postboy", "binding"}

IInv == ShapeInv /\ ExistingIsListed /\ \A t \in Threads : Ready(t)

\* Nobody but a moves, and nothing is taken off the list.
OnlyMoves(a) ==
  /\ ShapeInv'
  /\ \A u \in Actors \ {a} : th'[u] = th[u]
  /\ listed.postboy \subseteq listed'.postboy /\ listed.binding \subseteq listed'.binding

Critical == {"construct", "initMetrics", "init", "insertPostboy",
            "setup", "insertBinding"} \cup AtLink

LEMMA ActorsFact ==
  /\ Threads \subseteq Actors /\ Workers \subseteq Actors /\ Main \in Threads
  /\ Actors = Threads \cup Workers /\ Handlers \subseteq Threads
  /\ Main \notin Handlers /\ Threads \cap Workers = {}
  BY RuntimeAssumption DEF Actors, Threads, Workers

LEMMA LabelsFact ==
  /\ AtLink = {"link", "clear", "decrease", "reset", "forget", "point", "increase",
              "hold", "clearInput", "holdInput"}
  /\ Critical = {"construct", "initMetrics", "init", "insertPostboy", "setup", "insertBinding",
                "link", "clear", "decrease", "reset", "forget", "point", "increase",
                "hold", "clearInput", "holdInput"}
  BY DEF AtLink, Critical, Setting

-----------------------------------------------------------------------------
LEMMA InitInv == Init => IInv
  <1> SUFFICES ASSUME Init PROVE IInv
    OBVIOUS
  <1>1. \A a \in Actors : th[a] \in {Thread("collect"), Thread("idle"), Thread("none")}
    BY DEF Init
  <1>2. \A a \in Actors : DOMAIN th[a] = Fields /\ th[a].pc \in {"collect", "idle", "none"}
    <2>1. \A l : DOMAIN Thread(l) = Fields /\ Thread(l).pc = l
      BY DEF Thread, Fields
    <2> QED BY <1>1, <2>1
  <1>3. ShapeInv
    BY <1>2 DEF Init, ShapeInv
  <1>4. \A t \in Threads : Ready(t)
    BY <1>2, LabelsFact, ActorsFact DEF Ready, PostboyListed, BindingListed
  <1>5. ExistingIsListed
    BY DEF Init, ExistingIsListed
  <1> QED BY <1>3, <1>4, <1>5 DEF IInv

\* How the ways to move an actor change it.
LEMMA GotoFact ==
  ASSUME ShapeInv, UNCHANGED listed, NEW a \in Actors, NEW l,
         \/ Goto(a, l)
         \/ \E i : th' = [th EXCEPT ![a].at = i, ![a].pc = l]
  PROVE  OnlyMoves(a) /\ th'[a].pc = l /\ th'[a].job = th[a].job /\ th'[a].weak = th[a].weak
  BY DEF ShapeInv, Goto, OnlyMoves, Fields

LEMMA NextAtFact ==
  ASSUME ShapeInv, UNCHANGED listed, NEW a \in Actors, NEW i, th' = [th EXCEPT ![a].at = i]
  PROVE  OnlyMoves(a) /\ th'[a].pc = th[a].pc /\ th'[a].job = th[a].job
         /\ th'[a].at = i /\ th'[a].weak = th[a].weak
  BY DEF ShapeInv, OnlyMoves, Fields

LEMMA DoneFact ==
  ASSUME ShapeInv, UNCHANGED listed, NEW a \in Actors, Done(a)
  PROVE  OnlyMoves(a) /\ th'[a].pc \in {"prepare", "idle"}
  BY DEF ShapeInv, Done, Thread, OnlyMoves, Fields

LEMMA ExitFact ==
  ASSUME ShapeInv, UNCHANGED listed, Exit
  PROVE  ShapeInv' /\ \A a \in Actors : th'[a].pc = "exited"
  BY DEF ShapeInv, Exit, Thread, Fields

\* The invariant is kept by an actor that ends up ready, and inserts what it has
\* listed or nothing; and by the end of the process.
LEMMA MoveKeepsInv ==
  ASSUME IInv, NEW a \in Actors, OnlyMoves(a), a \in Threads => Ready(a)', ExistingIsListed'
  PROVE  IInv'
  <1>1. \A u \in Threads : Ready(u)'
    BY ActorsFact DEF IInv, OnlyMoves, Ready, PostboyListed, BindingListed
  <1> QED BY <1>1 DEF IInv, OnlyMoves

LEMMA IdleIsReady ==
  ASSUME NEW t, th'[t].pc \notin Critical PROVE Ready(t)'
  BY DEF Ready, PostboyListed, BindingListed, Critical

LEMMA MapsKept ==
  ASSUME ExistingIsListed, UNCHANGED maps PROVE ExistingIsListed'
  BY DEF ExistingIsListed, maps

LEMMA ExitKeepsInv ==
  ASSUME IInv, UNCHANGED maps, Exit PROVE IInv'
  <1>1. ShapeInv' /\ \A a \in Actors : th'[a].pc = "exited"
    BY ExitFact DEF IInv, maps
  <1>2. \A t \in Threads : Ready(t)'
    BY <1>1, ActorsFact, LabelsFact DEF Ready, PostboyListed, BindingListed
  <1> QED BY <1>1, <1>2, MapsKept DEF IInv

\* The steps that neither list nor insert anything.
LEMMA DoneKeepsInv ==
  ASSUME IInv, UNCHANGED maps, NEW a \in Actors, Done(a) PROVE IInv'
  <1>1. OnlyMoves(a) /\ th'[a].pc \notin Critical
    BY DoneFact, LabelsFact DEF IInv, maps
  <1> QED BY <1>1, IdleIsReady, MapsKept, MoveKeepsInv DEF IInv

LEMMA ThrowKeepsInv ==
  ASSUME IInv, UNCHANGED maps, NEW a \in Actors, Throw(a) PROVE IInv'
  BY DoneKeepsInv, ExitKeepsInv DEF Throw

\* Where an actor may go to without being less ready.
Prepares(a, l) ==
  \/ a \in Workers
  \/ l \notin Critical
  \/ l \in {"initMetrics", "init", "insertPostboy"} /\ PostboyListed(a)
  \/ l \in AtLink /\ th[a].pc \in {"setup"} \cup AtLink
  \/ l = "insertBinding" /\ BindingListed(a)

LEMMA GotoKeepsInv ==
  ASSUME IInv, UNCHANGED maps, NEW a \in Actors, NEW l, Prepares(a, l),
         \/ Goto(a, l)
         \/ \E i : th' = [th EXCEPT ![a].at = i, ![a].pc = l]
  PROVE  IInv'
  <1>1. OnlyMoves(a) /\ th'[a].pc = l /\ th'[a].job = th[a].job /\ UNCHANGED listed
    BY GotoFact DEF IInv, maps
  <1>2. a \in Threads => Ready(a)
    BY DEF IInv
  <1>3. a \in Threads => Ready(a)'
    BY <1>1, <1>2, ActorsFact, LabelsFact DEF Ready, PostboyListed, BindingListed, Prepares
  <1> QED BY <1>1, <1>3, MapsKept, MoveKeepsInv DEF IInv

LEMMA NextAtKeepsInv ==
  ASSUME IInv, UNCHANGED maps, NEW a \in Actors, NEW i, th' = [th EXCEPT ![a].at = i]
  PROVE  IInv'
  <1>1. OnlyMoves(a) /\ th'[a].pc = th[a].pc /\ th'[a].job = th[a].job /\ UNCHANGED listed
    BY NextAtFact DEF IInv, maps
  <1>2. a \in Threads => Ready(a)'
    BY <1>1 DEF IInv, Ready, PostboyListed, BindingListed
  <1> QED BY <1>1, <1>2, MapsKept, MoveKeepsInv DEF IInv

-----------------------------------------------------------------------------
LEMMA MainKeepsInv ==
  ASSUME IInv, MainStep PROVE IInv'
  <1>1. Main \in Actors /\ ShapeInv
    BY ActorsFact DEF IInv
  <1>2. CASE Collect \/ ValidateGraph \/ AllRun \/ WaitFinished
    BY <1>1, <1>2, GotoKeepsInv, ExitKeepsInv, LabelsFact
       DEF Collect, ValidateGraph, AllRun, WaitFinished, KeepAll, Prepares
  <1>3. CASE RunPrepared
    <2>1. CASE Exit
      BY <1>3, <2>1, ExitKeepsInv DEF RunPrepared
    <2>2. CASE UNCHANGED th
      BY <1>3, <2>2, MapsKept DEF RunPrepared, IInv, ShapeInv, maps, Ready,
         PostboyListed, BindingListed
    <2> QED BY <1>3, <2>1, <2>2 DEF RunPrepared
  <1>4. CASE NextPostboy \/ NextBinding
    <2>1. UNCHANGED maps
      BY <1>4 DEF NextPostboy, NextBinding
    <2>2. OnlyMoves(Main) /\ th'[Main].pc \in {"construct", "setup"}
      BY <1>1, <1>4 DEF NextPostboy, NextBinding, OnlyMoves, ShapeInv, Fields, maps
    <2>3. Ready(Main)'
      BY <2>2, LabelsFact DEF Ready, PostboyListed, BindingListed
    <2> QED BY <1>1, <2>1, <2>2, <2>3, MapsKept, MoveKeepsInv DEF IInv
  <1>5. CASE RunNext
    BY <1>1, <1>5, GotoKeepsInv, LabelsFact DEF RunNext, KeepAll, Prepares
  <1> QED BY <1>2, <1>3, <1>4, <1>5 DEF MainStep

\* A name is listed.
LEMMA ListKeepsInv ==
  ASSUME IInv, NEW t \in Threads, NEW l, Goto(t, l), UNCHANGED <<postboys, bindings>>,
         \/ /\ listed' = [listed EXCEPT !.postboy = @ \cup {th[t].job}]
            /\ l \in {"initMetrics", "construct"}
         \/ /\ listed' = [listed EXCEPT !.binding = @ \cup {th[t].job.name}]
            /\ l \in {"insertBinding", "setup"}
  PROVE  IInv'
  <1>1. /\ DOMAIN listed' = {"postboy", "binding"}
        /\ listed.postboy \subseteq listed'.postboy /\ listed.binding \subseteq listed'.binding
        /\ l \in {"initMetrics", "construct"} => th[t].job \in listed'.postboy
        /\ l \in {"insertBinding", "setup"} => th[t].job.name \in listed'.binding
    BY DEF IInv, ShapeInv
  <1>2. OnlyMoves(t) /\ th'[t].job = th[t].job /\ th'[t].pc = l
    BY <1>1, ActorsFact DEF IInv, ShapeInv, Goto, OnlyMoves, Fields
  <1>3. Ready(t)'
    BY <1>1, <1>2, LabelsFact DEF Ready, PostboyListed, BindingListed
  <1>4. ExistingIsListed'
    BY <1>1 DEF IInv, ExistingIsListed
  <1> QED BY <1>2, <1>3, <1>4, ActorsFact, MoveKeepsInv

LEMMA CreateKeepsInv ==
  ASSUME IInv, NEW t \in Threads, Create(t) PROVE IInv'
  <1>0. t \in Actors
    BY ActorsFact
  <1>1. CASE FindPostboy(t)
    BY <1>0, <1>1, DoneKeepsInv, GotoKeepsInv, LabelsFact DEF FindPostboy, KeepAll, Prepares
  <1>2. CASE EnsurePostboy(t)
    BY <1>0, <1>2, ThrowKeepsInv, ListKeepsInv DEF EnsurePostboy, maps
  <1>3. CASE Construct(t)
    <2>1. th[t].pc = "construct" /\ UNCHANGED maps
      BY <1>3 DEF Construct, At
    <2> DEFINE l == IF t = Main THEN "ensurePostboy" ELSE "initMetrics"
    <2>2. \E i : th' = [th EXCEPT ![t].at = i, ![t].pc = l]
      BY <1>3 DEF Construct
    <2>3. Prepares(t, l)
      BY <2>1, LabelsFact DEF Prepares, PostboyListed
    <2> QED BY <1>0, <2>1, <2>2, <2>3, GotoKeepsInv
  <1>4. CASE InitMetrics(t)
    BY <1>0, <1>4, ExitKeepsInv, GotoKeepsInv DEF InitMetrics, At, PostboyListed, Prepares
  <1>5. CASE InitPostboy(t)
    BY <1>0, <1>5, ThrowKeepsInv, GotoKeepsInv DEF InitPostboy, At, PostboyListed, Prepares
  <1>6. CASE InsertPostboy(t)
    <2>1. th[t].job \in listed.postboy /\ UNCHANGED <<listed, bindings>>
      BY <1>6 DEF InsertPostboy, At, IInv, Ready, PostboyListed
    <2>2. DOMAIN postboys' = DOMAIN postboys \cup {th[t].job}
      BY <1>6 DEF InsertPostboy, With
    <2>3. ExistingIsListed'
      BY <2>1, <2>2 DEF IInv, ExistingIsListed
    <2>4. OnlyMoves(t) /\ th'[t].pc \notin Critical
      BY <1>0, <1>6, <2>1, DoneFact, LabelsFact DEF InsertPostboy, IInv
    <2> QED BY <1>0, <2>3, <2>4, IdleIsReady, MoveKeepsInv
  <1> QED BY <1>1, <1>2, <1>3, <1>4, <1>5, <1>6 DEF Create

\* The steps by which an actor sets or clears a slot.
SlotStep(a) ==
  Clear(a) \/ Decrease(a) \/ Reset(a) \/ Forget(a) \/ (a \in Threads /\ SetImpl(a))

LEMMA SlotKeepsInv ==
  ASSUME IInv, NEW a \in Actors, SlotStep(a) PROVE IInv'
  <1>1. UNCHANGED maps /\ th[a].pc \in Setting
    BY DEF SlotStep, Clear, Decrease, Reset, Forget, SetImpl, Point, Increase, Hold, ClearInput,
       KeepAll, KeepRest, At, Setting
  <1>2. \A l \in AtLink : Prepares(a, l)
    BY <1>1 DEF Prepares, AtLink
  <1>3. CASE a \in Workers
    <2>1. Exit \/ (a \in Handlers /\ Done(a)) \/ \E l, i : Goto(a, l) \/ th' = [th EXCEPT ![a].at = i, ![a].pc = l]
      BY <1>3, ActorsFact DEF SlotStep, Clear, Decrease, Reset, Forget, SetImpl, Throw
    <2> QED BY <1>1, <1>3, <2>1, ExitKeepsInv, DoneKeepsInv, GotoKeepsInv DEF Prepares
  <1>4. CASE a \in Threads
    <2>1. \/ Exit \/ Throw(a)
          \/ \E l \in AtLink : Goto(a, l)
          \/ \E i : th' = [th EXCEPT ![a].at = i, ![a].pc = "link"]
      <3>1. a \notin Workers
        BY <1>4, ActorsFact
      <3>2. CASE Clear(a) \/ Decrease(a) \/ Reset(a)
        BY <3>2, LabelsFact DEF Clear, Decrease, Reset
      <3>3. CASE Forget(a)
        BY <1>4, <3>1, <3>3, LabelsFact DEF Forget
      <3>4. CASE SetImpl(a)
        BY <3>4, LabelsFact DEF SetImpl, Point, Increase, Hold, ClearInput
      <3> QED BY <3>2, <3>3, <3>4 DEF SlotStep
    <2> QED BY <1>1, <1>2, <2>1, ExitKeepsInv, ThrowKeepsInv, GotoKeepsInv, LabelsFact
  <1> QED BY <1>3, <1>4, ActorsFact

LEMMA BindKeepsInv ==
  ASSUME IInv, NEW t \in Threads, Bind(t) PROVE IInv'
  <1>0. t \in Actors
    BY ActorsFact
  <1>1. CASE FindBinding(t)
    BY <1>0, <1>1, DoneKeepsInv, GotoKeepsInv, LabelsFact DEF FindBinding, KeepAll, Prepares
  <1>2. CASE EnsureBinding(t)
    BY <1>0, <1>2, ThrowKeepsInv, ListKeepsInv DEF EnsureBinding, maps
  <1>3. CASE Setup(t)
    <2>1. UNCHANGED maps /\ th[t].pc = "setup"
      BY <1>3 DEF Setup, At
    <2>2. CASE Throw(t) \/ Exit
      BY <1>0, <2>1, <2>2, ThrowKeepsInv, ExitKeepsInv
    <2>3. CASE \E w : th' = [th EXCEPT ![t].weak = w, ![t].at = 0, ![t].pc = "link"]
      <3>1. OnlyMoves(t) /\ th'[t].pc = "link" /\ th'[t].job = th[t].job /\ UNCHANGED listed
        BY <1>0, <2>1, <2>3 DEF OnlyMoves, IInv, ShapeInv, Fields, maps
      <3>2. Ready(t)'
        BY <2>1, <3>1 DEF IInv, Ready, PostboyListed, BindingListed
      <3> QED BY <1>0, <2>1, <3>1, <3>2, MapsKept, MoveKeepsInv DEF IInv
    <2> QED BY <1>3, <2>2, <2>3 DEF Setup
  <1>4. CASE LinkNobody(t)
    BY <1>4, ExitKeepsInv DEF LinkNobody, KeepAll
  <1>5. CASE TestSlot(t)
    <2>1. th[t].pc = "link" /\ UNCHANGED maps
      BY <1>5 DEF TestSlot, Linking, At, KeepAll
    <2>2. CASE \E i : th' = [th EXCEPT ![t].at = i]
      BY <1>0, <2>1, <2>2, NextAtKeepsInv
    <2>3. CASE Throw(t)
      BY <1>0, <2>1, <2>3, ThrowKeepsInv
    <2>4. CASE Goto(t, Begin(NextEnd(t)))
      <3>1. Prepares(t, Begin(NextEnd(t)))
        BY <2>1, LabelsFact DEF Prepares, Begin
      <3> QED BY <1>0, <2>1, <2>4, <3>1, GotoKeepsInv
    <2> QED BY <1>5, <2>2, <2>3, <2>4 DEF TestSlot
  <1>6. CASE SetImpl(t)
    BY <1>0, <1>6, SlotKeepsInv DEF SlotStep
  <1>7. CASE AllLinked(t)
    <2>1. th[t].pc = "link" /\ UNCHANGED maps
      BY <1>7 DEF AllLinked, At, KeepAll
    <2>2. CASE t = Main
      BY <1>0, <1>7, <2>1, <2>2, GotoKeepsInv, LabelsFact DEF AllLinked, Prepares
    <2>3. CASE t # Main
      BY <1>0, <1>7, <2>1, <2>3, GotoKeepsInv, LabelsFact DEF AllLinked, BindingListed, Prepares
    <2> QED BY <2>2, <2>3
  <1>8. CASE InsertBinding(t)
    <2>1. th[t].job.name \in listed.binding /\ UNCHANGED <<listed, postboys>>
      BY <1>8 DEF InsertBinding, At, IInv, Ready, BindingListed
    <2>2. DOMAIN bindings' = DOMAIN bindings \cup {th[t].job.name}
      BY <1>8 DEF InsertBinding, With
    <2>3. ExistingIsListed'
      BY <2>1, <2>2 DEF IInv, ExistingIsListed
    <2>4. OnlyMoves(t) /\ th'[t].pc \notin Critical
      BY <1>0, <1>8, <2>1, DoneFact, LabelsFact DEF InsertBinding, IInv
    <2> QED BY <1>0, <2>3, <2>4, IdleIsReady, MoveKeepsInv
  <1> QED BY <1>1, <1>2, <1>3, <1>4, <1>5, <1>6, <1>7, <1>8 DEF Bind

\* A postboy is started: besides the thread t, its worker o moves.
LEMMA StartFact ==
  ASSUME ShapeInv, UNCHANGED listed, NEW t \in Threads, NEW o \in Workers, o = th[t].at,
         StartThread(t)
  PROVE  /\ ShapeInv' /\ th'[t].pc \in {"run", "idle"}
         /\ \A a \in Actors \ {t, o} : th'[a] = th[a]
         /\ \/ th'[o] = th[o] /\ heap[o].threads # 0
            \/ /\ th'[o].pc = "process" /\ th'[o].at = th[o].at
               /\ heap[o].threads = 0 \/ th[o].pc = "finished"
  <1>1. t \in Actors /\ o \in Actors /\ t # o
    BY ActorsFact
  <1>2. PICK next : next = Thread(IF t = Main THEN "run" ELSE "idle")
    OBVIOUS
  <1>3. DOMAIN next = Fields /\ next.pc \in {"run", "idle"}
    BY <1>2 DEF Thread, Fields
  <1>4. IF heap[o].threads = 0 \/ Ended(o)
          THEN th' = [th EXCEPT ![t] = next, ![o].pc = "process"]
          ELSE th' = [th EXCEPT ![t] = next]
    BY <1>2 DEF StartThread
  <1> QED BY <1>1, <1>3, <1>4 DEF ShapeInv, Fields, Ended

LEMMA RunKeepsInv ==
  ASSUME IInv, NEW t \in Threads, th[t].pc \in RunPositions => th[t].at \in Workers, Run(t)
  PROVE  IInv'
  <1>0. t \in Actors
    BY ActorsFact
  <1>1. CASE FindToRun(t)
    BY <1>0, <1>1, DoneKeepsInv, GotoKeepsInv, LabelsFact DEF FindToRun, KeepAll, Prepares
  <1>2. CASE CheckState(t)
    BY <1>0, <1>2, DoneKeepsInv, GotoKeepsInv, LabelsFact DEF CheckState, KeepAll, Prepares
  <1>3. CASE EnsureState(t) \/ EnsureNoThread(t)
    BY <1>0, <1>3, ThrowKeepsInv, GotoKeepsInv, LabelsFact
       DEF EnsureState, EnsureNoThread, KeepAll, Prepares
  <1>4. CASE StoreRunning(t) \/ JoinThread(t)
    BY <1>0, <1>4, GotoKeepsInv, LabelsFact DEF StoreRunning, JoinThread, KeepAll, Prepares
  <1>5. CASE StartThread(t)
    <2>1. UNCHANGED maps /\ th[t].at \in Workers
      BY <1>5 DEF StartThread, AtLiving, At, RunPositions
    <2>2. PICK o \in Workers : o = th[t].at
      BY <2>1
    <2>3. /\ ShapeInv' /\ th'[t].pc \in {"run", "idle"}
          /\ \A a \in Actors \ {t, o} : th'[a] = th[a]
      BY <1>5, <2>1, <2>2, StartFact DEF IInv, maps
    <2>4. \A u \in Threads \ {t} : th'[u] = th[u]
      BY <2>3, ActorsFact
    <2>5. Ready(t)'
      BY <2>3, IdleIsReady, LabelsFact
    <2>6. \A u \in Threads : Ready(u)'
      BY <2>1, <2>4, <2>5 DEF IInv, Ready, PostboyListed, BindingListed, maps
    <2> QED BY <2>1, <2>3, <2>6, MapsKept DEF IInv
  <1>6. CASE RunNobody(t)
    BY <1>6, ExitKeepsInv DEF RunNobody, KeepAll
  <1> QED BY <1>1, <1>2, <1>3, <1>4, <1>5, <1>6 DEF Run

LEMMA RequestKeepsInv ==
  ASSUME IInv, NEW t \in Handlers, NEW what,
         NEW l \in {"findPostboy", "findBinding", "findToRun"}, Request(t, l, what)
  PROVE  IInv'
  <1>1. t \in Threads /\ t \in Actors /\ UNCHANGED maps
    BY ActorsFact DEF Request, KeepAll
  <1>2. OnlyMoves(t) /\ th'[t].pc \notin Critical
    BY <1>1, LabelsFact DEF Request, OnlyMoves, IInv, ShapeInv, Fields, maps
  <1> QED BY <1>1, <1>2, IdleIsReady, MapsKept, MoveKeepsInv DEF IInv

LEMMA WorkKeepsInv ==
  ASSUME IInv, NEW o \in Workers, Work(o) \/ Destroy(o) PROVE IInv'
  <1>1. o \in Actors /\ UNCHANGED maps
    BY ActorsFact DEF Work, LeaveLoop, UnlinkInput, TestOutput, Finish, Destroy, KeepAll, KeepRest
  <1>2. \/ Exit \/ UNCHANGED th
        \/ \E l, i : Goto(o, l) \/ th' = [th EXCEPT ![o].at = i, ![o].pc = l]
        \/ \E i : th' = [th EXCEPT ![o].at = i]
    BY DEF Work, LeaveLoop, UnlinkInput, TestOutput, Finish, Destroy
  <1>3. CASE UNCHANGED th
    BY <1>1, <1>3, MapsKept DEF IInv, ShapeInv, maps, Ready, PostboyListed, BindingListed
  <1> QED BY <1>1, <1>2, <1>3, ExitKeepsInv, GotoKeepsInv, NextAtKeepsInv DEF Prepares
-----------------------------------------------------------------------------
(* What threads and workers have in their hands.                            *)

Born == {o \in Workers : heap[o].state # "unborn"}

States == {"unborn", "NotInitialized", "Initialized", "Running", "Finished"}

HeapInv ==
  /\ heap \in [Workers -> [name : Names \cup {None}, state : States, threads : Nat]]
  /\ \A o \in Born : heap[o].name \in Names
  /\ impl \in [Slots -> 0 .. queues] /\ queue \in [Slots -> 0 .. queues]
  /\ producers \in [Queues -> Int] /\ queues \in 0 .. MaxQueues /\ single \subseteq 1 .. queues

\* A binding with its weak pointers and its queue.
Bound(b, w) == w.queue \in 1 .. queues /\ \A n \in Named(b) : w.to[n] \in Workers

MapInv ==
  /\ todo \in [prepared : Seq(Names), postboy : Seq(Names), binding : Seq(BindingConfigs)]
  /\ \A n \in DOMAIN postboys : postboys[n] \in Born
  /\ \A n \in DOMAIN bindings : /\ bindings[n].config \in BindingConfigs
                                /\ Bound(bindings[n].config, bindings[n].weak)

\* Thread t has a binding: to link it, while it does, or linked at all its ends.
ToLink(t) ==
  \/ th[t].pc \in {"findBinding", "setup"}
  \/ th[t].pc = "ensureBinding" /\ t # Main
Links(t) == th[t].pc \in AtLink
HasLinked(t) ==
  \/ th[t].pc = "insertBinding"
  \/ th[t].pc = "ensureBinding" /\ t = Main

\* It has a postboy that is born.
HasPostboy(t) ==
  \/ th[t].pc \in {"initMetrics", "init", "insertPostboy"} \cup RunPositions
  \/ th[t].pc = "ensurePostboy" /\ t = Main

FitLink(t) ==
  /\ th[t].at \in 0 .. Len(Ends[th[t].job])
  /\ th[t].pc \in Setting =>
       /\ th[t].at < Len(Ends[th[t].job]) /\ Exists(NextEnd(t))
       /\ NextEnd(t).side = IF th[t].pc \in {"clearInput", "holdInput"} THEN "in" ELSE "out"

Fit(t) ==
  /\ th[t].pc \in {"findPostboy", "findBinding"} => t # Main
  /\ th[t].pc \in {"findPostboy", "ensurePostboy", "construct"} => th[t].job \in Names
  /\ HasPostboy(t) => th[t].at \in Born
  /\ ToLink(t) \/ Links(t) \/ HasLinked(t) => th[t].job \in BindingConfigs
  /\ Links(t) \/ HasLinked(t) => Bound(th[t].job, th[t].weak)
  /\ Links(t) => FitLink(t)

WorkerLabels == {"none", "process", "unlinkInputs", "testOutputs", "clear", "decrease",
                 "reset", "forget", "finish", "finished", "exited"}

FitWorker(o) ==
  /\ th[o].pc \in WorkerLabels
  /\ th[o].pc \notin {"none", "exited"} => o \in Born /\ heap[o].threads > 0
  /\ th[o].pc \in {"testOutputs", "clear", "decrease", "reset", "forget"} =>
       th[o].at \in DOMAIN Outputs[heap[o].name]
  /\ th[o].pc = "unlinkInputs" => th[o].at \in DOMAIN Inputs[heap[o].name]

TInv == HeapInv /\ MapInv /\ (\A t \in Threads : Fit(t)) /\ \A o \in Workers : FitWorker(o)

\* What is in the hands of somebody stays what it is.
Grows ==
  /\ Born \subseteq Born' /\ 1 .. queues \subseteq 1 .. queues'
  /\ \A o \in Born : heap'[o].name = heap[o].name /\ heap'[o].threads >= heap[o].threads

Settled == HeapInv' /\ MapInv' /\ Grows

-----------------------------------------------------------------------------
LEMMA SidesFact ==
  \A n \in Names :
    /\ DOMAIN Inputs[n] = 1 .. Len(Inputs[n]) /\ Len(Inputs[n]) \in Nat
    /\ DOMAIN Outputs[n] = 1 .. Len(Outputs[n]) /\ Len(Outputs[n]) \in Nat
    /\ (Inputs[n] # <<>> => 1 \in DOMAIN Inputs[n])
    /\ (Outputs[n] # <<>> => 1 \in DOMAIN Outputs[n])
  <1> SUFFICES ASSUME NEW n \in Names, NEW l, l = Inputs[n] \/ l = Outputs[n]
               PROVE  DOMAIN l = 1 .. Len(l) /\ Len(l) \in Nat /\ (l # <<>> => 1 \in DOMAIN l)
    OBVIOUS
  <1>1. l \in Seq(STRING)
    BY RuntimeAssumption
  <1>2. DOMAIN l = 1 .. Len(l) /\ Len(l) \in Nat
    BY <1>1, LenProperties
  <1>3. l # <<>> => Len(l) # 0
    BY <1>1, EmptySeq
  <1> QED BY <1>2, <1>3

LEMMA BoundKept ==
  ASSUME 1 .. queues \subseteq 1 .. queues', NEW b, NEW w, Bound(b, w) PROVE Bound(b, w)'
  BY DEF Bound

LEMMA QuietGrows ==
  ASSUME HeapInv, UNCHANGED heap, 1 .. queues \subseteq 1 .. queues'
  PROVE  Grows
  BY DEF HeapInv, Grows, Born

LEMMA MapsSettle ==
  ASSUME MapInv, Grows, UNCHANGED <<postboys, bindings>>, UNCHANGED todo \/
         todo' \in [prepared : Seq(Names), postboy : Seq(Names), binding : Seq(BindingConfigs)]
  PROVE  MapInv'
  BY BoundKept DEF MapInv, Grows

\* Nothing that somebody may have in hands changes, but slots and counts.
LEMMA SlotsSettle ==
  ASSUME TInv, UNCHANGED <<heap, postboys, bindings, single, queues>>, UNCHANGED todo \/
         todo' \in [prepared : Seq(Names), postboy : Seq(Names), binding : Seq(BindingConfigs)],
         impl' \in [Slots -> 0 .. queues], queue' \in [Slots -> 0 .. queues],
         producers' \in [Queues -> Int]
  PROVE  Settled
  <1>1. Grows
    BY QuietGrows DEF TInv
  <1>2. HeapInv'
    BY DEF TInv, HeapInv, Born
  <1> QED BY <1>1, <1>2, MapsSettle DEF TInv, Settled

LEMMA QuietSettles ==
  ASSUME TInv, UNCHANGED <<heap, postboys, bindings, single, queues, slots>>, UNCHANGED todo \/
         todo' \in [prepared : Seq(Names), postboy : Seq(Names), binding : Seq(BindingConfigs)]
  PROVE  Settled
  BY SlotsSettle DEF TInv, HeapInv, slots

\* A postboy changes its state, or is started.
LEMMA HeapSettles ==
  ASSUME TInv, UNCHANGED <<todo, postboys, bindings, single, queues, slots>>, NEW o \in Workers,
         NEW r \in [name : Names \cup {None}, state : States, threads : Nat],
         heap' = [heap EXCEPT ![o] = r], r.state # "unborn", r.name \in Names,
         r.threads >= heap[o].threads, r.name = heap[o].name \/ heap[o].state = "unborn"
  PROVE  Settled /\ o \in Born' /\ \A p \in Workers \ {o} : heap'[p] = heap[p]
  <1>1. /\ heap' \in [Workers -> [name : Names \cup {None}, state : States, threads : Nat]]
        /\ heap'[o] = r /\ \A p \in Workers \ {o} : heap'[p] = heap[p]
    BY DEF TInv, HeapInv
  <1>2. HeapInv' /\ Grows
    BY <1>1 DEF TInv, HeapInv, Born, Grows, slots
  <1>3. o \in Born'
    BY <1>1 DEF Born
  <1> QED BY <1>1, <1>2, <1>3, MapsSettle DEF TInv, Settled

LEMMA FitKept ==
  ASSUME TInv, Settled, NEW t \in Threads, th'[t] = th[t]
  PROVE  Fit(t)'
  <1>1. Fit(t) /\ Born \subseteq Born'
    BY DEF TInv, Settled, Grows
  <1>2. FitLink(t) => FitLink(t)'
    BY DEF FitLink, NextEnd
  <1>3. Bound(th[t].job, th[t].weak) => Bound(th[t].job, th[t].weak)'
    BY DEF Bound, Settled, Grows
  <1> QED BY <1>1, <1>2, <1>3 DEF Fit, HasPostboy, ToLink, Links, HasLinked

LEMMA FitWorkerKept ==
  ASSUME TInv, Settled, NEW o \in Workers, th'[o] = th[o]
  PROVE  FitWorker(o)'
  <1>1. FitWorker(o) /\ heap[o].threads \in Nat /\ heap'[o].threads \in Int
    BY DEF TInv, HeapInv, Settled
  <1>2. o \in Born => o \in Born' /\ heap'[o].name = heap[o].name /\ heap'[o].threads >= heap[o].threads
    BY DEF Settled, Grows
  <1> QED BY <1>1, <1>2 DEF FitWorker

LEMMA MoveKeepsTypes ==
  ASSUME TInv, Settled, NEW a \in Actors, \A u \in Actors \ {a} : th'[u] = th[u],
         a \in Threads => Fit(a)' \/ th'[a] = th[a], a \in Workers => FitWorker(a)'
  PROVE  TInv'
  <1>1. \A t \in Threads : Fit(t)'
    BY FitKept, ActorsFact
  <1>2. \A o \in Workers : FitWorker(o)'
    BY FitWorkerKept, ActorsFact
  <1> QED BY <1>1, <1>2 DEF TInv, Settled

\* The positions in which a thread has something in its hands.
Fitted == {"findPostboy", "ensurePostboy", "construct", "initMetrics", "init", "insertPostboy",
           "findBinding", "ensureBinding", "setup", "insertBinding"} \cup AtLink \cup RunPositions

LEMMA FittedFact ==
  Fitted = {"findPostboy", "ensurePostboy", "construct", "initMetrics", "init", "insertPostboy",
            "findBinding", "ensureBinding", "setup", "insertBinding", "link", "clear",
            "decrease", "reset", "forget", "point", "increase", "hold", "clearInput", "holdInput",
            "checkState", "ensureState", "ensureThread", "store", "emplace", "start"}
  BY LabelsFact DEF Fitted, RunPositions

LEMMA UnfitIsFit ==
  ASSUME NEW t, th'[t].pc \notin Fitted PROVE Fit(t)'
  BY DEF Fit, HasPostboy, ToLink, Links, HasLinked, Fitted

LEMMA ExitKeepsTypes ==
  ASSUME TInv, ShapeInv, Settled, UNCHANGED listed, Exit
  PROVE  TInv'
  <1>1. \A a \in Actors : th'[a].pc = "exited"
    BY ExitFact
  <1>2. \A t \in Threads : Fit(t)'
    BY <1>1, UnfitIsFit, FittedFact, ActorsFact
  <1>3. \A o \in Workers : FitWorker(o)'
    BY <1>1, ActorsFact DEF FitWorker, WorkerLabels
  <1> QED BY <1>2, <1>3 DEF TInv, Settled

LEMMA DoneKeepsTypes ==
  ASSUME TInv, ShapeInv, Settled, UNCHANGED listed, NEW t \in Threads, Done(t) \/ Throw(t)
  PROVE  TInv'
  <1>1. CASE Exit
    BY <1>1, ExitKeepsTypes
  <1>2. CASE Done(t)
    <2>1. OnlyMoves(t) /\ th'[t].pc \in {"prepare", "idle"}
      BY <1>2, DoneFact, ActorsFact
    <2>2. Fit(t)'
      BY <2>1, UnfitIsFit, FittedFact
    <2> QED BY <2>1, <2>2, MoveKeepsTypes, ActorsFact DEF OnlyMoves
  <1> QED BY <1>1, <1>2 DEF Throw

\* Where a thread may go to with what it has in its hands.
Suits(t, l) ==
  \/ l \notin Fitted
  \/ l \in {"construct", "initMetrics", "init", "insertPostboy"} \cup RunPositions
     /\ (l # "construct" => HasPostboy(t)) /\ (l = "construct" => th[t].job \in Names)
  \/ l = "ensurePostboy" /\ t # Main /\ th[t].job \in Names
  \/ l \in {"ensureBinding", "setup"} /\ ToLink(t) /\ t # Main
  \/ l = "insertBinding" /\ HasLinked(t)

LEMMA GotoKeepsTypes ==
  ASSUME TInv, ShapeInv, Settled, NEW t \in Threads, NEW l, Goto(t, l), Suits(t, l)
  PROVE  TInv'
  <1>1. t \in Actors
    BY ActorsFact
  <1>2. /\ th'[t].pc = l /\ th'[t].job = th[t].job /\ th'[t].at = th[t].at
        /\ th'[t].weak = th[t].weak /\ \A u \in Actors \ {t} : th'[u] = th[u]
    BY <1>1 DEF ShapeInv, Goto, Fields
  <1>3. Fit(t) /\ Born \subseteq Born'
    BY DEF TInv, Settled, Grows
  <1>4. Bound(th[t].job, th[t].weak) => Bound(th[t].job, th[t].weak)'
    BY <1>2 DEF Bound, Settled, Grows
  <1>5. Fit(t)'
    <2>1. CASE l \notin Fitted
      BY <1>2, <2>1, UnfitIsFit
    <2>2. CASE l \in {"construct", "initMetrics", "init", "insertPostboy", "ensurePostboy"} \cup RunPositions
      BY <1>2, <1>3, <2>2, LabelsFact, FittedFact
         DEF Fit, Suits, HasPostboy, ToLink, Links, HasLinked, RunPositions
    <2>3. CASE l \in {"ensureBinding", "setup", "insertBinding"}
      BY <1>2, <1>3, <1>4, <2>3, LabelsFact, FittedFact
         DEF Fit, Suits, HasPostboy, ToLink, Links, HasLinked, RunPositions
    <2> QED BY <2>1, <2>2, <2>3 DEF Suits
  <1> QED BY <1>1, <1>2, <1>5, MoveKeepsTypes, ActorsFact
-----------------------------------------------------------------------------
EndRecords(b) == [side : {"out", "in"}, name : Named(b), slot : Nat]

LEMMA EndsFact ==
  ASSUME NEW b \in BindingConfigs
  PROVE  /\ Ends[b] \in Seq(EndRecords(b)) /\ Named(b) \subseteq Names
         /\ b.type = "SPSC" => Len(Ends[b]) = 2 /\ Ends[b][1].side = "out" /\ Ends[b][2].side = "in"
  <1> DEFINE linked(l) == IF b.type = "SPSC" THEN SubSeq(l, 1, 1) ELSE l
             side(s, l) == [i \in DOMAIN l |-> [side |-> s, name |-> l[i][1], slot |-> l[i][2]]]
             E == {x \in Names \X Nat : x[1] \in Named(b)}
  <1>1. Ends[b] = side("out", linked(b.producers)) \o side("in", linked(b.consumers))
    BY DEF Ends
  <1>2. ASSUME NEW l, l = b.producers \/ l = b.consumers
        PROVE  linked(l) \in Seq(E) /\ (b.type = "SPSC" => Len(linked(l)) = 1)
               /\ \A x \in ToSet(l) : x[1] \in Names
    <2>1. l \in Seq(Names \X Nat) /\ l # <<>>
      BY <1>2, RuntimeAssumption
    <2>2. Len(l) \in Nat \ {0} /\ DOMAIN l = 1 .. Len(l)
      BY <2>1, EmptySeq, LenProperties
    <2>3. \A i \in 1 .. Len(l) : l[i] \in E
      <3> SUFFICES ASSUME NEW i \in 1 .. Len(l) PROVE l[i] \in E
        OBVIOUS
      <3>1. l[i] \in Names \X Nat
        BY <2>1, ElementOfSeq
      <3>2. l[i] \in ToSet(l)
        BY <2>2 DEF ToSet
      <3>3. l[i][1] \in Named(b)
        BY <1>2, <3>2 DEF Named
      <3> QED BY <3>1, <3>3
    <2>4. \A x \in ToSet(l) : x[1] \in Names
      BY <2>2, <2>3 DEF ToSet
    <2> HIDE DEF E
    <2>5. SubSeq(l, 1, 1) \in Seq(E) /\ Len(SubSeq(l, 1, 1)) = 1
      BY <2>2, <2>3, SubSeqProperties
    <2>6. l \in Seq(E)
      <3>1. l \in [1 .. Len(l) -> Names \X Nat]
        BY <2>1, LenProperties
      <3>2. l \in [1 .. Len(l) -> E]
        BY <2>3, <3>1
      <3> QED BY <2>2, <3>2, SeqDef
    <2> QED BY <2>4, <2>5, <2>6
  <1>3. ASSUME NEW s \in {"out", "in"}, NEW l \in Seq(E)
        PROVE  /\ side(s, l) \in Seq(EndRecords(b)) /\ Len(side(s, l)) = Len(l)
               /\ \A i \in 1 .. Len(l) : side(s, l)[i].side = s
    <2>1. l \in [1 .. Len(l) -> E] /\ Len(l) \in Nat /\ DOMAIN l = 1 .. Len(l)
      BY LenProperties
    <2>2. side(s, l) \in [1 .. Len(l) -> EndRecords(b)]
      BY <2>1 DEF EndRecords
    <2>3. side(s, l) \in Seq(EndRecords(b)) /\ DOMAIN side(s, l) = 1 .. Len(l)
      BY <2>1, <2>2, SeqDef
    <2>4. Len(side(s, l)) = Len(l)
      <3> HIDE DEF side
      <3> QED BY <2>1, <2>3, LenProperties
    <2> QED BY <2>1, <2>3, <2>4
  <1> HIDE DEF E, linked, side
  <1>4. PICK p, c : p = linked(b.producers) /\ c = linked(b.consumers)
    OBVIOUS
  <1>5. p \in Seq(E) /\ c \in Seq(E) /\ (b.type = "SPSC" => Len(p) = 1 /\ Len(c) = 1)
    BY <1>2, <1>4
  <1>6. PICK P \in Seq(EndRecords(b)), C \in Seq(EndRecords(b)) :
          /\ P = side("out", p) /\ C = side("in", c) /\ Len(P) = Len(p) /\ Len(C) = Len(c)
          /\ \A i \in 1 .. Len(p) : P[i].side = "out"
          /\ \A i \in 1 .. Len(c) : C[i].side = "in"
    BY <1>3, <1>5
  <1>7. Ends[b] = P \o C
    BY <1>1, <1>4, <1>6
  <1>8. b.type = "SPSC" => Len(Ends[b]) = 2 /\ Ends[b][1].side = "out" /\ Ends[b][2].side = "in"
    BY <1>5, <1>6, <1>7, ConcatProperties
  <1>9. Named(b) \subseteq Names
    BY <1>2 DEF Named
  <1> QED BY <1>6, <1>7, <1>8, <1>9, ConcatProperties

\* The end a thread links next, and the slot at which it or a worker is.
LEMMA NextEndFact ==
  ASSUME TInv, NEW t \in Threads, Links(t), th[t].at < Len(Ends[th[t].job])
  PROVE  /\ th[t].job \in BindingConfigs /\ NextEnd(t) \in EndRecords(th[t].job)
         /\ NextEnd(t).name \in Names /\ Object(t) \in Workers
         /\ th[t].at \in Nat /\ Len(Ends[th[t].job]) \in Nat
  <1>1. Fit(t) /\ th[t].job \in BindingConfigs
    BY DEF TInv, Fit
  <1>2. PICK b \in BindingConfigs : b = th[t].job
    BY <1>1
  <1>3. Ends[b] \in Seq(EndRecords(b)) /\ Named(b) \subseteq Names
    BY EndsFact
  <1>4. th[t].at \in Nat /\ Len(Ends[b]) \in Nat
    BY <1>1, <1>2, <1>3, LenProperties DEF Fit, FitLink
  <1>5. NextEnd(t) \in EndRecords(b)
    BY <1>2, <1>3, <1>4, ElementOfSeq DEF NextEnd
  <1>6. Object(t) \in Workers
    BY <1>1, <1>2, <1>5 DEF Object, EndRecords, Fit, Bound
  <1> QED BY <1>2, <1>3, <1>4, <1>5, <1>6 DEF EndRecords

LEMMA SlotsFact ==
  ASSUME NEW o \in Workers, NEW e, e.name \in Names, e.side \in {"out", "in"}, Exists(e)
  PROVE  <<o, e.side, e.slot>> \in Slots
  BY DEF Slots, Exists, Side

LEMMA PlaceFact ==
  ASSUME TInv, NEW a \in Actors, th[a].pc \in Setting
  PROVE  /\ Place(a) \in Slots
         /\ a \in Workers => Place(a) = <<a, "out", th[a].at>>
         /\ a \in Threads => Place(a) = <<Object(a), NextEnd(a).side, NextEnd(a).slot>>
  <1>1. CASE a \in Workers
    <2>1. /\ th[a].pc \in {"clear", "decrease", "reset", "forget"}
      BY <1>1 DEF TInv, FitWorker, WorkerLabels, Setting
    <2>2. heap[a].name \in Names /\ th[a].at \in DOMAIN Outputs[heap[a].name]
      BY <1>1, <2>1 DEF TInv, FitWorker, HeapInv
    <2>3. a \notin Threads
      BY <1>1, ActorsFact
    <2> QED BY <1>1, <2>2, <2>3 DEF Place, Slots
  <1>2. CASE a \in Threads
    <2>1. a \notin Workers /\ Links(a) /\ Fit(a)
      BY <1>2, ActorsFact DEF Links, AtLink, TInv
    <2>2. th[a].at < Len(Ends[th[a].job]) /\ Exists(NextEnd(a))
      BY <2>1 DEF Fit, FitLink
    <2>3. NextEnd(a).name \in Names /\ NextEnd(a).side \in {"out", "in"} /\ Object(a) \in Workers
      BY <1>2, <2>1, <2>2, NextEndFact DEF EndRecords
    <2> QED BY <2>1, <2>2, <2>3, SlotsFact DEF Place
  <1> QED BY <1>1, <1>2, ActorsFact

-----------------------------------------------------------------------------
LEMMA InitTypes == Init => TInv
  <1> SUFFICES ASSUME Init PROVE TInv
    OBVIOUS
  <1>1. \A l : Thread(l).pc = l
    BY DEF Thread
  <1>2. th[Main].pc = "collect" /\ \A t \in Handlers : th[t].pc = "idle"
    BY <1>1, ActorsFact DEF Init
  <1>3. \A o \in Workers : th[o].pc = "none"
    <2>1. \A o \in Workers : o # Main /\ o \notin Handlers /\ o \in Actors
      BY ActorsFact
    <2>2. \A o \in Workers : th[o] = Thread("none")
      BY <2>1 DEF Init
    <2> QED BY <1>1, <2>2
  <1>4. \A t \in Threads : Fit(t)
    <2>1. \A t \in Threads : th[t].pc \notin Fitted
      BY <1>2, FittedFact DEF Threads
    <2> QED BY <2>1 DEF Fit, HasPostboy, ToLink, Links, HasLinked, Fitted
  <1>5. \A o \in Workers : FitWorker(o)
    BY <1>3 DEF FitWorker, WorkerLabels
  <1>6. MapInv
    BY RuntimeAssumption DEF Init, MapInv
  <1>7. HeapInv
    <2>1. heap \in [Workers -> [name : Names \cup {None}, state : States, threads : Nat]]
      <3>1. [name |-> None, state |-> "unborn", threads |-> 0]
              \in [name : Names \cup {None}, state : States, threads : Nat]
        BY DEF States
      <3> QED BY <3>1 DEF Init
    <2>2. Born = {}
      BY DEF Init, Born
    <2>3. queues = 0 /\ 0 \in 0 .. MaxQueues
      BY RuntimeAssumption DEF Init
    <2>4. impl \in [Slots -> 0 .. queues] /\ queue \in [Slots -> 0 .. queues]
      BY <2>3 DEF Init, None
    <2>5. producers \in [Queues -> Int] /\ single \subseteq 1 .. queues
      BY DEF Init
    <2> QED BY <2>1, <2>2, <2>3, <2>4, <2>5 DEF HeapInv
  <1> QED BY <1>4, <1>5, <1>6, <1>7 DEF TInv

LEMMA MainKeepsTypes ==
  ASSUME IInv, TInv, MainStep PROVE TInv'
  <1>1. Main \in Threads /\ Main \in Actors /\ ShapeInv /\ todo \in [prepared : Seq(Names), postboy : Seq(Names), binding : Seq(BindingConfigs)]
    BY ActorsFact DEF IInv, TInv, MapInv
  <1>2. CASE Collect \/ ValidateGraph \/ AllRun \/ WaitFinished
    <2>1. Settled /\ UNCHANGED listed
      BY <1>2, QuietSettles DEF Collect, ValidateGraph, AllRun, WaitFinished, KeepAll, links, maps
    <2> QED BY <1>1, <1>2, <2>1, GotoKeepsTypes, ExitKeepsTypes, FittedFact
       DEF Collect, ValidateGraph, AllRun, WaitFinished, Suits
  <1>3. CASE RunPrepared
    <2>1. Settled /\ UNCHANGED listed
      <3>1. todo' \in [prepared : Seq(Names), postboy : Seq(Names), binding : Seq(BindingConfigs)]
        <4>1. todo.prepared \in Seq(Names) /\ todo.prepared # <<>>
          BY <1>1, <1>3 DEF RunPrepared
        <4>2. Tail(todo.prepared) \in Seq(Names)
          BY <4>1, HeadTailProperties
        <4> QED BY <1>1, <1>3, <4>2 DEF RunPrepared
      <3> QED BY <1>3, <3>1, QuietSettles DEF RunPrepared, links, maps
    <2> QED BY <1>1, <1>3, <2>1, ExitKeepsTypes, MoveKeepsTypes, FitWorkerKept DEF RunPrepared
  <1>4. CASE NextPostboy
    <2>1. todo.postboy \in Seq(Names) /\ todo.postboy # <<>>
      BY <1>1, <1>4 DEF NextPostboy
    <2>2. Tail(todo.postboy) \in Seq(Names) /\ Head(todo.postboy) \in Names
      BY <2>1, HeadTailProperties
    <2>3. Settled
      <3>1. todo' \in [prepared : Seq(Names), postboy : Seq(Names), binding : Seq(BindingConfigs)]
        BY <1>1, <1>4, <2>2 DEF NextPostboy
      <3> QED BY <1>4, <3>1, QuietSettles DEF NextPostboy, links, maps
    <2>4. /\ th'[Main].pc = "construct" /\ th'[Main].job = Head(todo.postboy)
          /\ \A u \in Actors \ {Main} : th'[u] = th[u]
      BY <1>1, <1>4 DEF NextPostboy, ShapeInv, Fields
    <2>5. Fit(Main)'
      BY <2>2, <2>4, LabelsFact DEF Fit, HasPostboy, ToLink, Links, HasLinked, RunPositions
    <2> QED BY <1>1, <2>3, <2>4, <2>5, MoveKeepsTypes, ActorsFact
  <1>5. CASE NextBinding
    <2>1. todo.binding \in Seq(BindingConfigs) /\ todo.binding # <<>>
      BY <1>1, <1>5 DEF NextBinding
    <2>2. Tail(todo.binding) \in Seq(BindingConfigs) /\ Head(todo.binding) \in BindingConfigs
      BY <2>1, HeadTailProperties
    <2>3. Settled
      <3>1. todo' \in [prepared : Seq(Names), postboy : Seq(Names), binding : Seq(BindingConfigs)]
        BY <1>1, <1>5, <2>2 DEF NextBinding
      <3> QED BY <1>5, <3>1, QuietSettles DEF NextBinding, links, maps
    <2>4. /\ th'[Main].pc = "setup" /\ th'[Main].job = Head(todo.binding)
          /\ \A u \in Actors \ {Main} : th'[u] = th[u]
      BY <1>1, <1>5 DEF NextBinding, ShapeInv, Fields
    <2>5. Fit(Main)'
      BY <2>2, <2>4, LabelsFact DEF Fit, HasPostboy, ToLink, Links, HasLinked, RunPositions
    <2> QED BY <1>1, <2>3, <2>4, <2>5, MoveKeepsTypes, ActorsFact
  <1>6. CASE RunNext
    <2>1. Settled
      BY <1>6, QuietSettles DEF RunNext, KeepAll, links, maps
    <2>2. PICK n \in NotRun : th' = [th EXCEPT ![Main].at = postboys[n], ![Main].pc = "ensureState"]
      BY <1>6 DEF RunNext
    <2>3. postboys[n] \in Born'
      BY <2>1 DEF NotRun, TInv, MapInv, Settled, Grows
    <2>4. /\ th'[Main].pc = "ensureState" /\ th'[Main].at = postboys[n]
          /\ \A u \in Actors \ {Main} : th'[u] = th[u]
      BY <1>1, <2>2 DEF ShapeInv, Fields
    <2>5. Fit(Main)'
      BY <2>3, <2>4, LabelsFact DEF Fit, HasPostboy, ToLink, Links, HasLinked, RunPositions
    <2> QED BY <1>1, <2>1, <2>4, <2>5, MoveKeepsTypes, ActorsFact
  <1> QED BY <1>2, <1>3, <1>4, <1>5, <1>6 DEF MainStep

LEMMA CreateKeepsTypes ==
  ASSUME IInv, TInv, NEW t \in Threads, Create(t) PROVE TInv'
  <1>1. t \in Actors /\ ShapeInv /\ Fit(t)
    BY ActorsFact DEF IInv, TInv
  <1>2. CASE FindPostboy(t) \/ EnsurePostboy(t)
    <2>1. Settled
      BY <1>2, QuietSettles DEF FindPostboy, EnsurePostboy, KeepAll, links, maps
    <2>2. \/ (Done(t) \/ Throw(t)) /\ UNCHANGED listed
          \/ \E l : Goto(t, l) /\ Suits(t, l)
      <3>1. CASE FindPostboy(t)
        BY <1>1, <3>1 DEF FindPostboy, KeepAll, maps, At, Fit, Suits
      <3>2. CASE EnsurePostboy(t)
        BY <1>1, <3>2 DEF EnsurePostboy, At, Fit, Suits, HasPostboy
      <3> QED BY <1>2, <3>1, <3>2
    <2> QED BY <1>1, <2>1, <2>2, GotoKeepsTypes, DoneKeepsTypes
  <1>3. CASE Construct(t)
    <2>1. PICK o \in Workers :
            /\ heap[o].state = "unborn"
            /\ heap' = [heap EXCEPT ![o].name = th[t].job, ![o].state = "NotInitialized"]
            /\ th' = [th EXCEPT ![t].at = o,
                                ![t].pc = IF t = Main THEN "ensurePostboy" ELSE "initMetrics"]
      BY <1>3 DEF Construct
    <2>2. th[t].job \in Names /\ UNCHANGED <<todo, postboys, bindings, single, queues, slots>>
      BY <1>1, <1>3 DEF Construct, At, Fit, links, maps
    <2>3. PICK r : r = [heap[o] EXCEPT !.name = th[t].job, !.state = "NotInitialized"]
      OBVIOUS
    <2>4. /\ r \in [name : Names \cup {None}, state : States, threads : Nat]
          /\ r.name = th[t].job /\ r.state = "NotInitialized" /\ r.threads = heap[o].threads
          /\ heap[o].threads \in Nat /\ heap' = [heap EXCEPT ![o] = r]
      BY <2>1, <2>2, <2>3 DEF TInv, HeapInv, States
    <2>5. Settled /\ o \in Born'
      <3>1. r.threads >= heap[o].threads /\ r.state # "unborn" /\ r.name \in Names
        BY <2>2, <2>4
      <3> QED BY <2>1, <2>2, <2>4, <3>1, HeapSettles
    <2>6. /\ th'[t].pc = (IF t = Main THEN "ensurePostboy" ELSE "initMetrics")
          /\ th'[t].at = o /\ th'[t].job = th[t].job
          /\ \A u \in Actors \ {t} : th'[u] = th[u]
      BY <1>1, <2>1 DEF ShapeInv, Fields
    <2>7. Fit(t)'
      BY <2>2, <2>5, <2>6, LabelsFact DEF Fit, HasPostboy, ToLink, Links, HasLinked, RunPositions
    <2> QED BY <1>1, <2>5, <2>6, <2>7, MoveKeepsTypes, ActorsFact
  <1>4. CASE InitMetrics(t)
    <2>1. Settled /\ UNCHANGED listed
      BY <1>4, QuietSettles DEF InitMetrics, links, maps
    <2>2. HasPostboy(t)
      BY <1>4 DEF InitMetrics, At, HasPostboy
    <2> QED BY <1>1, <1>4, <2>1, <2>2, GotoKeepsTypes, ExitKeepsTypes DEF InitMetrics, Suits
  <1>5. CASE InitPostboy(t)
    <2>1. HasPostboy(t) /\ UNCHANGED listed
      BY <1>5 DEF InitPostboy, At, HasPostboy, maps
    <2>2. CASE Throw(t) /\ UNCHANGED heap
      <3>1. Settled
        BY <1>5, <2>2, QuietSettles DEF InitPostboy, links, maps
      <3> QED BY <1>1, <2>1, <2>2, <3>1, DoneKeepsTypes
    <2>3. CASE heap' = [heap EXCEPT ![th[t].at].state = "Initialized"] /\ Goto(t, "insertPostboy")
      <3>1. PICK o \in Born : o = th[t].at
        BY <1>1, <2>1 DEF Fit
      <3>2. PICK r : r = [heap[o] EXCEPT !.state = "Initialized"]
        OBVIOUS
      <3>3. /\ r \in [name : Names \cup {None}, state : States, threads : Nat]
            /\ r.name = heap[o].name /\ r.name \in Names /\ r.state = "Initialized"
            /\ r.threads = heap[o].threads /\ heap[o].threads \in Nat
            /\ heap' = [heap EXCEPT ![o] = r] /\ o \in Workers
        <4>1. o \in Workers /\ heap[o].name \in Names
          BY DEF TInv, HeapInv, Born
        <4>2. heap[o] \in [name : Names \cup {None}, state : States, threads : Nat]
          BY <4>1 DEF TInv, HeapInv
        <4>3. /\ r \in [name : Names \cup {None}, state : States, threads : Nat]
              /\ r.name = heap[o].name /\ r.state = "Initialized" /\ r.threads = heap[o].threads
          BY <3>2, <4>2 DEF States
        <4>4. heap' = [heap EXCEPT ![o] = r]
          BY <2>3, <3>1, <3>2
        <4> QED BY <4>1, <4>2, <4>3, <4>4
      <3>4. r.threads >= heap[o].threads /\ r.state # "unborn"
        BY <3>3
      <3>5. Settled
        BY <1>5, <3>3, <3>4, HeapSettles DEF InitPostboy, links, maps
      <3> QED BY <1>1, <2>1, <2>3, <3>5, GotoKeepsTypes DEF Suits
    <2> QED BY <1>5, <2>2, <2>3 DEF InitPostboy
  <1>6. CASE InsertPostboy(t)
    <2>1. th[t].at \in Born /\ UNCHANGED <<todo, bindings, heap, single, queues, slots, listed>>
      BY <1>1, <1>6 DEF InsertPostboy, At, Fit, HasPostboy, links
    <2>2. HeapInv' /\ Grows
      BY <2>1, QuietGrows DEF TInv, HeapInv, Born, slots
    <2>3. \A n \in DOMAIN postboys' : postboys'[n] \in Born'
      BY <1>6, <2>1, <2>2 DEF InsertPostboy, With, TInv, MapInv, Grows
    <2>4. MapInv'
      BY <2>1, <2>2, <2>3, BoundKept DEF TInv, MapInv, Grows
    <2> QED BY <1>1, <1>6, <2>1, <2>2, <2>4, DoneKeepsTypes DEF InsertPostboy, Settled
  <1> QED BY <1>2, <1>3, <1>4, <1>5, <1>6 DEF Create
-----------------------------------------------------------------------------
\* A thread goes on linking.
LEMMA LinkMoveFits ==
  ASSUME TInv, Settled, NEW t \in Threads, Links(t), th'[t].pc \in AtLink, FitLink(t)',
         \A u \in Actors \ {t} : th'[u] = th[u],
         th'[t].job = th[t].job, th'[t].weak = th[t].weak
  PROVE  TInv'
  <1>1. Fit(t) /\ th[t].job \in BindingConfigs
    BY DEF TInv, Fit
  <1>2. Bound(th[t].job, th[t].weak) /\ (Bound(th[t].job, th[t].weak) => Bound(th[t].job, th[t].weak)')
    BY <1>1 DEF Fit, Bound, Settled, Grows
  <1>3. Fit(t)'
    BY <1>1, <1>2, LabelsFact DEF Fit, HasPostboy, ToLink, Links, HasLinked, RunPositions
  <1> QED BY <1>3, MoveKeepsTypes, ActorsFact

LEMMA SlotSettles ==
  ASSUME TInv, NEW a \in Actors, SlotStep(a) PROVE Settled
  <1>1. UNCHANGED <<todo, heap, postboys, bindings, single, queues>>
    BY DEF SlotStep, Clear, Decrease, Reset, Forget, SetImpl, Point, Increase, Hold, ClearInput,
       KeepAll, KeepRest, links, maps
  <1>2. None \in 0 .. queues
    BY DEF TInv, HeapInv, None
  <1>3. CASE Clear(a)
    BY <1>1, <1>3, QuietSettles DEF Clear, KeepAll, links
  <1>4. CASE Decrease(a)
    BY <1>1, <1>4, SlotsSettle DEF Decrease, TInv, HeapInv
  <1>5. CASE Reset(a)
    BY <1>1, <1>2, <1>5, SlotsSettle DEF Reset, TInv, HeapInv
  <1>6. CASE Forget(a)
    BY <1>1, <1>2, <1>6, SlotsSettle DEF Forget, TInv, HeapInv
  <1>7. CASE a \in Threads /\ SetImpl(a)
    <2>1. th[a].weak.queue \in 1 .. queues
      <3>1. Links(a)
        BY <1>7, LabelsFact DEF SetImpl, Point, Increase, Hold, ClearInput, At, Links
      <3> QED BY <1>7, <3>1 DEF TInv, Fit, Bound
    <2>2. th[a].weak.queue \in 0 .. queues
      BY <2>1 DEF TInv, HeapInv
    <2>3. CASE Point(a)
      BY <1>1, <2>2, <2>3, SlotsSettle DEF Point, TInv, HeapInv
    <2>4. CASE Increase(a)
      <3>1. producers' \in [Queues -> Int]
        <4>1. producers \in [Queues -> Int]
          BY DEF TInv, HeapInv
        <4>2. PICK q \in Queues : q = th[a].weak.queue
          BY <2>1, RuntimeAssumption DEF Queues, TInv, HeapInv
        <4>3. producers' = [producers EXCEPT ![q] = @ + 1]
          BY <2>4, <4>2 DEF Increase
        <4> QED BY <4>1, <4>3
      <3>2. impl' \in [Slots -> 0 .. queues] /\ queue' \in [Slots -> 0 .. queues]
        BY <2>4 DEF Increase, TInv, HeapInv
      <3> QED BY <1>1, <3>1, <3>2, SlotsSettle
    <2>5. CASE Hold(a)
      BY <1>1, <2>2, <2>5, SlotsSettle DEF Hold, TInv, HeapInv
    <2>6. CASE ClearInput(a)
      BY <1>1, <1>2, <2>6, SlotsSettle DEF ClearInput, TInv, HeapInv
    <2> QED BY <1>7, <2>3, <2>4, <2>5, <2>6 DEF SetImpl
  <1> QED BY <1>3, <1>4, <1>5, <1>6, <1>7 DEF SlotStep

\* Where the steps of SlotStep lead.
OutLabels == {"clear", "decrease", "reset", "forget", "point", "increase", "hold"}

LEMMA GotoThread ==
  ASSUME ShapeInv, NEW a \in Actors, NEW l, Goto(a, l)
  PROVE  /\ th'[a].pc = l /\ th'[a].job = th[a].job
         /\ th'[a].at = th[a].at /\ th'[a].weak = th[a].weak
         /\ \A u \in Actors \ {a} : th'[u] = th[u]
  BY DEF ShapeInv, Goto, Fields

LEMMA GotoAtThread ==
  ASSUME ShapeInv, NEW a \in Actors, NEW l, NEW i, th' = [th EXCEPT ![a].at = i, ![a].pc = l]
  PROVE  /\ th'[a].pc = l /\ th'[a].job = th[a].job
         /\ th'[a].at = i /\ th'[a].weak = th[a].weak
         /\ \A u \in Actors \ {a} : th'[u] = th[u]
  BY DEF ShapeInv, Fields

\* From one label to another of the same slot.
ToLabel(a, l) ==
  \/ th[a].pc \in OutLabels /\ l \in OutLabels
  \/ th[a].pc = "clearInput" /\ l = "holdInput"

SlotOutcome(a) ==
  \/ Exit \/ (a \in Threads /\ Throw(a))
  \/ a \in Threads /\ \E l : Goto(a, l) /\ ToLabel(a, l)
  \/ a \in Threads /\ th[a].pc \in Setting /\ th' = [th EXCEPT ![a].at = @ + 1, ![a].pc = "link"]
  \/ a \in Workers /\ \E l \in {"decrease", "reset", "forget"} : Goto(a, l)
  \/ /\ a \in Workers
     /\ th' = [th EXCEPT ![a].at = @ + 1,
                         ![a].pc = IF th[a].at < Len(Outputs[heap[a].name]) THEN "clear" ELSE "finish"]

LEMMA SlotStepFact ==
  ASSUME NEW a \in Actors, SlotStep(a)
  PROVE  SlotOutcome(a) /\ th[a].pc \in Setting /\ UNCHANGED listed
  <1>1. a \in Threads \/ a \in Workers
    BY ActorsFact
  <1>2. ~(a \in Threads /\ a \in Workers) /\ (a \in Workers => a \notin Handlers)
    BY ActorsFact
  <1>3. CASE Clear(a) \/ Decrease(a) \/ Reset(a)
    <2>1. /\ th[a].pc \in {"clear", "decrease", "reset"} /\ UNCHANGED listed
          /\ Exit \/ Throw(a) \/ \E l \in {"decrease", "reset", "forget"} : Goto(a, l)
      BY <1>3 DEF Clear, Decrease, Reset, At, KeepAll, KeepRest, maps
    <2>2. \A l \in {"decrease", "reset", "forget"} : ToLabel(a, l)
      BY <2>1 DEF ToLabel, OutLabels
    <2> QED BY <1>1, <1>2, <2>1, <2>2 DEF SlotOutcome, Setting, Throw
  <1>4. CASE Forget(a)
    <2>1. th[a].pc = "forget" /\ UNCHANGED listed /\ ToLabel(a, "point")
      BY <1>4 DEF Forget, At, KeepRest, maps, ToLabel, OutLabels
    <2> QED BY <1>1, <1>2, <1>4, <2>1 DEF Forget, SlotOutcome, Setting
  <1>5. CASE a \in Threads /\ (Point(a) \/ Increase(a))
    <2>1. /\ th[a].pc \in {"point", "increase"} /\ UNCHANGED listed
          /\ Throw(a) \/ \E l \in {"increase", "hold"} : Goto(a, l)
      BY <1>5 DEF Point, Increase, At, KeepRest, maps
    <2>2. \A l \in {"increase", "hold"} : ToLabel(a, l)
      BY <2>1 DEF ToLabel, OutLabels
    <2> QED BY <1>5, <2>1, <2>2 DEF SlotOutcome, Setting
  <1>6. CASE a \in Threads /\ (Hold(a) \/ ClearInput(a))
    BY <1>6 DEF Hold, ClearInput, At, KeepRest, maps, SlotOutcome, Setting, ToLabel
  <1> QED BY <1>3, <1>4, <1>5, <1>6 DEF SlotStep, SetImpl

LEMMA SlotKeepsTypes ==
  ASSUME IInv, TInv, NEW a \in Actors, SlotStep(a) PROVE TInv'
  <1>1. ShapeInv /\ Settled /\ SlotOutcome(a) /\ th[a].pc \in Setting /\ UNCHANGED <<listed, heap>>
    <2>1. UNCHANGED heap
      BY DEF SlotStep, Clear, Decrease, Reset, Forget, SetImpl, Point, Increase, Hold, ClearInput,
         KeepAll, KeepRest
    <2> QED BY <2>1, SlotSettles, SlotStepFact DEF IInv
  <1>2. CASE Exit \/ (a \in Threads /\ Throw(a))
    BY <1>1, <1>2, ExitKeepsTypes, DoneKeepsTypes
  <1>3. ASSUME a \in Threads PROVE Links(a) /\ Fit(a) /\ FitLink(a)
    BY <1>1, <1>3 DEF Links, AtLink, TInv, Fit
  <1>4. ASSUME a \in Threads, NEW l, Goto(a, l), ToLabel(a, l) PROVE TInv'
    <2>1. /\ th'[a].pc = l /\ th'[a].job = th[a].job
          /\ th'[a].at = th[a].at /\ th'[a].weak = th[a].weak
          /\ \A u \in Actors \ {a} : th'[u] = th[u]
      BY <1>1, <1>4, GotoThread
    <2>2. NextEnd(a)' = NextEnd(a)
      BY <2>1 DEF NextEnd
    <2>3. l \in AtLink /\ FitLink(a)'
      <3>1. l \in Setting /\ (l \in {"clearInput", "holdInput"} <=> th[a].pc \in {"clearInput", "holdInput"})
        BY <1>4 DEF ToLabel, OutLabels, Setting
      <3> QED BY <1>1, <1>3, <1>4, <2>1, <2>2, <3>1 DEF FitLink, AtLink
    <2> QED BY <1>1, <1>3, <1>4, <2>1, <2>3, LinkMoveFits
  <1>5. CASE a \in Threads /\ th' = [th EXCEPT ![a].at = @ + 1, ![a].pc = "link"]
    <2>1. /\ th'[a].pc = "link" /\ th'[a].job = th[a].job
          /\ th'[a].at = th[a].at + 1 /\ th'[a].weak = th[a].weak
          /\ \A u \in Actors \ {a} : th'[u] = th[u]
      BY <1>1, <1>5 DEF ShapeInv, Fields
    <2>2. /\ th[a].at < Len(Ends[th[a].job]) /\ th[a].at \in Nat
          /\ Len(Ends[th[a].job]) \in Nat
      BY <1>1, <1>3, <1>5, NextEndFact DEF FitLink
    <2>3. FitLink(a)'
      BY <2>1, <2>2 DEF FitLink, Setting
    <2>4. th'[a].pc \in AtLink /\ a \in Threads
      BY <1>5, <2>1 DEF AtLink
    <2> QED BY <1>1, <1>3, <2>1, <2>3, <2>4, LinkMoveFits
  <1>6. ASSUME a \in Workers
        PROVE  /\ FitWorker(a) /\ heap[a].name \in Names /\ a \in Born' /\ heap'[a].threads > 0
               /\ th[a].at \in DOMAIN Outputs[heap[a].name]
    <2>1. FitWorker(a) /\ th[a].pc \notin {"none", "exited"}
      BY <1>1, <1>6, LabelsFact DEF TInv, Setting
    <2>2. th[a].pc \in {"testOutputs", "clear", "decrease", "reset", "forget"}
      BY <1>1, <2>1 DEF FitWorker, WorkerLabels, Setting
    <2> QED BY <1>1, <1>6, <2>1, <2>2 DEF FitWorker, TInv, HeapInv, Settled, Grows
  <1>7. CASE a \in Workers /\ \E l \in {"decrease", "reset", "forget"} : Goto(a, l)
    <2>1. /\ th'[a].pc \in {"decrease", "reset", "forget"} /\ th'[a].at = th[a].at
          /\ \A u \in Actors \ {a} : th'[u] = th[u]
      BY <1>1, <1>7, GotoThread
    <2>2. FitWorker(a)'
      BY <1>1, <1>6, <1>7, <2>1 DEF FitWorker, WorkerLabels
    <2> QED BY <1>1, <1>7, <2>1, <2>2, MoveKeepsTypes, ActorsFact
  <1>8. CASE /\ a \in Workers
             /\ th' = [th EXCEPT ![a].at = @ + 1,
                         ![a].pc = IF th[a].at < Len(Outputs[heap[a].name]) THEN "clear" ELSE "finish"]
    <2>1. /\ th'[a].pc = (IF th[a].at < Len(Outputs[heap[a].name]) THEN "clear" ELSE "finish")
          /\ th'[a].at = th[a].at + 1
          /\ \A u \in Actors \ {a} : th'[u] = th[u]
      BY <1>1, <1>8 DEF ShapeInv, Fields
    <2>2. th[a].at < Len(Outputs[heap[a].name]) => th[a].at + 1 \in DOMAIN Outputs[heap[a].name]
      BY <1>6, <1>8, SidesFact
    <2>3. FitWorker(a)'
      BY <1>1, <1>6, <1>8, <2>1, <2>2 DEF FitWorker, WorkerLabels
    <2> QED BY <1>1, <1>8, <2>1, <2>3, MoveKeepsTypes, ActorsFact
  <1> QED BY <1>1, <1>2, <1>4, <1>5, <1>7, <1>8 DEF SlotOutcome
-----------------------------------------------------------------------------
LEMMA SetupKeepsTypes ==
  ASSUME IInv, TInv, NEW t \in Threads, Setup(t) PROVE TInv'
  <1>1. t \in Actors /\ ShapeInv /\ Fit(t) /\ th[t].pc = "setup" /\ UNCHANGED listed
    BY ActorsFact DEF IInv, TInv, Setup, At, maps
  <1>2. UNCHANGED <<todo, heap, postboys, bindings, slots>>
    BY DEF Setup, maps
  <1>3. CASE (Throw(t) \/ Exit) /\ UNCHANGED <<queues, single>>
    BY <1>1, <1>2, <1>3, QuietSettles, DoneKeepsTypes, ExitKeepsTypes
  <1>4. CASE /\ Named(th[t].job) \subseteq DOMAIN postboys /\ queues < MaxQueues
             /\ queues' = queues + 1
             /\ single' = IF th[t].job.type = "SPSC" THEN single \cup {queues + 1} ELSE single
             /\ th' = [th EXCEPT ![t].weak = [to |-> [n \in Named(th[t].job) |-> postboys[n]],
                                              queue |-> queues + 1],
                                 ![t].at = 0, ![t].pc = "link"]
    <2>0. queues < MaxQueues /\ queues' = queues + 1 /\ queues \in Nat
      <3>1. queues \in Nat
        BY RuntimeAssumption DEF TInv, HeapInv
      <3> QED BY <1>4, <3>1
    <2>1. 1 .. queues \subseteq 1 .. queues' /\ queues' \in 1 .. MaxQueues
      <3>1. queues \in Nat /\ MaxQueues \in Nat
        BY RuntimeAssumption DEF TInv, HeapInv
      <3> QED BY <2>0, <3>1
    <2>2. Grows
      BY <1>2, <2>1, QuietGrows DEF TInv
    <2>3. HeapInv'
      <3>1. \A S : \A f \in [S -> 0 .. queues] : f \in [S -> 0 .. queues']
        <4>1. 0 .. queues \subseteq 0 .. queues'
          <5>1. queues \in Nat
            BY DEF TInv, HeapInv
          <5> QED BY <2>0, <5>1
        <4> QED BY <4>1
      <3>2. impl' \in [Slots -> 0 .. queues'] /\ queue' \in [Slots -> 0 .. queues']
        BY <1>2, <3>1 DEF TInv, HeapInv, slots
      <3>3. single' \subseteq 1 .. queues'
        <4>1. single \subseteq 1 .. queues /\ queues + 1 \in 1 .. queues'
          BY <2>0, <2>1 DEF TInv, HeapInv
        <4> QED BY <1>4, <2>1, <4>1
      <3> QED BY <1>2, <2>1, <3>2, <3>3 DEF TInv, HeapInv, Born, slots
    <2>4. Settled
      BY <1>2, <2>2, <2>3, MapsSettle DEF TInv, Settled
    <2>5. PICK w : w = [to |-> [n \in Named(th[t].job) |-> postboys[n]], queue |-> queues + 1]
      OBVIOUS
    <2>6. /\ th'[t].pc = "link" /\ th'[t].at = 0 /\ th'[t].weak = w /\ th'[t].job = th[t].job
          /\ \A u \in Actors \ {t} : th'[u] = th[u]
      BY <1>1, <1>4, <2>5 DEF ShapeInv, Fields
    <2>7. PICK b \in BindingConfigs : b = th[t].job
      BY <1>1 DEF Fit, ToLink
    <2>8. Bound(b, w)'
      <3>1. \A n \in Named(b) : postboys[n] \in Workers
        BY <1>4, <2>7 DEF TInv, MapInv, Born
      <3>2. w.queue = queues' /\ queues' \in 1 .. queues'
        <4>1. w.queue = queues + 1
          BY <2>5
        <4> QED BY <2>0, <4>1
      <3>3. \A n \in Named(b) : w.to[n] = postboys[n]
        BY <2>5, <2>7
      <3> QED BY <3>1, <3>2, <3>3 DEF Bound
    <2>9. 0 \in 0 .. Len(Ends[b])
      BY EndsFact, LenProperties
    <2>10. Fit(t)'
      BY <2>6, <2>7, <2>8, <2>9, LabelsFact
         DEF Fit, FitLink, HasPostboy, ToLink, Links, HasLinked, RunPositions, Bound, Setting
    <2> QED BY <1>1, <2>4, <2>6, <2>10, MoveKeepsTypes, ActorsFact
  <1> QED BY <1>3, <1>4 DEF Setup

LEMMA BindKeepsTypes ==
  ASSUME IInv, TInv, NEW t \in Threads, Bind(t) PROVE TInv'
  <1>1. t \in Actors /\ ShapeInv /\ Fit(t)
    BY ActorsFact DEF IInv, TInv
  <1>2. CASE FindBinding(t) \/ EnsureBinding(t)
    <2>1. Settled
      BY <1>2, QuietSettles DEF FindBinding, EnsureBinding, KeepAll, links, maps
    <2>2. \/ (Done(t) \/ Throw(t)) /\ UNCHANGED listed
          \/ \E l : Goto(t, l) /\ Suits(t, l)
      <3>1. CASE FindBinding(t)
        BY <1>1, <3>1 DEF FindBinding, KeepAll, maps, At, Fit, Suits, ToLink
      <3>2. CASE EnsureBinding(t)
        BY <1>1, <3>2 DEF EnsureBinding, At, Suits, ToLink, HasLinked
      <3> QED BY <1>2, <3>1, <3>2
    <2> QED BY <1>1, <2>1, <2>2, GotoKeepsTypes, DoneKeepsTypes
  <1>3. CASE LinkNobody(t)
    BY <1>1, <1>3, QuietSettles, ExitKeepsTypes DEF LinkNobody, KeepAll, links, maps
  <1>4. CASE TestSlot(t)
    <2>1. /\ Settled /\ UNCHANGED listed
          /\ th[t].pc = "link" /\ th[t].at < Len(Ends[th[t].job])
      BY <1>4, QuietSettles DEF TestSlot, Linking, At, KeepAll, links, maps
    <2>2. /\ Links(t) /\ FitLink(t) /\ NextEnd(t).side \in {"out", "in"}
          /\ th[t].at \in Nat /\ Len(Ends[th[t].job]) \in Nat
      <3>1. Links(t) /\ FitLink(t)
        BY <1>1, <2>1, LabelsFact DEF Links, Fit
      <3> QED BY <2>1, <3>1, NextEndFact DEF EndRecords
    <2>3. CASE th' = [th EXCEPT ![t].at = @ + 1]
      <3>1. /\ th'[t].pc = "link" /\ th'[t].at = th[t].at + 1 /\ th'[t].job = th[t].job
            /\ th'[t].weak = th[t].weak /\ \A u \in Actors \ {t} : th'[u] = th[u]
        BY <1>1, <2>1, <2>3 DEF ShapeInv, Fields
      <3>2. FitLink(t)' /\ th'[t].pc \in AtLink
        BY <2>1, <2>2, <3>1 DEF FitLink, Setting, AtLink
      <3> QED BY <2>1, <2>2, <3>1, <3>2, LinkMoveFits
    <2>4. CASE Throw(t)
      BY <1>1, <2>1, <2>4, DoneKeepsTypes
    <2>5. CASE Exists(NextEnd(t)) /\ Goto(t, Begin(NextEnd(t)))
      <3>1. PICK l : l = Begin(NextEnd(t))
        OBVIOUS
      <3>2. /\ th'[t].pc = l /\ th'[t].job = th[t].job /\ th'[t].at = th[t].at
            /\ th'[t].weak = th[t].weak /\ \A u \in Actors \ {t} : th'[u] = th[u]
        BY <1>1, <2>5, <3>1, GotoThread
      <3>3. NextEnd(t)' = NextEnd(t)
        BY <3>2 DEF NextEnd
      <3>4. FitLink(t)' /\ th'[t].pc \in AtLink
        BY <2>1, <2>2, <2>5, <3>1, <3>2, <3>3, LabelsFact DEF FitLink, Begin
      <3> QED BY <2>1, <2>2, <3>2, <3>4, LinkMoveFits
    <2> QED BY <1>4, <2>3, <2>4, <2>5 DEF TestSlot
  <1>5. CASE SetImpl(t)
    BY <1>1, <1>5, SlotKeepsTypes DEF SlotStep
  <1>6. CASE AllLinked(t)
    <2>1. Settled /\ th[t].pc = "link" /\ Links(t)
      BY <1>6, QuietSettles, LabelsFact DEF AllLinked, At, KeepAll, links, maps, Links
    <2>2. PICK l : l = IF t = Main THEN "ensureBinding" ELSE "insertBinding"
      OBVIOUS
    <2>3. /\ th'[t].pc = l /\ th'[t].job = th[t].job
          /\ th'[t].weak = th[t].weak /\ \A u \in Actors \ {t} : th'[u] = th[u]
      BY <1>1, <1>6, <2>2, GotoThread DEF AllLinked
    <2>4. th[t].job \in BindingConfigs /\ Bound(th[t].job, th[t].weak)
      BY <1>1, <2>1 DEF Fit
    <2>5. Bound(th[t].job, th[t].weak)'
      BY <2>1, <2>3, <2>4 DEF Bound, Settled, Grows
    <2>6. Fit(t)'
      BY <2>2, <2>3, <2>4, <2>5, LabelsFact
         DEF Fit, HasPostboy, ToLink, Links, HasLinked, RunPositions
    <2> QED BY <1>1, <2>1, <2>3, <2>6, MoveKeepsTypes, ActorsFact
  <1>7. CASE InsertBinding(t)
    <2>1. /\ th[t].job \in BindingConfigs /\ Bound(th[t].job, th[t].weak)
          /\ UNCHANGED <<todo, postboys, heap, single, queues, slots, listed>>
      BY <1>1, <1>7 DEF InsertBinding, At, Fit, HasLinked, links
    <2>2. HeapInv' /\ Grows
      BY <2>1, QuietGrows DEF TInv, HeapInv, Born, slots
    <2>3. \A n \in DOMAIN bindings' : bindings'[n].config \in BindingConfigs
                                      /\ Bound(bindings'[n].config, bindings'[n].weak)
      BY <1>7, <2>1 DEF InsertBinding, With, TInv, MapInv
    <2>4. MapInv'
      BY <2>1, <2>2, <2>3 DEF TInv, MapInv, Grows, Bound
    <2> QED BY <1>1, <1>7, <2>1, <2>2, <2>4, DoneKeepsTypes DEF InsertBinding, Settled
  <1> QED BY <1>2, <1>3, <1>4, <1>5, <1>6, <1>7, SetupKeepsTypes DEF Bind

LEMMA RunKeepsTypes ==
  ASSUME IInv, TInv, NEW t \in Threads, Run(t) PROVE TInv'
  <1>1. t \in Actors /\ ShapeInv /\ Fit(t)
    BY ActorsFact DEF IInv, TInv
  <1>2. CASE FindToRun(t)
    <2>1. Settled /\ UNCHANGED listed
      BY <1>2, QuietSettles DEF FindToRun, KeepAll, links, maps
    <2>2. CASE th[t].job \in DOMAIN postboys
      <3>1. th' = [th EXCEPT ![t].at = postboys[th[t].job], ![t].pc = "checkState"]
        BY <1>2, <2>2 DEF FindToRun
      <3>2. /\ th'[t].pc = "checkState" /\ th'[t].at = postboys[th[t].job]
            /\ \A u \in Actors \ {t} : th'[u] = th[u]
        BY <1>1, <3>1 DEF ShapeInv, Fields
      <3>3. th'[t].at \in Born'
        BY <2>1, <2>2, <3>2 DEF TInv, MapInv, Settled, Grows
      <3>4. Fit(t)'
        BY <3>2, <3>3, LabelsFact DEF Fit, HasPostboy, ToLink, Links, HasLinked, RunPositions
      <3> QED BY <1>1, <2>1, <3>2, <3>4, MoveKeepsTypes, ActorsFact
    <2>3. CASE th[t].job \notin DOMAIN postboys
      BY <1>1, <1>2, <2>1, <2>3, DoneKeepsTypes DEF FindToRun
    <2> QED BY <2>2, <2>3
  <1>3. CASE RunNobody(t)
    BY <1>1, <1>3, QuietSettles, ExitKeepsTypes DEF RunNobody, KeepAll, links, maps
  <1>4. CASE CheckState(t) \/ EnsureState(t) \/ EnsureNoThread(t) \/ JoinThread(t)
    <2>1. Settled /\ UNCHANGED listed
      BY <1>4, QuietSettles DEF CheckState, EnsureState, EnsureNoThread, JoinThread, KeepAll, links, maps
    <2>2. HasPostboy(t)
      BY <1>4 DEF CheckState, EnsureState, EnsureNoThread, JoinThread, AtLiving, At, HasPostboy,
         RunPositions
    <2>3. Suits(t, "ensureState") /\ Suits(t, "ensureThread") /\ Suits(t, "store") /\ Suits(t, "start")
      BY <2>2 DEF Suits, RunPositions
    <2> QED BY <1>1, <1>4, <2>1, <2>3, GotoKeepsTypes, DoneKeepsTypes
        DEF CheckState, EnsureState, EnsureNoThread, JoinThread
  <1>5. CASE StoreRunning(t)
    <2>1. HasPostboy(t) /\ heap' = [heap EXCEPT ![th[t].at].state = "Running"] /\ Goto(t, "emplace")
      BY <1>5 DEF StoreRunning, AtLiving, At, HasPostboy, RunPositions
    <2>2. PICK o \in Born : o = th[t].at
      BY <1>1, <2>1 DEF Fit
    <2>3. o \in Workers /\ heap[o].name \in Names
      BY DEF TInv, HeapInv, Born
    <2>4. PICK r : r = [heap[o] EXCEPT !.state = "Running"]
      OBVIOUS
    <2>5. heap[o] \in [name : Names \cup {None}, state : States, threads : Nat]
      BY <2>3 DEF TInv, HeapInv
    <2>6. /\ r \in [name : Names \cup {None}, state : States, threads : Nat]
          /\ r.name = heap[o].name /\ r.state = "Running" /\ r.threads = heap[o].threads
      BY <2>4, <2>5 DEF States
    <2>7. heap' = [heap EXCEPT ![o] = r]
      BY <2>1, <2>2, <2>4
    <2>8. r.threads >= heap[o].threads /\ r.state # "unborn"
      BY <2>5, <2>6
    <2>9. Settled
      BY <1>5, <2>3, <2>6, <2>7, <2>8, HeapSettles DEF StoreRunning, links, maps
    <2> QED BY <1>1, <2>1, <2>9, GotoKeepsTypes DEF Suits, RunPositions
  <1>6. CASE StartThread(t)
    <2>1. HasPostboy(t) /\ heap' = [heap EXCEPT ![th[t].at].threads = @ + 1] /\ UNCHANGED listed
      BY <1>6 DEF StartThread, AtLiving, At, HasPostboy, RunPositions, maps
    <2>2. PICK o \in Born : o = th[t].at
      BY <1>1, <2>1 DEF Fit
    <2>3. o \in Workers /\ heap[o].name \in Names
      BY DEF TInv, HeapInv, Born
    <2>4. PICK r : r = [heap[o] EXCEPT !.threads = @ + 1]
      OBVIOUS
    <2>5. heap[o] \in [name : Names \cup {None}, state : States, threads : Nat]
      BY <2>3 DEF TInv, HeapInv
    <2>6. /\ r \in [name : Names \cup {None}, state : States, threads : Nat]
          /\ r.name = heap[o].name /\ r.state = heap[o].state /\ r.threads = heap[o].threads + 1
      BY <2>4, <2>5
    <2>7. heap' = [heap EXCEPT ![o] = r]
      BY <2>1, <2>2, <2>4
    <2>8. r.threads >= heap[o].threads /\ r.threads > 0 /\ r.state # "unborn"
      BY <2>5, <2>6 DEF Born
    <2>9. Settled /\ o \in Born' /\ heap'[o] = r
      <3>1. heap'[o] = r
        BY <2>3, <2>7 DEF TInv, HeapInv
      <3> QED BY <1>6, <2>3, <2>6, <2>7, <2>8, <3>1, HeapSettles DEF StartThread, links, maps
    <2>10. /\ th'[t].pc \in {"run", "idle"} /\ \A a \in Actors \ {t, o} : th'[a] = th[a]
           /\ th'[o] = th[o] \/ th'[o].pc = "process"
      BY <1>1, <1>6, <2>1, <2>2, <2>3, StartFact
    <2>11. Fit(t)'
      BY <2>10, UnfitIsFit, FittedFact
    <2>12. \A u \in Threads : Fit(u)'
      BY <2>3, <2>9, <2>10, <2>11, FitKept, ActorsFact
    <2>13. FitWorker(o)'
      <3>1. CASE th'[o] = th[o]
        BY <2>3, <2>9, <3>1, FitWorkerKept
      <3>2. CASE th'[o].pc = "process"
        BY <2>8, <2>9, <3>2 DEF FitWorker, WorkerLabels
      <3> QED BY <2>10, <3>1, <3>2
    <2>14. \A p \in Workers : FitWorker(p)'
      BY <2>9, <2>10, <2>13, FitWorkerKept, ActorsFact
    <2> QED BY <2>9, <2>12, <2>14 DEF TInv, Settled
  <1> QED BY <1>2, <1>3, <1>4, <1>5, <1>6 DEF Run

LEMMA RequestKeepsTypes ==
  ASSUME IInv, TInv, NEW t \in Handlers, NEW what, NEW l, Request(t, l, what),
         \/ l = "findPostboy" /\ what \in Names
         \/ l = "findToRun"
         \/ l = "findBinding" /\ what \in BindingConfigs
  PROVE  TInv'
  <1>1. t \in Threads /\ t \in Actors /\ t # Main /\ ShapeInv
    BY ActorsFact DEF IInv
  <1>2. Settled
    BY QuietSettles DEF Request, KeepAll, links, maps
  <1>3. /\ th'[t].pc = l /\ th'[t].job = what /\ \A u \in Actors \ {t} : th'[u] = th[u]
    BY <1>1 DEF Request, ShapeInv, Fields
  <1>4. Fit(t)'
    BY <1>1, <1>3, LabelsFact DEF Fit, HasPostboy, ToLink, Links, HasLinked, RunPositions
  <1> QED BY <1>1, <1>2, <1>3, <1>4, MoveKeepsTypes, ActorsFact

LEMMA WorkKeepsTypes ==
  ASSUME IInv, TInv, NEW o \in Workers, Work(o) PROVE TInv'
  <1>1. o \in Actors /\ o \notin Threads /\ ShapeInv /\ FitWorker(o)
    BY ActorsFact DEF IInv, TInv
  <1>2. o \in Born /\ heap[o].name \in Names /\ heap[o].threads > 0
    <2>1. th[o].pc \notin {"none", "exited"}
      BY DEF Work, LeaveLoop, UnlinkInput, TestOutput, Finish, At
    <2> QED BY <1>1, <2>1 DEF FitWorker, TInv, HeapInv
  <1>3. CASE LeaveLoop(o) \/ UnlinkInput(o) \/ TestOutput(o)
    <2>1. Settled /\ UNCHANGED heap
      <3>1. CASE LeaveLoop(o) \/ TestOutput(o)
        BY <3>1, QuietSettles DEF LeaveLoop, TestOutput, KeepAll, links, maps
      <3>2. CASE UnlinkInput(o)
        <4>1. None \in 0 .. queues
          BY DEF TInv, HeapInv, None
        <4> QED BY <3>2, <4>1, SlotsSettle DEF UnlinkInput, KeepRest, maps, TInv, HeapInv
      <3> QED BY <1>3, <3>1, <3>2
    <2>2. /\ \A u \in Actors \ {o} : th'[u] = th[u]
          /\ \/ th'[o].pc = "finish"
             \/ th'[o].pc \in {"testOutputs", "clear"} /\ th'[o].at \in DOMAIN Outputs[heap[o].name]
             \/ th'[o].pc = "unlinkInputs" /\ th'[o].at \in DOMAIN Inputs[heap[o].name]
      <3>1. CASE LeaveLoop(o)
        <4>1. th'[o].at = 1 /\ th'[o].pc = ToInputs(o) /\ \A u \in Actors \ {o} : th'[u] = th[u]
          BY <1>1, <3>1 DEF LeaveLoop, ShapeInv, Fields
        <4> QED BY <1>2, <4>1, SidesFact DEF ToInputs, ToOutputs
      <3>2. CASE UnlinkInput(o)
        <4>1. th[o].pc = "unlinkInputs" /\ th[o].at \in DOMAIN Inputs[heap[o].name]
          BY <1>1, <3>2 DEF UnlinkInput, At, FitWorker
        <4>2. CASE th[o].at < Len(Inputs[heap[o].name])
          <5>1. /\ th'[o].at = th[o].at + 1 /\ th'[o].pc = th[o].pc
                /\ \A u \in Actors \ {o} : th'[u] = th[u]
            BY <1>1, <3>2, <4>2 DEF UnlinkInput, ShapeInv, Fields
          <5> QED BY <1>2, <4>1, <4>2, <5>1, SidesFact
        <4>3. CASE ~(th[o].at < Len(Inputs[heap[o].name]))
          <5>1. /\ th'[o].at = 1 /\ th'[o].pc = ToOutputs(o)
                /\ \A u \in Actors \ {o} : th'[u] = th[u]
            BY <1>1, <3>2, <4>3 DEF UnlinkInput, ShapeInv, Fields
          <5> QED BY <1>2, <5>1, SidesFact DEF ToOutputs
        <4> QED BY <4>2, <4>3
      <3>3. CASE TestOutput(o)
        <4>1. th[o].pc = "testOutputs" /\ th[o].at \in DOMAIN Outputs[heap[o].name]
          BY <1>1, <3>3 DEF TestOutput, At, FitWorker
        <4>2. CASE Goto(o, "finish")
          BY <1>1, <4>2, GotoThread
        <4>3. CASE th[o].at < Len(Outputs[heap[o].name]) /\ th' = [th EXCEPT ![o].at = @ + 1]
          <5>1. /\ th'[o].at = th[o].at + 1 /\ th'[o].pc = th[o].pc
                /\ \A u \in Actors \ {o} : th'[u] = th[u]
            BY <1>1, <4>3 DEF ShapeInv, Fields
          <5> QED BY <1>2, <4>1, <4>3, <5>1, SidesFact
        <4>4. CASE th' = [th EXCEPT ![o].at = 1, ![o].pc = "clear"]
          <5>1. 1 \in DOMAIN Outputs[heap[o].name]
            BY <1>2, <4>1, SidesFact
          <5> QED BY <1>1, <4>4, <5>1 DEF ShapeInv, Fields
        <4> QED BY <3>3, <4>2, <4>3, <4>4 DEF TestOutput
      <3> QED BY <1>3, <3>1, <3>2, <3>3
    <2>3. o \in Born'
      BY <1>2, <2>1 DEF Settled, Grows
    <2>4. FitWorker(o)'
      BY <1>2, <2>1, <2>2, <2>3 DEF FitWorker, WorkerLabels
    <2> QED BY <1>1, <2>1, <2>2, <2>4, MoveKeepsTypes, ActorsFact
  <1>4. CASE Finish(o)
    <2>1. PICK r : r = [heap[o] EXCEPT !.state = "Finished"]
      OBVIOUS
    <2>2. heap[o] \in [name : Names \cup {None}, state : States, threads : Nat]
      BY DEF TInv, HeapInv
    <2>3. /\ r \in [name : Names \cup {None}, state : States, threads : Nat]
          /\ r.name = heap[o].name /\ r.state = "Finished" /\ r.threads = heap[o].threads
      BY <2>1, <2>2 DEF States
    <2>4. heap' = [heap EXCEPT ![o] = r] /\ heap'[o] = r
      BY <1>4, <2>1 DEF Finish, TInv, HeapInv
    <2>5. r.threads >= heap[o].threads /\ r.state # "unborn"
      BY <2>2, <2>3
    <2>6. Settled /\ o \in Born'
      BY <1>2, <1>4, <2>3, <2>4, <2>5, HeapSettles DEF Finish, links, maps
    <2>7. th'[o].pc = "finished" /\ \A u \in Actors \ {o} : th'[u] = th[u]
      BY <1>1, <1>4, GotoThread DEF Finish
    <2>8. FitWorker(o)'
      BY <1>2, <2>3, <2>4, <2>6, <2>7 DEF FitWorker, WorkerLabels
    <2> QED BY <1>1, <2>6, <2>7, <2>8, MoveKeepsTypes, ActorsFact
  <1> QED BY <1>3, <1>4 DEF Work

LEMMA SlotsFinite == IsFiniteSet(Slots)
  <1>1. IsFiniteSet(Workers)
    BY RuntimeAssumption, FS_Interval DEF Workers
  <1>2. IsFiniteSet({"in"} \cup {"out"})
    BY FS_Singleton, FS_Union
  <1> DEFINE U == UNION {DOMAIN Inputs[n] \cup DOMAIN Outputs[n] : n \in Names}
             S == Workers \X ({"in"} \cup {"out"})
             f == [p \in S \X U |-> <<p[1][1], p[1][2], p[2]>>]
  <1>3. IsFiniteSet(S \X U)
    BY <1>1, <1>2, RuntimeAssumption, FS_Product
  <1>4. f \in Surjection(S \X U, Slots)
    <2>1. \A p \in S \X U : f[p] \in Slots
      BY DEF Slots
    <2>2. \A s \in Slots : \E p \in S \X U : f[p] = s
      <3> TAKE s \in Slots
      <3>1. << <<s[1], s[2]>>, s[3]>> \in S \X U
        BY DEF Slots
      <3> WITNESS << <<s[1], s[2]>>, s[3]>> \in S \X U
      <3> QED BY <3>1 DEF Slots
    <2> QED BY <2>1, <2>2 DEF Surjection
  <1> HIDE DEF f, S, U
  <1> QED BY <1>3, <1>4, FS_Surjection

LEMMA DestroyKeepsTypes ==
  ASSUME IInv, TInv, NEW o \in Workers, Destroy(o) PROVE TInv'
  <1>1. UNCHANGED <<todo, heap, postboys, bindings, single, queues, listed>> /\ ShapeInv
    BY DEF Destroy, maps, IInv
  <1>2. CASE Exit /\ UNCHANGED slots
    BY <1>1, <1>2, QuietSettles, ExitKeepsTypes
  <1>3. CASE /\ producers' = [q \in Queues |-> producers[q] - Cardinality(Losing(o, q))]
             /\ impl' = [s \in Slots |-> IF s[1] = o THEN None ELSE impl[s]]
             /\ queue' = [s \in Slots |-> IF s[1] = o THEN None ELSE queue[s]]
             /\ UNCHANGED th
    <2>1. None \in 0 .. queues
      BY DEF TInv, HeapInv, None
    <2>2. \A q \in Queues : Cardinality(Losing(o, q)) \in Int
      <3>1. IsFiniteSet(Slots)
        BY SlotsFinite
      <3>2. \A q : Losing(o, q) \subseteq Slots
        BY DEF Losing
      <3> QED BY <3>1, <3>2, FS_Subset, FS_CardinalityType
    <2>3. producers' \in [Queues -> Int]
      <3>1. \A q \in Queues : producers[q] - Cardinality(Losing(o, q)) \in Int
        BY <2>2 DEF TInv, HeapInv
      <3> QED BY <1>3, <3>1
    <2>4. impl' \in [Slots -> 0 .. queues] /\ queue' \in [Slots -> 0 .. queues]
      BY <1>3, <2>1 DEF TInv, HeapInv
    <2>5. Settled
      BY <1>1, <2>3, <2>4, SlotsSettle
    <2>6. (\A t \in Threads : Fit(t)') /\ \A p \in Workers : FitWorker(p)'
      BY <1>3, <2>5, FitKept, FitWorkerKept
    <2> QED BY <2>5, <2>6 DEF TInv, Settled
  <1> QED BY <1>2, <1>3 DEF Destroy, slots

LEMMA NextTypes == IInv /\ TInv /\ [Next]_vars => IInv' /\ TInv'
  <1> SUFFICES ASSUME IInv, TInv, [Next]_vars PROVE IInv' /\ TInv'
    OBVIOUS
  <1>1. CASE MainStep
    BY <1>1, MainKeepsInv, MainKeepsTypes
  <1>2. ASSUME NEW t \in Threads, Create(t) \/ Bind(t) \/ Run(t) PROVE IInv' /\ TInv'
    <2>1. th[t].pc \in RunPositions => th[t].at \in Workers
      BY <1>2 DEF TInv, Fit, HasPostboy, Born
    <2> QED BY <1>2, <2>1, CreateKeepsInv, BindKeepsInv, RunKeepsInv,
               CreateKeepsTypes, BindKeepsTypes, RunKeepsTypes
  <1>3. CASE \/ \E t \in Handlers, n \in Names : RequestPostboy(t, n) \/ RequestRun(t, n)
             \/ \E t \in Handlers, b \in BindingConfigs : RequestBinding(t, b)
    BY <1>3, RequestKeepsInv, RequestKeepsTypes DEF RequestPostboy, RequestRun, RequestBinding
  <1>4. CASE \E a \in Actors : Clear(a) \/ Decrease(a) \/ Reset(a) \/ Forget(a)
    BY <1>4, SlotKeepsInv, SlotKeepsTypes DEF SlotStep
  <1>5. CASE \E o \in Workers : Work(o) \/ Destroy(o)
    BY <1>5, WorkKeepsInv, WorkKeepsTypes, DestroyKeepsTypes
  <1>6. CASE UNCHANGED vars
    <2>1. Settled /\ UNCHANGED <<th, maps>>
      BY <1>6, QuietSettles DEF vars, links, maps
    <2>2. (\A t \in Threads : Fit(t)') /\ \A p \in Workers : FitWorker(p)'
      BY <2>1, FitKept, FitWorkerKept
    <2>3. TInv'
      BY <2>1, <2>2 DEF TInv, Settled
    <2>4. IInv'
      BY <2>1, MapsKept DEF IInv, ShapeInv, maps, Ready, PostboyListed, BindingListed
    <2> QED BY <2>3, <2>4
  <1> QED BY <1>1, <1>2, <1>3, <1>4, <1>5, <1>6 DEF Next, Step

\* The configuration the API serves lists every postboy and every binding that
\* exists, for any number of concurrent requests, also while some of them fail.
THEOREM WhatExistsIsListed == Spec => []ExistingIsListed
  <1>1. IInv => ExistingIsListed
    BY DEF IInv
  <1> QED BY <1>1, InitInv, InitTypes, NextTypes, PTL DEF Spec

-----------------------------------------------------------------------------
(* The slots and the counts, as long as no two actors come to one slot.     *)

\* An output slot is as it was left, but for the actor that is at it.
OutInv == \A s \in Slots : s[2] = "out" =>
  \/ impl[s] = queue[s]
  \/ \E a \in Actors : th[a].pc \in {"forget", "increase", "hold"} /\ Place(a) = s
InInv == \A s \in Slots : s[2] = "in" => queue[s] = None

\* What a thread finds at its slot, and a worker.
ThreadSlot(t) == th[t].pc \in Setting =>
  /\ impl[Place(t)] = None /\ th[t].pc # "decrease"
  /\ th[t].pc \in {"clear", "reset", "forget", "point"} => queue[Place(t)] = None
  /\ th[t].pc \in {"increase", "hold"} => queue[Place(t)] = th[t].weak.queue
WorkerSlot(o) ==
  /\ th[o].pc = "forget" => impl[Place(o)] = None
  /\ th[o].pc = "decrease" => impl[Place(o)] # None

\* Each thread links a queue of its own; where an SPSC binding has no producer
\* yet, nobody puts to its queue.
Distinct == \A t, u \in Threads :
  Links(t) /\ Links(u) /\ t # u => th[t].weak.queue # th[u].weak.queue
Unused(t) == \A s \in Slots : queue[s] = th[t].weak.queue =>
  th[t].pc \in {"increase", "hold"} /\ s = Place(t)
Own(t) == Links(t) =>
  /\ th[t].weak.queue \in single => th[t].job.type = "SPSC"
  /\ th[t].job.type = "SPSC" /\ th[t].at = 0 => Unused(t)

CountInv == \A q \in Queues : producers[q] = Cardinality(LinksTo(q))

LinkInv ==
  /\ ~Contest /\ OutInv /\ InInv
  /\ \A t \in Threads : ThreadSlot(t)
  /\ \A o \in Workers : WorkerSlot(o)
  /\ Distinct /\ \A t \in Threads : Own(t)
  /\ CountInv

\* The positions in which a slot that puts to a queue is not counted.
Between == {"increase", "reset", "forget"}

-----------------------------------------------------------------------------
LEMMA PlaceKept ==
  ASSUME NEW a \in Actors, th'[a] = th[a] PROVE Place(a)' = Place(a)
  BY DEF Place, Object, NextEnd

LEMMA LinksFinite == \A q : IsFiniteSet(LinksTo(q)) /\ IsFiniteSet(LinksTo(q)')
  <1>1. \A q : LinksTo(q) \subseteq Slots /\ LinksTo(q)' \subseteq Slots
    BY DEF LinksTo
  <1> QED BY <1>1, SlotsFinite, FS_Subset

\* Actor a does something at slot p, at which nobody else is.
AtPlace(a, p) ==
  /\ \A u \in Actors \ {a} : th'[u] = th[u]
  /\ \A u \in Actors \ {a} : th[u].pc \in Setting => Place(u) # p
  /\ th[a].pc \in Setting => Place(a) = p
  /\ th'[a].pc \in Between \cup {"hold"} => Place(a)' = p
  /\ \A s \in Slots \ {p} : impl'[s] = impl[s] /\ queue'[s] = queue[s]

LEMMA ElsewhereKept ==
  ASSUME TInv, LinkInv, NEW a \in Actors, NEW p \in Slots, AtPlace(a, p)
  PROVE  /\ \A s \in Slots \ {p} : s[2] = "out" =>
              \/ impl'[s] = queue'[s]
              \/ \E u \in Actors : th'[u].pc \in {"forget", "increase", "hold"} /\ Place(u)' = s
         /\ \A t \in Threads \ {a} : ThreadSlot(t)'
         /\ \A o \in Workers \ {a} : WorkerSlot(o)'
  <1>1. \A u \in Actors \ {a} : th'[u] = th[u] /\ Place(u)' = Place(u)
    BY PlaceKept DEF AtPlace
  <1>2. \A l \in {"forget", "increase", "hold", "decrease"} : l \in Setting
    BY DEF Setting
  <1>3. ASSUME NEW s \in Slots \ {p}, s[2] = "out"
        PROVE  \/ impl'[s] = queue'[s]
               \/ \E u \in Actors : th'[u].pc \in {"forget", "increase", "hold"} /\ Place(u)' = s
    <2>1. impl'[s] = impl[s] /\ queue'[s] = queue[s]
      BY DEF AtPlace
    <2>2. CASE impl[s] = queue[s]
      BY <2>1, <2>2
    <2>3. CASE impl[s] # queue[s]
      <3>1. PICK u \in Actors : th[u].pc \in {"forget", "increase", "hold"} /\ Place(u) = s
        BY <1>3, <2>3 DEF LinkInv, OutInv
      <3>2. u # a
        BY <1>2, <3>1 DEF AtPlace
      <3> QED BY <1>1, <3>1, <3>2
    <2> QED BY <2>2, <2>3
  <1>4. ASSUME NEW u \in Actors \ {a}, th[u].pc \in Setting
        PROVE  impl'[Place(u)] = impl[Place(u)] /\ queue'[Place(u)] = queue[Place(u)]
    BY <1>4, PlaceFact DEF AtPlace
  <1>5. ASSUME NEW t \in Threads \ {a} PROVE ThreadSlot(t)'
    <2>1. t \in Actors \ {a} /\ ThreadSlot(t)
      BY ActorsFact DEF LinkInv
    <2> QED BY <1>1, <1>4, <2>1 DEF ThreadSlot
  <1>6. ASSUME NEW o \in Workers \ {a} PROVE WorkerSlot(o)'
    <2>1. o \in Actors \ {a} /\ WorkerSlot(o)
      BY ActorsFact DEF LinkInv
    <2> QED BY <1>1, <1>2, <1>4, <2>1 DEF WorkerSlot
  <1> QED BY <1>3, <1>5, <1>6

\* Which slots are counted before and after such a step.
LEMMA CountedKept ==
  ASSUME TInv, NEW a \in Actors, NEW p \in Slots, AtPlace(a, p), NEW q
  PROVE  /\ LinksTo(q)' \ {p} = LinksTo(q) \ {p}
         /\ p \in LinksTo(q) <=> queue[p] = q /\ ~(th[a].pc \in Between)
         /\ p \in LinksTo(q)' <=> queue'[p] = q /\ ~(th'[a].pc \in Between)
  <1>1. \A u \in Actors \ {a} : th'[u] = th[u] /\ Place(u)' = Place(u)
    BY PlaceKept DEF AtPlace
  <1>2. \A l \in Between : l \in Setting
    BY DEF Setting, Between
  <1>3. \A u \in Actors \ {a} : th[u].pc \in Between => Place(u) # p
    BY <1>2 DEF AtPlace
  <1>4. /\ th[a].pc \in Between => Place(a) = p
        /\ th'[a].pc \in Between => Place(a)' = p
    BY <1>2 DEF AtPlace
  <1>5. \A s \in Slots \ {p} :
          /\ (\E u \in Actors : th[u].pc \in Between /\ Place(u) = s)
               <=> \E u \in Actors \ {a} : th[u].pc \in Between /\ Place(u) = s
          /\ (\E u \in Actors : th'[u].pc \in Between /\ Place(u)' = s)
               <=> \E u \in Actors \ {a} : th'[u].pc \in Between /\ Place(u)' = s
    BY <1>4
  <1>6. \A s \in Slots \ {p} :
          (\E u \in Actors : th'[u].pc \in Between /\ Place(u)' = s)
            <=> \E u \in Actors : th[u].pc \in Between /\ Place(u) = s
    BY <1>1, <1>5
  <1>7. \A s \in Slots \ {p} : s \in LinksTo(q)' <=> s \in LinksTo(q)
    BY <1>6 DEF AtPlace, LinksTo, Between
  <1>8. LinksTo(q)' \ {p} = LinksTo(q) \ {p}
    <2>1. LinksTo(q) \subseteq Slots /\ LinksTo(q)' \subseteq Slots
      BY DEF LinksTo
    <2> QED BY <1>7, <2>1
  <1>9. p \in LinksTo(q) <=> queue[p] = q /\ ~(th[a].pc \in Between)
    BY <1>3, <1>4 DEF LinksTo, Between
  <1>10. p \in LinksTo(q)' <=> queue'[p] = q /\ ~(th'[a].pc \in Between)
    BY <1>1, <1>3, <1>4 DEF LinksTo, Between
  <1> QED BY <1>8, <1>9, <1>10

\* How the count of one queue changes with its slots.
LEMMA OneMore ==
  ASSUME NEW S, NEW T, NEW p, IsFiniteSet(S), IsFiniteSet(T), S \ {p} = T \ {p}
  PROVE  /\ (p \in S <=> p \in T) => Cardinality(T) = Cardinality(S)
         /\ p \notin S /\ p \in T => Cardinality(T) = Cardinality(S) + 1
         /\ p \in S /\ p \notin T => Cardinality(T) = Cardinality(S) - 1
  <1>1. CASE p \in S <=> p \in T
    <2>1. S = T
      BY <1>1
    <2> QED BY <1>1, <2>1
  <1>2. CASE p \notin S /\ p \in T
    <2>1. T = S \cup {p}
      BY <1>2
    <2> QED BY <1>2, <2>1, FS_AddElement, FS_CardinalityType
  <1>3. CASE p \in S /\ p \notin T
    <2>1. S = T \cup {p}
      BY <1>3
    <2> QED BY <1>3, <2>1, FS_AddElement, FS_CardinalityType
  <1> QED BY <1>1, <1>2, <1>3

\* A step at one slot keeps the invariant, if it does so at that slot.
LEMMA PlaceStep ==
  ASSUME TInv, LinkInv, ~Contest', NEW a \in Actors, NEW p \in Slots, AtPlace(a, p),
         p[2] = "out" => impl'[p] = queue'[p] \/ (th'[a].pc \in {"forget", "increase", "hold"}),
         p[2] = "in" => queue'[p] = None,
         a \in Threads => ThreadSlot(a)', a \in Workers => WorkerSlot(a)',
         Distinct', \A t \in Threads : Own(t)',
         \A q \in Queues : producers'[q] = producers[q] + (IF p \in LinksTo(q)' THEN 1 ELSE 0)
                                                        - (IF p \in LinksTo(q) THEN 1 ELSE 0)
  PROVE  LinkInv'
  <1>1. OutInv'
    <2>1. ASSUME NEW s \in Slots, s[2] = "out"
          PROVE  \/ impl'[s] = queue'[s]
                 \/ \E u \in Actors : th'[u].pc \in {"forget", "increase", "hold"} /\ Place(u)' = s
      <3>1. CASE s = p
        <4>1. th'[a].pc \in {"forget", "increase", "hold"} => Place(a)' = p
          BY DEF AtPlace, Between
        <4> QED BY <2>1, <3>1, <4>1
      <3>2. CASE s # p
        BY <2>1, <3>2, ElsewhereKept
      <3> QED BY <3>1, <3>2
    <2> QED BY <2>1 DEF OutInv
  <1>2. InInv'
    BY DEF InInv, LinkInv, AtPlace
  <1>3. (\A t \in Threads : ThreadSlot(t)') /\ \A o \in Workers : WorkerSlot(o)'
    BY ElsewhereKept
  <1>4. CountInv'
    <2>1. ASSUME NEW q \in Queues PROVE producers'[q] = Cardinality(LinksTo(q)')
      <3>1. LinksTo(q)' \ {p} = LinksTo(q) \ {p}
        BY CountedKept
      <3>2. producers[q] = Cardinality(LinksTo(q)) /\ Cardinality(LinksTo(q)) \in Nat
        BY LinksFinite, FS_CardinalityType DEF LinkInv, CountInv
      <3>3. PICK S, T : S = LinksTo(q) /\ T = LinksTo(q)'
        OBVIOUS
      <3>4. IsFiniteSet(S) /\ IsFiniteSet(T)
        BY <3>3, LinksFinite
      <3> QED BY <3>1, <3>2, <3>3, <3>4, OneMore
    <2> QED BY <2>1 DEF CountInv
  <1> QED BY <1>1, <1>2, <1>3, <1>4 DEF LinkInv
-----------------------------------------------------------------------------
LEMMA SettingFact ==
  Setting = {"clear", "decrease", "reset", "forget", "point", "increase", "hold",
             "clearInput", "holdInput"}
  BY DEF Setting

\* No actor begins or ends to set a slot, or goes on with it; an input slot may be
\* cleared, for that a worker does besides.
QuietSlots ==
  /\ UNCHANGED <<queue, producers>>
  /\ \A s \in Slots : impl'[s] = impl[s] \/ (s[2] = "in" /\ impl'[s] = None)
  /\ \A u \in Actors : th'[u] = th[u] \/ (th[u].pc \notin Setting /\ th'[u].pc \notin Setting)

LEMMA QuietKeepsSlots ==
  ASSUME TInv, LinkInv, QuietSlots
  PROVE  /\ OutInv' /\ InInv' /\ CountInv'
         /\ \A t \in Threads : ThreadSlot(t)'
         /\ \A o \in Workers : WorkerSlot(o)'
         /\ \A u \in Actors : th'[u].pc \in Setting => th'[u] = th[u] /\ Place(u)' = Place(u)
  <1>1. \A u \in Actors : th[u].pc \in Setting \/ th'[u].pc \in Setting
                            => th'[u] = th[u] /\ Place(u)' = Place(u)
    BY PlaceKept DEF QuietSlots
  <1>2. \A l \in {"forget", "increase", "hold", "decrease", "reset"} : l \in Setting
    BY DEF Setting
  <1>3. OutInv'
    <2>1. \A s \in Slots : s[2] = "out" => impl'[s] = impl[s] /\ queue'[s] = queue[s]
      BY DEF QuietSlots
    <2> QED BY <1>1, <1>2, <2>1 DEF OutInv, LinkInv
  <1>4. InInv'
    BY DEF InInv, LinkInv, QuietSlots
  <1>5. \A q : LinksTo(q)' = LinksTo(q)
    BY <1>1, <1>2 DEF QuietSlots, LinksTo
  <1>6. CountInv'
    BY <1>5 DEF CountInv, LinkInv, QuietSlots
  <1>7. \A t \in Threads : ThreadSlot(t)'
    <2>1. ASSUME NEW t \in Threads, th'[t].pc \in Setting PROVE ThreadSlot(t)'
      <3>1. th'[t] = th[t] /\ Place(t)' = Place(t) /\ ThreadSlot(t) /\ Place(t) \in Slots
        BY <1>1, <2>1, PlaceFact, ActorsFact DEF LinkInv
      <3>2. impl[Place(t)] = None => impl'[Place(t)] = None
        BY <3>1 DEF QuietSlots
      <3> QED BY <2>1, <3>1, <3>2 DEF ThreadSlot, QuietSlots
    <2> QED BY <2>1 DEF ThreadSlot
  <1>8. \A o \in Workers : WorkerSlot(o)'
    <2>1. ASSUME NEW o \in Workers, th'[o].pc \in {"forget", "decrease"} PROVE WorkerSlot(o)'
      <3>1. th'[o] = th[o] /\ Place(o)' = Place(o) /\ WorkerSlot(o) /\ Place(o) \in Slots
            /\ Place(o) = <<o, "out", th[o].at>>
        BY <1>1, <1>2, <2>1, PlaceFact, ActorsFact DEF LinkInv
      <3>2. impl'[Place(o)] = impl[Place(o)]
        BY <3>1 DEF QuietSlots
      <3> QED BY <2>1, <3>1, <3>2 DEF WorkerSlot, QuietSlots
    <2> QED BY <2>1 DEF WorkerSlot
  <1> QED BY <1>1, <1>3, <1>4, <1>6, <1>7, <1>8

\* Nobody begins to link a binding; who goes on, does so at a later slot.
QuietMove(u) ==
  /\ th[u].pc \notin Setting /\ th'[u].pc \notin Setting
  /\ u = Main => th[u].pc # "exited"
  /\ u \in Threads /\ th'[u].pc = "link" =>
       /\ th[u].pc = "link" /\ th'[u].job = th[u].job /\ th'[u].weak = th[u].weak
       /\ th'[u].at = th[u].at + 1

QuietStep ==
  /\ UNCHANGED <<queue, producers, single>>
  /\ \A s \in Slots : impl'[s] = impl[s] \/ (s[2] = "in" /\ impl'[s] = None)
  /\ \A u \in Actors : th'[u] = th[u] \/ QuietMove(u)

LEMMA QuietKeepsLinks ==
  ASSUME TInv, LinkInv, QuietStep, ~Contest'
  PROVE  LinkInv'
  <1>1. QuietSlots
    BY DEF QuietStep, QuietSlots, QuietMove
  <1>2. ASSUME NEW t \in Threads, Links(t)'
        PROVE  /\ Links(t) /\ th'[t].weak = th[t].weak /\ th'[t].job = th[t].job
               /\ th'[t] = th[t] \/ (th'[t].pc = "link" /\ th[t].pc = "link" /\ th'[t].at # 0)
    <2>1. t \in Actors
      BY ActorsFact
    <2>2. CASE th'[t] = th[t]
      BY <1>2, <2>2 DEF Links
    <2>3. CASE QuietMove(t)
      <3>1. th'[t].pc = "link" /\ th[t].pc = "link"
        BY <1>2, <2>3 DEF Links, AtLink, QuietMove
      <3>2. Links(t) /\ FitLink(t)
        BY <3>1 DEF Links, AtLink, TInv, Fit
      <3>3. th[t].at \in Nat
        BY <3>2 DEF FitLink
      <3> QED BY <2>3, <3>1, <3>2, <3>3 DEF QuietMove
    <2> QED BY <2>1, <2>2, <2>3 DEF QuietStep
  <1>3. Distinct'
    BY <1>2 DEF LinkInv, Distinct
  <1>4. ASSUME NEW t \in Threads PROVE Own(t)'
    <2>1. CASE Links(t)'
      <3>1. th'[t] = th[t] => Place(t)' = Place(t)
        BY PlaceKept, ActorsFact
      <3>2. Own(t)
        BY DEF LinkInv
      <3> QED BY <1>2, <2>1, <3>1, <3>2 DEF Own, Unused, QuietStep
    <2>2. CASE ~Links(t)'
      BY <2>2 DEF Own
    <2> QED BY <2>1, <2>2
  <1> QED BY <1>1, <1>3, <1>4, QuietKeepsSlots DEF LinkInv

-----------------------------------------------------------------------------
LEMMA InitLinks == Init => LinkInv
  <1> SUFFICES ASSUME Init PROVE LinkInv
    OBVIOUS
  <1>1. \A a \in Actors : th[a].pc \in {"collect", "idle", "none"}
    <2>1. \A l : Thread(l).pc = l
      BY DEF Thread
    <2> QED BY <2>1 DEF Init
  <1>2. \A a \in Actors : th[a].pc \notin AtLink /\ th[a].pc \notin Setting
    BY <1>1, LabelsFact DEF AtLink
  <1>3. ~Contest
    BY <1>2 DEF Contest, AtSlots, Init
  <1>4. OutInv /\ InInv
    BY DEF Init, OutInv, InInv
  <1>5. (\A t \in Threads : ThreadSlot(t) /\ Own(t)) /\ Distinct
    BY <1>2, ActorsFact DEF ThreadSlot, Own, Distinct, Links
  <1>6. \A o \in Workers : WorkerSlot(o)
    BY <1>1, ActorsFact DEF WorkerSlot
  <1>7. \A q \in Queues : LinksTo(q) = {}
    BY RuntimeAssumption DEF LinksTo, Init, Queues, None
  <1>8. CountInv
    BY <1>7, FS_EmptySet DEF CountInv, Init
  <1> QED BY <1>3, <1>4, <1>5, <1>6, <1>8 DEF LinkInv

\* The ways to move an actor that are quiet.
LEMMA DoneMove ==
  ASSUME ShapeInv, NEW a \in Actors, th[a].pc \notin Setting \cup {"exited"}, Done(a) \/ Throw(a)
  PROVE  Exit \/ \A u \in Actors : th'[u] = th[u] \/ QuietMove(u)
  <1>1. CASE Done(a)
    <2>1. th'[a].pc \in {"prepare", "idle"} /\ \A u \in Actors \ {a} : th'[u] = th[u]
      BY <1>1 DEF ShapeInv, Done, Thread
    <2> QED BY <2>1, LabelsFact DEF QuietMove, AtLink
  <1> QED BY <1>1 DEF Throw

LEMMA PlainMove ==
  ASSUME ShapeInv, NEW a \in Actors, th[a].pc \notin Setting \cup {"exited"},
         NEW l, l \notin AtLink,
         \/ Goto(a, l)
         \/ \E i : th' = [th EXCEPT ![a].at = i, ![a].pc = l]
         \/ \E j : th' = [th EXCEPT ![a].job = j, ![a].pc = l]
  PROVE  \A u \in Actors : th'[u] = th[u] \/ QuietMove(u)
  <1>1. th'[a].pc = l /\ \A u \in Actors \ {a} : th'[u] = th[u]
    BY DEF ShapeInv, Fields, Goto
  <1> QED BY <1>1 DEF QuietMove, AtLink

LEMMA MainIsQuiet ==
  ASSUME IInv, MainStep PROVE Exit \/ (QuietStep /\ UNCHANGED <<impl, destroyed, bindings>>)
  <1>1. Main \in Actors /\ ShapeInv
    BY ActorsFact DEF IInv
  <1>2. UNCHANGED <<queue, producers, single, impl, destroyed, bindings>>
    BY DEF MainStep, Collect, RunPrepared, NextPostboy, NextBinding, ValidateGraph, RunNext, AllRun,
       WaitFinished, KeepAll, links, slots, maps
  <1>3. th[Main].pc \in {"collect", "prepare", "run", "waitFinished"}
    BY DEF MainStep, Collect, RunPrepared, NextPostboy, NextBinding, ValidateGraph, RunNext, AllRun,
       WaitFinished, At
  <1>4. th[Main].pc \notin Setting \cup {"exited"}
    BY <1>3, SettingFact
  <1>5. Exit \/ \A u \in Actors : th'[u] = th[u] \/ QuietMove(u)
    <2>1. \A l \in {"prepare", "run", "serve", "waitFinished", "construct", "setup", "ensureState"} : l \notin AtLink
      BY LabelsFact
    <2>2. CASE RunPrepared
      BY <2>2 DEF RunPrepared
    <2>3. CASE ~RunPrepared
      <3>1. \/ Exit
            \/ \E l \in {"prepare", "run", "serve", "waitFinished", "construct", "setup", "ensureState"} :
                 \/ Goto(Main, l)
                 \/ \E i : th' = [th EXCEPT ![Main].at = i, ![Main].pc = l]
                 \/ \E j : th' = [th EXCEPT ![Main].job = j, ![Main].pc = l]
        BY <2>3 DEF MainStep, Collect, RunPrepared, NextPostboy, NextBinding, ValidateGraph, RunNext, AllRun,
           WaitFinished
      <3> QED BY <1>1, <1>4, <2>1, <3>1, PlainMove
    <2> QED BY <2>2, <2>3
  <1> QED BY <1>2, <1>5 DEF QuietStep

LEMMA CreateIsQuiet ==
  ASSUME IInv, NEW t \in Threads, Create(t)
  PROVE  Exit \/ (QuietStep /\ UNCHANGED <<impl, destroyed, bindings>>)
  <1>1. t \in Actors /\ ShapeInv
    BY ActorsFact DEF IInv
  <1>2. UNCHANGED <<queue, producers, single, impl, destroyed, bindings>>
    BY DEF Create, FindPostboy, EnsurePostboy, Construct, InitMetrics, InitPostboy, InsertPostboy,
       KeepAll, links, slots, maps
  <1>3. th[t].pc \in {"findPostboy", "ensurePostboy", "construct", "initMetrics", "init", "insertPostboy"}
    BY DEF Create, FindPostboy, EnsurePostboy, Construct, InitMetrics, InitPostboy, InsertPostboy, At
  <1>4. th[t].pc \notin Setting \cup {"exited"}
    BY <1>3, SettingFact
  <1>5. \A l \in {"ensurePostboy", "initMetrics", "construct", "init", "insertPostboy"} : l \notin AtLink
    BY LabelsFact
  <1>6. \/ Exit \/ Done(t) \/ Throw(t)
        \/ \E l \in {"ensurePostboy", "initMetrics", "construct", "init", "insertPostboy"} :
             \/ Goto(t, l)
             \/ \E i : th' = [th EXCEPT ![t].at = i, ![t].pc = l]
    BY DEF Create, FindPostboy, EnsurePostboy, Construct, InitMetrics, InitPostboy, InsertPostboy
  <1> QED BY <1>1, <1>2, <1>4, <1>5, <1>6, PlainMove, DoneMove DEF QuietStep

LEMMA BindIsQuiet ==
  ASSUME IInv, NEW t \in Threads,
         \/ FindBinding(t) \/ EnsureBinding(t) \/ LinkNobody(t) \/ AllLinked(t) \/ InsertBinding(t)
         \/ TestSlot(t) /\ ~Goto(t, Begin(NextEnd(t)))
  PROVE  Exit \/ (QuietStep /\ UNCHANGED <<impl, destroyed>>)
  <1>1. t \in Actors /\ ShapeInv
    BY ActorsFact DEF IInv
  <1>2. UNCHANGED <<queue, producers, single, impl, destroyed>>
    BY DEF FindBinding, EnsureBinding, LinkNobody, AllLinked, InsertBinding, TestSlot, KeepAll, links, slots
  <1>3. th[t].pc \in {"findBinding", "ensureBinding", "link", "insertBinding"}
    BY DEF FindBinding, EnsureBinding, LinkNobody, AllLinked, InsertBinding, TestSlot, Linking, At
  <1>4. th[t].pc \notin Setting \cup {"exited"}
    BY <1>3, SettingFact
  <1>5. \A l \in {"ensureBinding", "setup", "insertBinding"} : l \notin AtLink
    BY LabelsFact
  <1>6. \/ Exit \/ Done(t) \/ Throw(t)
        \/ \E l \in {"ensureBinding", "setup", "insertBinding"} : Goto(t, l)
        \/ th' = [th EXCEPT ![t].at = @ + 1] /\ th[t].pc = "link"
    BY DEF FindBinding, EnsureBinding, LinkNobody, AllLinked, InsertBinding, TestSlot, Linking, At
  <1>7. CASE th' = [th EXCEPT ![t].at = @ + 1] /\ th[t].pc = "link"
    <2>1. /\ th'[t].pc = "link" /\ th'[t].at = th[t].at + 1 /\ th'[t].job = th[t].job
          /\ th'[t].weak = th[t].weak /\ \A u \in Actors \ {t} : th'[u] = th[u]
      BY <1>1, <1>7 DEF ShapeInv, Fields
    <2>2. QuietMove(t)
      BY <1>4, <1>7, <2>1 DEF QuietMove
    <2> QED BY <1>2, <2>1, <2>2 DEF QuietStep
  <1> QED BY <1>1, <1>2, <1>4, <1>5, <1>6, <1>7, PlainMove, DoneMove DEF QuietStep

LEMMA RunIsQuiet ==
  ASSUME IInv, TInv, NEW t \in Threads, Run(t)
  PROVE  Exit \/ (QuietStep /\ UNCHANGED <<impl, destroyed, bindings>>)
  <1>1. t \in Actors /\ ShapeInv
    BY ActorsFact DEF IInv
  <1>2. UNCHANGED <<queue, producers, single, impl, destroyed, bindings>>
    BY DEF Run, FindToRun, RunNobody, CheckState, EnsureState, EnsureNoThread, StoreRunning, JoinThread,
       StartThread, KeepAll, links, slots, maps
  <1>3. th[t].pc \in {"findToRun"} \cup RunPositions
    BY DEF Run, FindToRun, RunNobody, CheckState, EnsureState, EnsureNoThread, StoreRunning, JoinThread,
       StartThread, AtLiving, At, RunPositions
  <1>4. th[t].pc \notin Setting \cup {"exited"}
    BY <1>3, SettingFact DEF RunPositions
  <1>5. \A l \in RunPositions : l \notin AtLink
    BY LabelsFact DEF RunPositions
  <1>6. CASE StartThread(t)
    <2>1. HasPostboy(t) /\ UNCHANGED listed
      BY <1>6 DEF StartThread, AtLiving, At, HasPostboy, RunPositions, maps
    <2>2. PICK o \in Workers : o = th[t].at
      BY <2>1 DEF TInv, Fit, Born
    <2>3. /\ th'[t].pc \in {"run", "idle"} /\ \A a \in Actors \ {t, o} : th'[a] = th[a]
          /\ \/ th'[o] = th[o]
             \/ th'[o].pc = "process" /\ (heap[o].threads = 0 \/ th[o].pc = "finished")
      BY <1>1, <1>6, <2>1, <2>2, StartFact
    <2>4. QuietMove(t)
      BY <1>4, <2>3, LabelsFact DEF QuietMove, AtLink
    <2>5. th'[o] = th[o] \/ QuietMove(o)
      <3>1. heap[o].threads = 0 => th[o].pc \in {"none", "exited"}
        BY DEF TInv, FitWorker
      <3>2. CASE th'[o].pc = "process" /\ th[o].pc \in {"none", "exited", "finished"}
        BY <3>2, SettingFact, ActorsFact DEF QuietMove
      <3> QED BY <2>3, <3>1, <3>2
    <2> QED BY <1>2, <2>3, <2>4, <2>5 DEF QuietStep
  <1>7. CASE ~StartThread(t)
    <2>1. \/ Exit \/ Done(t) \/ Throw(t)
          \/ \E l \in RunPositions :
               \/ Goto(t, l)
               \/ \E i : th' = [th EXCEPT ![t].at = i, ![t].pc = l]
      BY <1>7 DEF Run, FindToRun, RunNobody, CheckState, EnsureState, EnsureNoThread, StoreRunning,
         JoinThread, RunPositions
    <2>3. ASSUME Done(t) \/ Throw(t)
          PROVE  Exit \/ \A u \in Actors : th'[u] = th[u] \/ QuietMove(u)
      BY <1>1, <1>4, <2>3, DoneMove
    <2>4. ASSUME NEW l \in RunPositions,
                 \/ Goto(t, l)
                 \/ \E i : th' = [th EXCEPT ![t].at = i, ![t].pc = l]
          PROVE  Exit \/ \A u \in Actors : th'[u] = th[u] \/ QuietMove(u)
      BY <1>1, <1>4, <1>5, <2>4, PlainMove
    <2>5. CASE \E l \in RunPositions : Goto(t, l) \/ \E i : th' = [th EXCEPT ![t].at = i, ![t].pc = l]
      <3>1. PICK l \in RunPositions : Goto(t, l) \/ \E i : th' = [th EXCEPT ![t].at = i, ![t].pc = l]
        BY <2>5
      <3>2. Exit \/ \A u \in Actors : th'[u] = th[u] \/ QuietMove(u)
        BY <2>4, <3>1
      <3> QED BY <1>2, <3>2 DEF QuietStep
    <2>6. CASE Exit \/ Done(t) \/ Throw(t)
      BY <1>2, <2>3, <2>6 DEF QuietStep
    <2> QED BY <2>1, <2>5, <2>6
  <1> QED BY <1>6, <1>7

LEMMA RequestIsQuiet ==
  ASSUME IInv, NEW t \in Handlers, NEW what,
         NEW l \in {"findPostboy", "findBinding", "findToRun"}, Request(t, l, what)
  PROVE  QuietStep /\ UNCHANGED <<impl, destroyed, bindings>>
  <1>1. t \in Actors /\ t # Main /\ ShapeInv
    BY ActorsFact DEF IInv
  <1>2. UNCHANGED <<queue, producers, single, impl, destroyed, bindings>>
    BY DEF Request, KeepAll, links, slots, maps
  <1>3. th[t].pc \notin Setting \cup {"exited"} /\ l \notin AtLink
    BY LabelsFact, SettingFact DEF Request, At
  <1>4. th'[t].pc = l /\ \A u \in Actors \ {t} : th'[u] = th[u]
    BY <1>1 DEF Request, ShapeInv, Fields
  <1>5. QuietMove(t)
    BY <1>1, <1>3, <1>4 DEF QuietMove, AtLink
  <1> QED BY <1>2, <1>4, <1>5 DEF QuietStep

LEMMA WorkIsQuiet ==
  ASSUME IInv, TInv, NEW o \in Workers, Work(o)
  PROVE  \/ QuietStep
         \/ TestOutput(o) /\ th' = [th EXCEPT ![o].at = 1, ![o].pc = "clear"]
  <1>1. o \in Actors /\ o # Main /\ o \notin Threads /\ ShapeInv
    BY ActorsFact DEF IInv
  <1>2. UNCHANGED <<queue, producers, single, destroyed, bindings>>
    BY DEF Work, LeaveLoop, UnlinkInput, TestOutput, Finish, KeepAll, KeepRest, links, slots, maps
  <1>3. th[o].pc \in {"process", "unlinkInputs", "testOutputs", "finish"}
    BY DEF Work, LeaveLoop, UnlinkInput, TestOutput, Finish, At
  <1>4. th[o].pc \notin Setting
    BY <1>3, SettingFact
  <1>5. \A s \in Slots : impl'[s] = impl[s] \/ (s[2] = "in" /\ impl'[s] = None)
    <2>1. CASE UnlinkInput(o)
      <3>1. PICK p : p = <<o, "in", th[o].at>>
        OBVIOUS
      <3>2. impl' = [impl EXCEPT ![p] = None] /\ p[2] = "in"
        BY <2>1, <3>1 DEF UnlinkInput
      <3>3. impl \in [Slots -> 0 .. queues]
        BY DEF TInv, HeapInv
      <3> QED BY <3>2, <3>3
    <2>2. CASE ~UnlinkInput(o)
      BY <2>2 DEF Work, LeaveLoop, TestOutput, Finish, KeepAll, links, slots
    <2> QED BY <2>1, <2>2
  <1>6. CASE \E l \in {"unlinkInputs", "testOutputs", "finish", "finished"} :
               Goto(o, l) \/ \E i : th' = [th EXCEPT ![o].at = i, ![o].pc = l]
    <2>1. PICK l \in {"unlinkInputs", "testOutputs", "finish", "finished"} :
               Goto(o, l) \/ \E i : th' = [th EXCEPT ![o].at = i, ![o].pc = l]
      BY <1>6
    <2>2. th'[o].pc = l /\ \A u \in Actors \ {o} : th'[u] = th[u]
      BY <1>1, <2>1 DEF ShapeInv, Fields, Goto
    <2>3. QuietMove(o)
      BY <1>1, <1>4, <2>2, SettingFact DEF QuietMove
    <2> QED BY <1>2, <1>5, <2>2, <2>3 DEF QuietStep
  <1>7. CASE \E i : th' = [th EXCEPT ![o].at = i]
    <2>1. th'[o].pc = th[o].pc /\ \A u \in Actors \ {o} : th'[u] = th[u]
      BY <1>1, <1>7 DEF ShapeInv, Fields
    <2>2. QuietMove(o)
      BY <1>1, <1>4, <2>1 DEF QuietMove
    <2> QED BY <1>2, <1>5, <2>1, <2>2 DEF QuietStep
  <1>8. CASE LeaveLoop(o) \/ Finish(o)
    <2>1. ToInputs(o) \in {"unlinkInputs", "testOutputs", "finish"}
      BY DEF ToInputs, ToOutputs
    <2> QED BY <1>6, <1>8, <2>1 DEF LeaveLoop, Finish
  <1>9. CASE UnlinkInput(o)
    <2>1. ToOutputs(o) \in {"testOutputs", "finish"}
      BY DEF ToOutputs
    <2> QED BY <1>6, <1>7, <1>9, <2>1 DEF UnlinkInput
  <1>10. CASE TestOutput(o)
    BY <1>6, <1>7, <1>10 DEF TestOutput
  <1> QED BY <1>8, <1>9, <1>10 DEF Work

\* A new queue is nobody's yet.
LEMMA SetupKeepsLinks ==
  ASSUME IInv, TInv, LinkInv, ~Contest', NEW t \in Threads, Setup(t)
  PROVE  Exit \/ LinkInv'
  <1>1. t \in Actors /\ ShapeInv /\ Fit(t) /\ th[t].pc = "setup"
    BY ActorsFact DEF IInv, TInv, Setup, At
  <1>2. UNCHANGED <<impl, queue, producers>> /\ th[t].pc \notin Setting \cup {"exited"}
    BY <1>1, SettingFact DEF Setup, slots
  <1>3. CASE (Throw(t) \/ Exit) /\ UNCHANGED single
    BY <1>1, <1>2, <1>3, DoneMove, QuietKeepsLinks DEF QuietStep
  <1>4. CASE /\ queues' = queues + 1
             /\ single' = IF th[t].job.type = "SPSC" THEN single \cup {queues + 1} ELSE single
             /\ th' = [th EXCEPT ![t].weak = [to |-> [n \in Named(th[t].job) |-> postboys[n]],
                                              queue |-> queues + 1],
                                 ![t].at = 0, ![t].pc = "link"]
    <2>1. PICK w : w = [to |-> [n \in Named(th[t].job) |-> postboys[n]], queue |-> queues + 1]
      OBVIOUS
    <2>2. PICK new : new = queues + 1
      OBVIOUS
    <2>3. w.queue = new
      BY <2>1, <2>2
    <2>4. /\ th'[t].pc = "link" /\ th'[t].weak = w /\ th'[t].job = th[t].job
          /\ \A u \in Actors \ {t} : th'[u] = th[u]
      BY <1>1, <1>4, <2>1 DEF ShapeInv, Fields
    <2>5. QuietSlots
      BY <1>2, <2>4, SettingFact DEF QuietSlots
    <2>6. new \notin 0 .. queues /\ new \notin 1 .. queues
      BY <2>2 DEF TInv, HeapInv
    <2>7. \A s \in Slots : queue'[s] # new
      BY <1>2, <2>6 DEF TInv, HeapInv
    <2>8. ASSUME NEW u \in Threads, u # t, Links(u)'
          PROVE  th'[u] = th[u] /\ Links(u) /\ th[u].weak.queue # new /\ Place(u)' = Place(u)
      <3>1. th'[u] = th[u] /\ Place(u)' = Place(u) /\ Links(u)
        BY <2>4, <2>8, PlaceKept, ActorsFact DEF Links
      <3>2. th[u].weak.queue \in 1 .. queues
        BY <3>1 DEF TInv, Fit, Bound
      <3> QED BY <2>6, <3>1, <3>2
    <2>9. Distinct'
      <3>1. ASSUME NEW u \in Threads, NEW v \in Threads, Links(u)', Links(v)', u # v
            PROVE  th'[u].weak.queue # th'[v].weak.queue
        <4>1. CASE u = t
          BY <2>3, <2>4, <2>8, <3>1, <4>1
        <4>2. CASE v = t
          BY <2>3, <2>4, <2>8, <3>1, <4>2
        <4>3. CASE u # t /\ v # t
          <5>1. Links(u) /\ Links(v) /\ th'[u] = th[u] /\ th'[v] = th[v]
            BY <2>8, <3>1, <4>3
          <5>2. th[u].weak.queue # th[v].weak.queue
            BY <3>1, <5>1 DEF LinkInv, Distinct
          <5> QED BY <5>1, <5>2
        <4> QED BY <4>1, <4>2, <4>3
      <3> QED BY <3>1 DEF Distinct
    <2>10. \A u \in Threads : Own(u)'
      <3>1. Own(t)'
        <4>1. new \in single' => th[t].job.type = "SPSC"
          BY <1>4, <2>2, <2>6 DEF TInv, HeapInv
        <4>2. Unused(t)'
          BY <2>3, <2>4, <2>7 DEF Unused
        <4> QED BY <2>3, <2>4, <4>1, <4>2 DEF Own
      <3>2. ASSUME NEW u \in Threads, u # t, Links(u)' PROVE Own(u)'
        <4>1. th'[u] = th[u] /\ Links(u) /\ th[u].weak.queue # new /\ Place(u)' = Place(u)
          BY <2>8, <3>2
        <4>2. Own(u) /\ (th[u].weak.queue \in single' => th[u].weak.queue \in single)
          BY <1>4, <2>2, <4>1 DEF LinkInv
        <4> QED BY <1>2, <4>1, <4>2 DEF Own, Unused
      <3> QED BY <3>1, <3>2 DEF Own
    <2> QED BY <2>5, <2>9, <2>10, QuietKeepsSlots DEF LinkInv
  <1> QED BY <1>3, <1>4 DEF Setup

-----------------------------------------------------------------------------
(* The steps of an actor at its slot.                                      *)

\* Actor a at slot p links on, if it does, the queue it has, and puts no queue but
\* that one into the slot.
KeepsOwn(a, p) ==
  /\ a \in Threads /\ Links(a)' =>
       /\ Links(a) /\ th'[a].weak = th[a].weak /\ th'[a].job = th[a].job
       /\ \/ th'[a].at # 0
          \/ /\ th'[a].at = th[a].at
             /\ queue'[p] = th[a].weak.queue => th'[a].pc \in {"increase", "hold"} /\ Place(a)' = p
  /\ \/ queue'[p] = queue[p] \/ queue'[p] = None
     \/ a \in Threads /\ Links(a) /\ queue'[p] = th[a].weak.queue

LEMMA OwnKept ==
  ASSUME TInv, LinkInv, NEW a \in Actors, NEW p \in Slots, AtPlace(a, p), KeepsOwn(a, p),
         UNCHANGED single
  PROVE  Distinct' /\ \A t \in Threads : Own(t)'
  <1>1. ASSUME NEW t \in Threads, t # a
        PROVE  th'[t] = th[t] /\ (Links(t)' <=> Links(t)) /\ Place(t)' = Place(t)
    BY <1>1, PlaceKept, ActorsFact DEF AtPlace, Links
  <1>2. ASSUME NEW t \in Threads, Links(t)' PROVE Links(t) /\ th'[t].weak = th[t].weak
    BY <1>1, <1>2 DEF KeepsOwn
  <1>3. Distinct'
    BY <1>2 DEF Distinct, LinkInv
  <1>4. ASSUME NEW t \in Threads, t # a, Links(t)' PROVE Own(t)'
    <2>1. th'[t] = th[t] /\ Links(t) /\ Place(t)' = Place(t) /\ Own(t)
      BY <1>1, <1>4 DEF LinkInv
    <2>2. th[t].weak.queue # None
      <3>1. th[t].weak.queue \in 1 .. queues
        BY <2>1 DEF TInv, Fit, Bound
      <3> QED BY <3>1 DEF None
    <2>3. a \in Threads /\ Links(a) => th[a].weak.queue # th[t].weak.queue
      BY <1>4, <2>1 DEF LinkInv, Distinct
    <2>4. \A s \in Slots : queue'[s] = th[t].weak.queue => queue[s] = th[t].weak.queue
      BY <2>2, <2>3 DEF AtPlace, KeepsOwn
    <2> QED BY <2>1, <2>4 DEF Own, Unused
  <1>5. ASSUME a \in Threads, Links(a)' PROVE Own(a)'
    <2>1. Links(a) /\ th'[a].weak = th[a].weak /\ th'[a].job = th[a].job /\ Own(a)
      BY <1>5 DEF LinkInv, KeepsOwn
    <2>2. ASSUME th'[a].job.type = "SPSC", th'[a].at = 0 PROVE Unused(a)'
      <3>1. Unused(a) /\ (queue'[p] = th[a].weak.queue => th'[a].pc \in {"increase", "hold"} /\ Place(a)' = p)
        BY <1>5, <2>1, <2>2 DEF Own, KeepsOwn
      <3>2. ASSUME NEW s \in Slots, queue'[s] = th[a].weak.queue, s # p PROVE FALSE
        <4>1. queue[s] = th[a].weak.queue
          BY <3>2 DEF AtPlace
        <4>2. th[a].pc \in Setting /\ Place(a) = s
          BY <3>1, <4>1 DEF Unused, Setting
        <4> QED BY <3>2, <4>2 DEF AtPlace
      <3> QED BY <2>1, <3>1, <3>2 DEF Unused
    <2> QED BY <2>1, <2>2 DEF Own
  <1> QED BY <1>3, <1>4, <1>5 DEF Own

\* Slot p puts to queue q, and is counted if a is the only actor that may be there.
Counts(a, p, q) == queue[p] = q /\ th[a].pc \notin Between

LEMMA PlaceMove ==
  ASSUME TInv, LinkInv, ~Contest', NEW a \in Actors, NEW p \in Slots,
         AtPlace(a, p), KeepsOwn(a, p), UNCHANGED single,
         p[2] = "out" => impl'[p] = queue'[p] \/ (th'[a].pc \in {"forget", "increase", "hold"}),
         p[2] = "in" => queue'[p] = None,
         a \in Threads => ThreadSlot(a)', a \in Workers => WorkerSlot(a)',
         \A q \in Queues : producers'[q] = producers[q] + (IF Counts(a, p, q)' THEN 1 ELSE 0)
                                                        - (IF Counts(a, p, q) THEN 1 ELSE 0)
  PROVE  LinkInv'
  <1>1. Distinct' /\ \A t \in Threads : Own(t)'
    BY OwnKept
  <1>2. ASSUME NEW q \in Queues
        PROVE  producers'[q] = producers[q] + (IF p \in LinksTo(q)' THEN 1 ELSE 0)
                                            - (IF p \in LinksTo(q) THEN 1 ELSE 0)
    BY CountedKept DEF Counts
  <1> QED BY <1>1, <1>2, PlaceStep

LEMMA Alone ==
  ASSUME ~Contest, NEW a \in Actors, th[a].pc \in Setting
  PROVE  \A u \in Actors \ {a} : th[u].pc \in Setting => Place(u) # Place(a)
  BY DEF Contest, AtSlots

LEMMA AloneAfter ==
  ASSUME ~Contest', NEW a \in Actors, th'[a].pc \in Setting,
         \A u \in Actors \ {a} : th'[u] = th[u]
  PROVE  \A u \in Actors \ {a} : th[u].pc \in Setting => Place(u) # Place(a)'
  BY PlaceKept DEF Contest, AtSlots

LEMMA ThreadPlace ==
  ASSUME TInv, NEW t \in Threads, th[t].pc \in Setting
  PROVE  /\ Place(t) \in Slots /\ t \in Actors /\ t \notin Workers /\ Links(t)
         /\ Place(t)[2] = IF th[t].pc \in {"clearInput", "holdInput"} THEN "in" ELSE "out"
         /\ th[t].weak.queue \in Queues
         /\ th[t].at \in Nat /\ th[t].at < Len(Ends[th[t].job])
  <1>1. t \in Actors /\ t \notin Workers /\ Links(t)
    BY ActorsFact DEF Links, AtLink
  <1>2. Fit(t) /\ FitLink(t)
    BY <1>1 DEF TInv, Fit
  <1>3. th[t].weak.queue \in 1 .. queues /\ queues \in 0 .. MaxQueues
    BY <1>1, <1>2 DEF Fit, Bound, TInv, HeapInv
  <1>4. th[t].weak.queue \in Queues
    BY <1>3, RuntimeAssumption DEF Queues
  <1>5. th[t].at \in Nat /\ th[t].at < Len(Ends[th[t].job])
    BY <1>2 DEF FitLink
  <1>6. Place(t)[2] = NextEnd(t).side
    BY <1>1, PlaceFact
  <1> QED BY <1>1, <1>2, <1>4, <1>5, <1>6, PlaceFact DEF FitLink

\* How a thread at its slot, and a worker, goes on there.
LEMMA ThreadStays ==
  ASSUME ShapeInv, TInv, LinkInv, NEW t \in Threads, th[t].pc \in Setting,
         NEW l \in Setting, Goto(t, l),
         \A s \in Slots \ {Place(t)} : impl'[s] = impl[s] /\ queue'[s] = queue[s],
         queue'[Place(t)] = th[t].weak.queue => l \in {"increase", "hold"},
         queue'[Place(t)] \in {queue[Place(t)], None, th[t].weak.queue}
  PROVE  AtPlace(t, Place(t)) /\ KeepsOwn(t, Place(t)) /\ th'[t].pc = l /\ Place(t)' = Place(t)
         /\ th'[t].weak = th[t].weak
  <1>1. t \in Actors /\ t \notin Workers /\ Links(t)
    BY ThreadPlace
  <1>2. /\ th'[t].pc = l /\ th'[t].job = th[t].job /\ th'[t].at = th[t].at
        /\ th'[t].weak = th[t].weak /\ \A u \in Actors \ {t} : th'[u] = th[u]
    BY <1>1, GotoThread
  <1>3. Place(t)' = Place(t)
    BY <1>2 DEF Place, Object, NextEnd
  <1>4. AtPlace(t, Place(t))
    BY <1>1, <1>2, <1>3, Alone DEF LinkInv, AtPlace
  <1>5. KeepsOwn(t, Place(t))
    BY <1>1, <1>2, <1>3 DEF KeepsOwn
  <1> QED BY <1>2, <1>3, <1>4, <1>5

\* A thread that leaves its slot, when it throws or goes on to the next.
LEMMA ThreadLeaves ==
  ASSUME ShapeInv, TInv, LinkInv, NEW t \in Threads, th[t].pc \in Setting,
         Done(t) \/ th' = [th EXCEPT ![t].at = @ + 1, ![t].pc = "link"],
         \A s \in Slots \ {Place(t)} : impl'[s] = impl[s] /\ queue'[s] = queue[s],
         queue'[Place(t)] \in {queue[Place(t)], None}
  PROVE  AtPlace(t, Place(t)) /\ KeepsOwn(t, Place(t)) /\ th'[t].pc \notin Setting
  <1>1. t \in Actors /\ t \notin Workers /\ Links(t) /\ th[t].at \in Nat
    BY ThreadPlace
  <1>2. /\ \A u \in Actors \ {t} : th'[u] = th[u]
        /\ \/ th'[t].pc \in {"prepare", "idle"}
           \/ /\ th'[t].pc = "link" /\ th'[t].job = th[t].job /\ th'[t].at = th[t].at + 1
              /\ th'[t].weak = th[t].weak
    <2>1. CASE Done(t)
      BY <1>1, <2>1 DEF ShapeInv, Done, Thread
    <2>2. CASE th' = [th EXCEPT ![t].at = @ + 1, ![t].pc = "link"]
      BY <1>1, <2>2 DEF ShapeInv, Fields
    <2> QED BY <2>1, <2>2
  <1>3. th'[t].pc \notin Setting /\ th'[t].pc \notin Between \cup {"hold"}
    BY <1>2, SettingFact DEF Between
  <1>4. AtPlace(t, Place(t))
    BY <1>1, <1>2, <1>3, Alone DEF LinkInv, AtPlace
  <1>5. Links(t)' => th'[t].pc = "link"
    BY <1>2, LabelsFact DEF Links
  <1>6. th[t].at + 1 # 0
    BY <1>1
  <1>7. KeepsOwn(t, Place(t))
    BY <1>1, <1>2, <1>5, <1>6, LabelsFact DEF KeepsOwn
  <1> QED BY <1>3, <1>4, <1>7

\* A thread that tests a slot comes to it, and finds it free.
LEMMA BeginKeepsLinks ==
  ASSUME IInv, TInv, LinkInv, ~Contest', NEW t \in Threads, TestSlot(t), Goto(t, Begin(NextEnd(t)))
  PROVE  LinkInv'
  <1>1. t \in Actors /\ t \notin Workers /\ ShapeInv
    BY ActorsFact DEF IInv
  <1>2. /\ th[t].pc = "link" /\ th[t].at < Len(Ends[th[t].job])
        /\ UNCHANGED <<impl, queue, producers, single>>
    BY DEF TestSlot, Linking, At, KeepAll, links, slots
  <1>3. PICK l : l = Begin(NextEnd(t))
    OBVIOUS
  <1>4. l \in {"clear", "clearInput"} /\ l \in Setting /\ l \notin Between
    BY <1>3 DEF Begin, Setting, Between
  <1>5. /\ th'[t].pc = l /\ th'[t].job = th[t].job /\ th'[t].at = th[t].at
        /\ th'[t].weak = th[t].weak /\ \A u \in Actors \ {t} : th'[u] = th[u]
    BY <1>1, <1>3, GotoThread
  <1>6. Place(t)' = Place(t)
    BY <1>5 DEF Place, Object, NextEnd
  <1>7. Exists(NextEnd(t)) /\ impl[Place(t)] = None
    <2>1. ~Throw(t)
      <3>1. ~Exit
        BY <1>1, <1>4, <1>5 DEF Exit, Thread
      <3>2. ~Done(t)
        <4>1. Done(t) => th'[t].pc \in {"prepare", "idle"}
          BY <1>1 DEF ShapeInv, Done, Thread
        <4> QED BY <1>4, <1>5, <4>1
      <3> QED BY <3>1, <3>2 DEF Throw
    <2>2. th' # [th EXCEPT ![t].at = @ + 1]
      <3>1. th' = [th EXCEPT ![t].at = @ + 1] => th'[t].pc = "link"
        BY <1>1, <1>2 DEF ShapeInv, Fields
      <3> QED BY <1>4, <1>5, <3>1
    <2> QED BY <2>1, <2>2 DEF TestSlot
  <1>8. PICK p \in Slots : p = Place(t) /\ p[2] = NextEnd(t).side
    <2>1. Links(t) /\ th[t].at < Len(Ends[th[t].job])
      BY <1>2 DEF Links, AtLink
    <2>2. /\ NextEnd(t).side \in {"out", "in"} /\ NextEnd(t).name \in Names /\ Object(t) \in Workers
      BY <2>1, NextEndFact DEF EndRecords
    <2>3. NextEnd(t).slot \in DOMAIN Inputs[NextEnd(t).name] \cup DOMAIN Outputs[NextEnd(t).name]
      BY <1>7 DEF Exists, Side
    <2>4. Place(t) = <<Object(t), NextEnd(t).side, NextEnd(t).slot>>
      BY <1>1 DEF Place
    <2>5. NextEnd(t).slot \in UNION {DOMAIN Inputs[n] \cup DOMAIN Outputs[n] : n \in Names}
      BY <2>2, <2>3
    <2> QED BY <2>2, <2>4, <2>5 DEF Slots
  <1>9. \A u \in Actors \ {t} : th[u].pc \in Setting => Place(u) # p
    BY <1>1, <1>4, <1>5, <1>6, <1>8, AloneAfter
  <1>10. th[t].pc \notin Setting /\ th[t].pc \notin Between
    BY <1>2, SettingFact DEF Between
  <1>11. AtPlace(t, p)
    BY <1>2, <1>5, <1>6, <1>8, <1>9, <1>10 DEF AtPlace
  <1>12. p[2] = "out" => impl[p] = queue[p]
    <2>1. \A k \in {"forget", "increase", "hold"} : k \in Setting
      BY DEF Setting
    <2> QED BY <1>9, <1>10, <2>1 DEF LinkInv, OutInv
  <1>13. p[2] = "in" => queue[p] = None
    BY DEF LinkInv, InInv
  <1>14. KeepsOwn(t, p)
    <2>1. Links(t) /\ Own(t)
      BY <1>2 DEF Links, AtLink, LinkInv
    <2>2. queue[p] = None
      BY <1>3, <1>4, <1>7, <1>8, <1>12, <1>13 DEF Begin, Slots
    <2>3. th[t].weak.queue # None
      <3>1. th[t].weak.queue \in 1 .. queues
        BY <2>1 DEF TInv, Fit, Bound
      <3> QED BY <3>1 DEF None
    <2> QED BY <1>2, <1>5, <2>1, <2>2, <2>3 DEF KeepsOwn
  <1>15. ThreadSlot(t)'
    <2>1. l = "clear" => queue[p] = None
      BY <1>3, <1>7, <1>8, <1>12 DEF Begin
    <2> QED BY <1>2, <1>4, <1>5, <1>6, <1>7, <1>8, <2>1 DEF ThreadSlot
  <1>16. \A q : Counts(t, p, q)' <=> Counts(t, p, q)
    BY <1>2, <1>4, <1>5, <1>10 DEF Counts
  <1>17. \A q \in Queues : producers'[q] = producers[q] + (IF Counts(t, p, q)' THEN 1 ELSE 0)
                                                         - (IF Counts(t, p, q) THEN 1 ELSE 0)
    <2>1. \A q \in Queues : producers[q] \in Int
      BY DEF TInv, HeapInv
    <2> QED BY <1>2, <1>16, <2>1
  <1> QED BY <1>1, <1>2, <1>11, <1>12, <1>13, <1>14, <1>15, <1>17, PlaceMove

\* What a thread does at its slot.
LEMMA ThreadSlotStep ==
  ASSUME IInv, TInv, LinkInv, ~Contest', NEW t \in Threads, SlotStep(t)
  PROVE  Exit \/ LinkInv'
  <1>1. ShapeInv /\ th[t].pc \in Setting /\ UNCHANGED single
    BY SlotStepFact, ActorsFact
       DEF IInv, SlotStep, Clear, Decrease, Reset, Forget, SetImpl, Point, Increase, Hold, ClearInput,
           KeepAll, KeepRest, links
  <1>2. PICK p \in Slots : p = Place(t)
    BY <1>1, ThreadPlace
  <1>3. PICK own \in Queues : own = th[t].weak.queue
    BY <1>1, ThreadPlace
  <1>4. /\ t \in Actors /\ t \notin Workers /\ Links(t) /\ own # None
        /\ p[2] = IF th[t].pc \in {"clearInput", "holdInput"} THEN "in" ELSE "out"
    BY <1>1, <1>2, <1>3, ThreadPlace DEF Queues, None
  <1>5. /\ impl[p] = None /\ th[t].pc # "decrease"
        /\ th[t].pc \in {"clear", "reset", "forget", "point"} => queue[p] = None
        /\ th[t].pc \in {"increase", "hold"} => queue[p] = own
        /\ p[2] = "in" => queue[p] = None
    BY <1>1, <1>2, <1>3 DEF LinkInv, ThreadSlot, InInv
  <1>6. /\ \A q \in Queues : producers[q] \in Int /\ q # None
        /\ impl \in [Slots -> 0 .. queues] /\ queue \in [Slots -> 0 .. queues]
        /\ producers \in [Queues -> Int]
    <2>1. \A q \in Queues : q # None
      BY DEF Queues, None
    <2> QED BY <2>1 DEF TInv, HeapInv
  <1>7. ASSUME Done(t) \/ Throw(t) \/ th' = [th EXCEPT ![t].at = @ + 1, ![t].pc = "link"],
               \A s \in Slots \ {p} : impl'[s] = impl[s] /\ queue'[s] = queue[s],
               queue'[p] \in {queue[p], None},
               impl'[p] = queue'[p] \/ p[2] = "in",
               UNCHANGED producers, th[t].pc \in Between => queue[p] = None,
               queue'[p] = queue[p]
        PROVE  Exit \/ LinkInv'
    <2>1. CASE Exit
      BY <2>1
    <2>2. CASE Done(t) \/ th' = [th EXCEPT ![t].at = @ + 1, ![t].pc = "link"]
      <3>1. AtPlace(t, p) /\ KeepsOwn(t, p) /\ th'[t].pc \notin Setting
        BY <1>1, <1>2, <1>7, <2>2, ThreadLeaves
      <3>2. ThreadSlot(t)'
        BY <3>1 DEF ThreadSlot
      <3>3. \A q \in Queues : Counts(t, p, q)' <=> Counts(t, p, q)
        BY <1>6, <1>7, <3>1, SettingFact DEF Counts, Between
      <3>4. \A q \in Queues : producers'[q] = producers[q] + (IF Counts(t, p, q)' THEN 1 ELSE 0)
                                                           - (IF Counts(t, p, q) THEN 1 ELSE 0)
        BY <1>6, <1>7, <3>3
      <3>5. p[2] = "in" => queue'[p] = None
        BY <1>5, <1>7
      <3>6. LinkInv'
        BY <1>1, <1>4, <1>7, <3>1, <3>2, <3>4, <3>5, PlaceMove
      <3> QED BY <3>6
    <2> QED BY <1>7, <2>1, <2>2 DEF Throw
  <1>8. ASSUME NEW l \in Setting, Goto(t, l), l # "decrease",
               \A s \in Slots \ {p} : impl'[s] = impl[s] /\ queue'[s] = queue[s],
               queue'[p] = own => l \in {"increase", "hold"},
               queue'[p] \in {queue[p], None, own}, impl'[p] = None,
               p[2] = "in" => queue'[p] = None,
               l \in {"clear", "reset", "forget", "point"} => queue'[p] = None,
               l \in {"increase", "hold"} => queue'[p] = own,
               \A q \in Queues : producers'[q] =
                 producers[q] + (IF queue'[p] = q /\ l \notin Between THEN 1 ELSE 0)
                              - (IF queue[p] = q /\ th[t].pc \notin Between THEN 1 ELSE 0)
        PROVE  LinkInv'
    <2>1. AtPlace(t, p) /\ KeepsOwn(t, p) /\ th'[t].pc = l /\ Place(t)' = p /\ th'[t].weak = th[t].weak
      BY <1>1, <1>2, <1>3, <1>8, ThreadStays
    <2>2. ThreadSlot(t)'
      BY <1>2, <1>3, <1>8, <2>1 DEF ThreadSlot
    <2>3. \A q \in Queues : producers'[q] = producers[q] + (IF Counts(t, p, q)' THEN 1 ELSE 0)
                                                         - (IF Counts(t, p, q) THEN 1 ELSE 0)
      BY <1>8, <2>1 DEF Counts
    <2>4. p[2] = "out" => impl'[p] = queue'[p] \/ (th'[t].pc \in {"forget", "increase", "hold"})
      <3>1. CASE queue'[p] = None
        BY <1>8, <3>1
      <3>2. CASE queue'[p] # None
        <4>1. queue'[p] = own
          <5>1. CASE queue'[p] = queue[p]
            <6>1. th[t].pc \in {"clear", "reset", "forget", "point", "increase", "hold"} \/ p[2] = "in"
              BY <1>1, <1>4, <1>5, SettingFact
            <6> QED BY <1>5, <3>2, <5>1, <6>1
          <5> QED BY <1>8, <3>2, <5>1
        <4> QED BY <1>8, <2>1, <4>1
      <3> QED BY <3>1, <3>2
    <2> QED BY <1>1, <1>4, <1>8, <2>1, <2>2, <2>3, <2>4, PlaceMove
  <1>9. \A k \in {"reset", "forget", "increase"} : k \in Between /\ k \in Setting
    BY DEF Between, Setting
  <1>10. \A k \in {"clear", "point", "hold", "clearInput", "holdInput"} : k \notin Between /\ k \in Setting
    BY DEF Between, Setting
  <1>11. CASE Clear(t)
    <2>1. /\ th[t].pc = "clear" /\ Goto(t, "reset")
          /\ UNCHANGED <<impl, queue, producers>>
      BY <1>2, <1>5, <1>11 DEF Clear, At, KeepAll, links, slots
    <2> QED BY <1>4, <1>5, <1>6, <1>8, <1>9, <2>1
  <1>12. CASE Reset(t)
    <2>1. /\ th[t].pc = "reset" /\ Goto(t, "forget") /\ impl' = [impl EXCEPT ![p] = None]
          /\ UNCHANGED <<queue, producers>>
      BY <1>2, <1>12 DEF Reset, At
    <2>2. impl'[p] = None /\ \A s \in Slots \ {p} : impl'[s] = impl[s]
      BY <1>6, <2>1
    <2> QED BY <1>4, <1>5, <1>6, <1>8, <1>9, <2>1, <2>2
  <1>13. CASE Forget(t)
    <2>2. queue' = [queue EXCEPT ![p] = None] /\ th[t].pc = "forget" /\ UNCHANGED <<impl, producers>>
      BY <1>2, <1>13 DEF Forget, At
    <2>3. queue'[p] = None /\ \A s \in Slots \ {p} : queue'[s] = queue[s]
      BY <1>6, <2>2
    <2>4. CASE Goto(t, "point")
      BY <1>4, <1>5, <1>6, <1>8, <1>9, <1>10, <2>2, <2>3, <2>4
    <2>5. CASE Throw(t)
      BY <1>5, <1>7, <2>2, <2>3, <2>5
    <2>6. Goto(t, "point") \/ Throw(t)
      BY <1>4, <1>13 DEF Forget
    <2> QED BY <2>4, <2>5, <2>6
  <1>14. CASE Point(t)
    <2>1. /\ th[t].pc = "point" /\ Goto(t, "increase") /\ queue' = [queue EXCEPT ![p] = own]
          /\ UNCHANGED <<impl, producers>>
      BY <1>2, <1>3, <1>14 DEF Point, At
    <2>2. queue'[p] = own /\ \A s \in Slots \ {p} : queue'[s] = queue[s]
      BY <1>6, <2>1
    <2> QED BY <1>4, <1>5, <1>6, <1>8, <1>9, <1>10, <2>1, <2>2
  <1>15. CASE Increase(t)
    <2>1. /\ th[t].pc = "increase" /\ producers' = [producers EXCEPT ![own] = @ + 1]
          /\ IF own \in single /\ producers[own] # 0 THEN Throw(t) ELSE Goto(t, "hold")
          /\ UNCHANGED <<impl, queue>>
      BY <1>3, <1>15 DEF Increase, At
    <2>2. own \in single => producers[own] = 0
      <3>1. ASSUME own \in single PROVE producers[own] = 0
        <4>1. th[t].job.type = "SPSC" /\ (th[t].at = 0 => Unused(t))
          BY <1>3, <1>4, <3>1 DEF LinkInv, Own
        <4>2. PICK b \in BindingConfigs : b = th[t].job
          BY <1>4 DEF TInv, Fit
        <4>3. Len(Ends[b]) = 2 /\ Ends[b][2].side = "in"
          BY <4>1, <4>2, EndsFact
        <4>4. FitLink(t)
          BY <1>4 DEF TInv, Fit
        <4>5. NextEnd(t).side = "out" /\ th[t].at \in Nat /\ th[t].at < 2
          BY <1>1, <2>1, <4>2, <4>3, <4>4 DEF FitLink
        <4>6. th[t].at = 0
          <5>1. th[t].at = 0 \/ th[t].at = 1
            BY <4>5
          <5>2. th[t].at = 1 => NextEnd(t) = Ends[b][2]
            BY <4>2 DEF NextEnd
          <5> QED BY <4>3, <4>5, <5>1, <5>2
        <4>7. LinksTo(own) = {}
          <5>1. \A s \in Slots : queue[s] = own => s = Place(t)
            BY <1>3, <4>1, <4>6 DEF Unused
          <5> QED BY <1>4, <2>1, <5>1 DEF LinksTo
        <4> QED BY <4>7, FS_EmptySet DEF LinkInv, CountInv
      <3> QED BY <3>1
    <2>3. Goto(t, "hold")
      BY <2>1, <2>2
    <2>4. \A q \in Queues : producers'[q] = producers[q] + (IF own = q THEN 1 ELSE 0)
      BY <1>6, <2>1
    <2>5. queue[p] = own /\ queue'[p] = own /\ impl'[p] = None /\ p[2] = "out"
      BY <1>4, <1>5, <2>1
    <2>6. \A q \in Queues : producers'[q] =
                 producers[q] + (IF queue'[p] = q /\ "hold" \notin Between THEN 1 ELSE 0)
                              - (IF queue[p] = q /\ th[t].pc \notin Between THEN 1 ELSE 0)
      BY <1>6, <1>9, <1>10, <2>1, <2>4, <2>5
    <2>7. "hold" \in Setting
      BY <1>10
    <2> QED BY <1>8, <2>1, <2>3, <2>5, <2>6, <2>7
  <1>16. CASE Hold(t)
    <2>1. /\ th[t].pc \in {"hold", "holdInput"} /\ impl' = [impl EXCEPT ![p] = own]
          /\ th' = [th EXCEPT ![t].at = @ + 1, ![t].pc = "link"]
          /\ UNCHANGED <<queue, producers>>
      BY <1>2, <1>3, <1>16 DEF Hold
    <2>2. impl'[p] = own /\ \A s \in Slots \ {p} : impl'[s] = impl[s]
      BY <1>6, <2>1
    <2>3. th[t].pc \notin Between /\ (impl'[p] = queue'[p] \/ p[2] = "in")
      BY <1>4, <1>5, <1>10, <2>1, <2>2
    <2> QED BY <1>7, <2>1, <2>2, <2>3
  <1>17. CASE ClearInput(t)
    <2>1. /\ th[t].pc = "clearInput" /\ impl' = [impl EXCEPT ![p] = None]
          /\ (Goto(t, "holdInput") \/ Throw(t))
          /\ UNCHANGED <<queue, producers>>
      BY <1>2, <1>17 DEF ClearInput, At
    <2>2. impl'[p] = None /\ (\A s \in Slots \ {p} : impl'[s] = impl[s]) /\ p[2] = "in" /\ queue[p] = None
      BY <1>4, <1>5, <1>6, <2>1
    <2>3. CASE Goto(t, "holdInput")
      BY <1>4, <1>6, <1>8, <1>10, <2>1, <2>2, <2>3
    <2>4. CASE Throw(t)
      BY <1>7, <1>10, <2>1, <2>2, <2>4
    <2> QED BY <2>1, <2>3, <2>4
  <1>18. ~Decrease(t)
    BY <1>5 DEF Decrease, At
  <1> QED BY <1>11, <1>12, <1>13, <1>14, <1>15, <1>16, <1>17, <1>18 DEF SlotStep, SetImpl

LEMMA WorkerPlace ==
  ASSUME TInv, NEW o \in Workers, th[o].pc \in Setting \cup {"testOutputs"}
  PROVE  /\ Place(o) = <<o, "out", th[o].at>> /\ Place(o) \in Slots
         /\ th[o].pc \in {"clear", "decrease", "reset", "forget", "testOutputs"}
         /\ o \in Actors /\ o \notin Threads
  <1>1. FitWorker(o) /\ o \in Actors /\ o \notin Threads
    BY ActorsFact DEF TInv
  <1>2. th[o].pc \in {"clear", "decrease", "reset", "forget", "testOutputs"}
    BY <1>1 DEF FitWorker, WorkerLabels, Setting
  <1>3. heap[o].name \in Names /\ th[o].at \in DOMAIN Outputs[heap[o].name]
    BY <1>1, <1>2 DEF TInv, FitWorker, HeapInv
  <1>4. th[o].at \in UNION {DOMAIN Inputs[n] \cup DOMAIN Outputs[n] : n \in Names}
    BY <1>3
  <1> QED BY <1>1, <1>2, <1>4 DEF Place, Slots

\* A worker that found all its outputs linked begins to clear them.
LEMMA WorkerBegins ==
  ASSUME IInv, TInv, LinkInv, ~Contest', NEW o \in Workers, TestOutput(o),
         th' = [th EXCEPT ![o].at = 1, ![o].pc = "clear"]
  PROVE  LinkInv'
  <1>1. ShapeInv /\ th[o].pc = "testOutputs" /\ UNCHANGED <<impl, queue, producers, single>>
    BY DEF IInv, TestOutput, At, KeepAll, links, slots
  <1>2. o \in Actors /\ o \notin Threads
    BY ActorsFact
  <1>3. th'[o].pc = "clear" /\ th'[o].at = 1 /\ \A u \in Actors \ {o} : th'[u] = th[u]
    BY <1>1, <1>2 DEF ShapeInv, Fields
  <1>4. PICK p \in Slots : p = <<o, "out", 1>>
    <2>1. FitWorker(o)
      BY DEF TInv
    <2>2. heap[o].name \in Names /\ th[o].at \in DOMAIN Outputs[heap[o].name]
      BY <1>1, <2>1 DEF TInv, FitWorker, HeapInv
    <2>3. 1 \in DOMAIN Outputs[heap[o].name]
      BY <2>2, SidesFact
    <2>4. 1 \in UNION {DOMAIN Inputs[n] \cup DOMAIN Outputs[n] : n \in Names}
      BY <2>2, <2>3
    <2> QED BY <2>4 DEF Slots
  <1>5. Place(o)' = p /\ p[2] = "out"
    BY <1>3, <1>4 DEF Place
  <1>6. th[o].pc \notin Setting /\ th[o].pc \notin Between /\ th'[o].pc \in Setting
        /\ th'[o].pc \notin Between
    BY <1>1, <1>3, SettingFact DEF Between
  <1>7. \A u \in Actors \ {o} : th[u].pc \in Setting => Place(u) # p
    BY <1>2, <1>3, <1>5, <1>6, AloneAfter
  <1>8. AtPlace(o, p) /\ KeepsOwn(o, p)
    BY <1>1, <1>2, <1>3, <1>5, <1>6, <1>7 DEF AtPlace, KeepsOwn
  <1>9. impl[p] = queue[p]
    <2>1. \A k \in {"forget", "increase", "hold"} : k \in Setting
      BY DEF Setting
    <2> QED BY <1>5, <1>6, <1>7, <2>1 DEF LinkInv, OutInv
  <1>10. WorkerSlot(o)'
    BY <1>3 DEF WorkerSlot
  <1>11. \A q \in Queues : producers'[q] = producers[q] + (IF Counts(o, p, q)' THEN 1 ELSE 0)
                                                         - (IF Counts(o, p, q) THEN 1 ELSE 0)
    <2>1. \A q \in Queues : producers[q] \in Int
      BY DEF TInv, HeapInv
    <2>2. \A q : Counts(o, p, q)' <=> Counts(o, p, q)
      BY <1>1, <1>6 DEF Counts
    <2> QED BY <1>1, <2>1, <2>2
  <1> QED BY <1>1, <1>2, <1>5, <1>8, <1>9, <1>10, <1>11, PlaceMove

\* What a worker does at its slot.
LEMMA WorkerSlotStep ==
  ASSUME IInv, TInv, LinkInv, ~Contest', NEW o \in Workers, SlotStep(o)
  PROVE  Exit \/ LinkInv'
  <1>1. ShapeInv /\ th[o].pc \in Setting /\ UNCHANGED single
    BY SlotStepFact, ActorsFact
       DEF IInv, SlotStep, Clear, Decrease, Reset, Forget, SetImpl, Point, Increase, Hold, ClearInput,
           KeepAll, KeepRest, links
  <1>2. PICK p \in Slots : p = Place(o)
    BY <1>1, WorkerPlace
  <1>3. /\ o \in Actors /\ o \notin Threads /\ o \notin Handlers /\ p[2] = "out"
        /\ p = <<o, "out", th[o].at>>
    BY <1>1, <1>2, WorkerPlace, ActorsFact
  <1>4. /\ th[o].pc = "forget" => impl[p] = None
        /\ th[o].pc = "decrease" => impl[p] # None
        /\ \A u \in Actors \ {o} : th[u].pc \in Setting => Place(u) # p
    BY <1>1, <1>2, <1>3, Alone DEF LinkInv, WorkerSlot
  <1>5. th[o].pc # "forget" => impl[p] = queue[p]
    <2>1. \A k \in {"forget", "increase", "hold"} : k \in Setting
      BY DEF Setting
    <2>2. th[o].pc \notin {"increase", "hold"}
      BY <1>1, WorkerPlace
    <2> QED BY <1>3, <1>4, <2>1, <2>2 DEF LinkInv, OutInv
  <1>6. /\ \A q \in Queues : producers[q] \in Int /\ q # None
        /\ impl \in [Slots -> 0 .. queues] /\ queue \in [Slots -> 0 .. queues]
        /\ producers \in [Queues -> Int]
    <2>1. \A q \in Queues : q # None
      BY DEF Queues, None
    <2> QED BY <2>1 DEF TInv, HeapInv
  <1>7. ASSUME NEW l, th'[o].pc = l, l \in {"decrease", "reset", "forget"} => th'[o].at = th[o].at,
               l \in {"decrease", "reset", "forget", "clear", "finish"},
               \A u \in Actors \ {o} : th'[u] = th[u],
               \A s \in Slots \ {p} : impl'[s] = impl[s] /\ queue'[s] = queue[s],
               queue'[p] \in {queue[p], None},
               impl'[p] = queue'[p] \/ l = "forget", l = "forget" => impl'[p] = None,
               l = "decrease" => impl'[p] # None,
               \A q \in Queues : producers'[q] =
                 producers[q] + (IF queue'[p] = q /\ l \notin Between THEN 1 ELSE 0)
                              - (IF queue[p] = q /\ th[o].pc \notin Between THEN 1 ELSE 0)
        PROVE  LinkInv'
    <2>1. l \in {"decrease", "reset", "forget"} => Place(o)' = p
      BY <1>3, <1>7 DEF Place
    <2>2. AtPlace(o, p)
      BY <1>1, <1>2, <1>4, <1>7, <2>1 DEF AtPlace, Between
    <2>3. KeepsOwn(o, p)
      BY <1>3, <1>7 DEF KeepsOwn
    <2>4. WorkerSlot(o)'
      BY <1>7, <2>1 DEF WorkerSlot
    <2>5. \A q \in Queues : producers'[q] = producers[q] + (IF Counts(o, p, q)' THEN 1 ELSE 0)
                                                         - (IF Counts(o, p, q) THEN 1 ELSE 0)
      BY <1>7 DEF Counts
    <2> QED BY <1>1, <1>3, <1>7, <2>2, <2>3, <2>4, <2>5, PlaceMove
  <1>8. ASSUME NEW l, Goto(o, l)
        PROVE  th'[o].pc = l /\ th'[o].at = th[o].at /\ \A u \in Actors \ {o} : th'[u] = th[u]
    BY <1>1, <1>3, <1>8, GotoThread
  <1>9. \A k \in {"reset", "forget"} : k \in Between
    BY DEF Between
  <1>10. \A k \in {"clear", "decrease", "finish"} : k \notin Between
    BY DEF Between
  <1>11. CASE Clear(o)
    <2>1. th[o].pc = "clear" /\ UNCHANGED <<impl, queue, producers>>
      BY <1>11 DEF Clear, At, KeepAll, links, slots
    <2>2. CASE impl[p] = None
      <3>1. Goto(o, "reset")
        BY <1>2, <1>11, <2>2 DEF Clear
      <3> QED BY <1>5, <1>6, <1>7, <1>8, <1>9, <1>10, <2>1, <2>2, <3>1
    <2>3. CASE impl[p] # None
      <3>1. Goto(o, "decrease")
        BY <1>2, <1>11, <2>3 DEF Clear
      <3> QED BY <1>5, <1>6, <1>7, <1>8, <1>9, <1>10, <2>1, <2>3, <3>1
    <2> QED BY <2>2, <2>3
  <1>12. CASE Decrease(o)
    <2>1. th[o].pc = "decrease" /\ UNCHANGED <<impl, queue>> /\ impl[p] = queue[p] /\ queue[p] # None
      BY <1>4, <1>5, <1>12 DEF Decrease, At
    <2>2. PICK q \in Queues : q = queue[p]
      <3>1. queue[p] \in 0 .. queues /\ queues \in 0 .. MaxQueues
        BY <1>6 DEF TInv, HeapInv
      <3>2. queue[p] \in 1 .. MaxQueues
        BY <2>1, <3>1, RuntimeAssumption DEF None
      <3> QED BY <3>2 DEF Queues
    <2>3. producers' = [producers EXCEPT ![q] = @ - 1] /\ (Throw(o) \/ Goto(o, "reset"))
      BY <1>2, <1>12, <2>1, <2>2 DEF Decrease
    <2>4. CASE Throw(o)
      BY <1>3, <2>4 DEF Throw
    <2>5. CASE Goto(o, "reset")
      <3>1. \A r \in Queues : producers'[r] = producers[r] - (IF queue[p] = r THEN 1 ELSE 0)
        BY <1>6, <2>2, <2>3
      <3>2. \A r \in Queues : producers'[r] =
                 producers[r] + (IF queue'[p] = r /\ "reset" \notin Between THEN 1 ELSE 0)
                              - (IF queue[p] = r /\ th[o].pc \notin Between THEN 1 ELSE 0)
        BY <1>6, <1>9, <1>10, <2>1, <3>1
      <3> QED BY <1>7, <1>8, <2>1, <2>5, <3>2
    <2> QED BY <2>3, <2>4, <2>5
  <1>13. CASE Reset(o)
    <2>1. /\ th[o].pc = "reset" /\ Goto(o, "forget") /\ impl' = [impl EXCEPT ![p] = None]
          /\ UNCHANGED <<queue, producers>>
      BY <1>2, <1>13 DEF Reset, At
    <2>2. impl'[p] = None /\ \A s \in Slots \ {p} : impl'[s] = impl[s]
      BY <1>6, <2>1
    <2> QED BY <1>6, <1>7, <1>8, <1>9, <2>1, <2>2
  <1>14. CASE Forget(o)
    <2>1. /\ th[o].pc = "forget" /\ queue' = [queue EXCEPT ![p] = None]
          /\ UNCHANGED <<impl, producers>>
      BY <1>2, <1>14 DEF Forget, At
    <2>2. queue'[p] = None /\ \A s \in Slots \ {p} : queue'[s] = queue[s]
      BY <1>6, <2>1
    <2>3. PICK l \in {"clear", "finish"} : th' = [th EXCEPT ![o].at = @ + 1, ![o].pc = l]
      BY <1>3, <1>14 DEF Forget
    <2>4. th'[o].pc = l /\ \A u \in Actors \ {o} : th'[u] = th[u]
      BY <1>1, <1>3, <2>3 DEF ShapeInv, Fields
    <2>5. l \notin Between /\ l \notin {"decrease", "reset", "forget"}
      BY <1>10
    <2>6. \A r \in Queues : producers'[r] =
                 producers[r] + (IF queue'[p] = r /\ l \notin Between THEN 1 ELSE 0)
                              - (IF queue[p] = r /\ th[o].pc \notin Between THEN 1 ELSE 0)
      BY <1>6, <1>9, <2>1, <2>2
    <2>7. impl'[p] = queue'[p]
      BY <1>4, <2>1, <2>2
    <2> QED BY <1>7, <2>1, <2>2, <2>4, <2>5, <2>6, <2>7
  <1> QED BY <1>3, <1>11, <1>12, <1>13, <1>14 DEF SlotStep

\* A postboy that nobody has is destroyed: its slots are left, and counted no more.
LEMMA DestroyKeepsLinks ==
  ASSUME IInv, TInv, LinkInv, ~Contest', NEW o \in Workers, Destroy(o)
  PROVE  Exit \/ LinkInv'
  <1>1. \A t \in Threads : th[t].pc \in Setting => Object(t) # o
    <2>1. ASSUME NEW t \in Threads, th[t].pc \in Setting PROVE Object(t) # o
      <3>1. Object(t) \in Owned(t)
        BY <2>1 DEF Owned
      <3>2. o \notin UNION {Owned(u) : u \in Threads}
        BY DEF Destroy
      <3> QED BY <3>1, <3>2
    <2> QED BY <2>1
  <1>2. th[o].pc \notin Setting /\ UNCHANGED single
    BY SettingFact DEF Destroy, Ended
  <1>3. \A u \in Actors : th[u].pc \in Setting => Place(u)[1] # o /\ Place(u) \in Slots
    <2>1. ASSUME NEW u \in Actors, th[u].pc \in Setting PROVE Place(u)[1] # o /\ Place(u) \in Slots
      <3>1. CASE u \in Threads
        BY <1>1, <2>1, <3>1, PlaceFact
      <3>2. CASE u \in Workers
        BY <1>2, <2>1, <3>2, PlaceFact
      <3> QED BY <3>1, <3>2, ActorsFact
    <2> QED BY <2>1
  <1>4. CASE /\ producers' = [q \in Queues |-> producers[q] - Cardinality(Losing(o, q))]
             /\ impl' = [s \in Slots |-> IF s[1] = o THEN None ELSE impl[s]]
             /\ queue' = [s \in Slots |-> IF s[1] = o THEN None ELSE queue[s]]
             /\ UNCHANGED th
    <2>1. /\ \A s \in Slots : s[1] # o => impl'[s] = impl[s] /\ queue'[s] = queue[s]
          /\ \A s \in Slots : s[1] = o => impl'[s] = None /\ queue'[s] = None
      BY <1>4
    <2>2. \A u \in Actors : th'[u] = th[u] /\ Place(u)' = Place(u)
      BY <1>4, PlaceKept
    <2>3. OutInv' /\ InInv'
      BY <2>1, <2>2 DEF LinkInv, OutInv, InInv
    <2>4. \A t \in Threads : ThreadSlot(t)'
      BY <1>3, <2>1, <2>2, ActorsFact DEF LinkInv, ThreadSlot
    <2>5. \A w \in Workers : WorkerSlot(w)'
      <3>1. \A k \in {"forget", "decrease"} : k \in Setting
        BY DEF Setting
      <3> QED BY <1>3, <2>1, <2>2, <3>1, ActorsFact DEF LinkInv, WorkerSlot
    <2>6. Distinct'
      BY <1>4 DEF LinkInv, Distinct, Links
    <2>7. ASSUME NEW t \in Threads, Links(t) PROVE Own(t)'
      <3>1. Own(t) /\ th'[t] = th[t] /\ Place(t)' = Place(t)
        BY <2>2, ActorsFact DEF LinkInv
      <3>2. th[t].weak.queue # None
        <4>1. th[t].weak.queue \in 1 .. queues
          BY <2>7 DEF TInv, Fit, Bound
        <4> QED BY <4>1 DEF None
      <3>3. \A s \in Slots : queue'[s] = th[t].weak.queue => queue[s] = th[t].weak.queue
        BY <2>1, <3>2
      <3> QED BY <1>2, <2>7, <3>1, <3>3 DEF Own, Unused
    <2>8. \A t \in Threads : Own(t)'
      <3>1. \A t \in Threads : ~Links(t) => ~Links(t)'
        BY <1>4 DEF Links
      <3> QED BY <2>7, <3>1 DEF Own
    <2>9. ASSUME NEW q \in Queues PROVE producers'[q] = Cardinality(LinksTo(q)')
      <3>1. q # None
        BY DEF Queues, None
      <3>2. \A u \in Actors : th[u].pc \in {"increase", "reset", "forget", "hold"} => Place(u)[1] # o
        <4>1. \A k \in {"increase", "reset", "forget", "hold"} : k \in Setting
          BY DEF Setting
        <4> QED BY <1>3, <4>1
      <3>3. \A s \in Slots : s \in Losing(o, q) <=> s[1] = o /\ s \in LinksTo(q)
        <4>1. ASSUME NEW s \in Slots, s[1] = o, queue[s] = q
              PROVE  s[2] = "out" /\ impl[s] # None /\ s \in LinksTo(q)
          <5>1. s[2] = "out"
            BY <3>1, <4>1 DEF LinkInv, InInv, Slots
          <5>2. impl[s] # None
            BY <3>1, <3>2, <4>1, <5>1 DEF LinkInv, OutInv
          <5>3. s \in LinksTo(q)
            BY <3>2, <4>1 DEF LinksTo
          <5> QED BY <5>1, <5>2, <5>3
        <4> QED BY <4>1 DEF Losing, LinksTo
      <3>4. \A s \in Slots : s \in LinksTo(q)' <=> s[1] # o /\ s \in LinksTo(q)
        BY <2>1, <2>2, <3>1 DEF LinksTo
      <3>5. PICK S, D, T : S = LinksTo(q) /\ D = Losing(o, q) /\ T = LinksTo(q)'
        OBVIOUS
      <3>6. S \subseteq Slots /\ D \subseteq Slots /\ T \subseteq Slots
        BY <3>5 DEF LinksTo, Losing
      <3>7. T = S \ D /\ S \cap D = D
        BY <3>3, <3>4, <3>5, <3>6
      <3>8. IsFiniteSet(S)
        BY <3>6, SlotsFinite, FS_Subset
      <3>9. Cardinality(S \ D) = Cardinality(S) - Cardinality(S \cap D)
        BY <3>8, FS_Difference
      <3>10. producers[q] = Cardinality(S)
        BY <3>5 DEF LinkInv, CountInv
      <3> QED BY <1>4, <3>5, <3>7, <3>9, <3>10
    <2> QED BY <2>3, <2>4, <2>5, <2>6, <2>8, <2>9 DEF LinkInv, CountInv
  <1> QED BY <1>4 DEF Destroy

-----------------------------------------------------------------------------
\* The process has not ended before a step after which it has not.
LEMMA RunningKept ==
  ASSUME IInv, TInv, Step, Running' PROVE Running
  <1>1. ShapeInv /\ Main \in Actors /\ Main \notin Workers /\ Main \in Threads /\ Main \notin Handlers
    BY ActorsFact DEF IInv
  <1>2. Exit => ~Running'
    BY <1>1 DEF Exit, Running, At, Thread
  <1>3. QuietStep => Running
    BY <1>1 DEF QuietStep, QuietMove, Running, At
  <1>4. ASSUME NEW a \in Actors, th[a].pc # "exited", \A u \in Actors \ {a} : th'[u] = th[u]
        PROVE  Running
    BY <1>1, <1>4 DEF Running, At
  <1>5. ASSUME NEW a \in Actors, SlotStep(a) PROVE Running
    <2>1. th[a].pc # "exited" /\ UNCHANGED listed
      BY <1>5, SlotStepFact, SettingFact
    <2>2. CASE Done(a)
      <3>1. \A u \in Actors \ {a} : th'[u] = th[u]
        BY <1>1, <2>2 DEF ShapeInv, Done
      <3> QED BY <1>4, <2>1, <3>1
    <2>3. CASE \E l, i : Goto(a, l) \/ th' = [th EXCEPT ![a].at = i, ![a].pc = l]
      <3>1. \A u \in Actors \ {a} : th'[u] = th[u]
        BY <1>1, <2>3 DEF ShapeInv, Goto
      <3> QED BY <1>4, <2>1, <3>1
    <2>4. SlotOutcome(a)
      BY <1>5, SlotStepFact
    <2> QED BY <1>2, <2>2, <2>3, <2>4 DEF SlotOutcome, Throw
  <1>6. ASSUME NEW t \in Threads, Bind(t) PROVE Running
    <2>1. t \in Actors
      BY ActorsFact
    <2>2. CASE SetImpl(t)
      BY <1>5, <1>6, <2>1, <2>2 DEF SlotStep
    <2>3. CASE Setup(t)
      <3>1. th[t].pc # "exited"
        BY <2>3 DEF Setup, At
      <3>2. Exit \/ \A u \in Actors \ {t} : th'[u] = th[u]
        BY <1>1, <2>3 DEF Setup, ShapeInv, Throw, Done
      <3> QED BY <1>2, <1>4, <2>1, <3>1, <3>2
    <2>4. CASE TestSlot(t) /\ Goto(t, Begin(NextEnd(t)))
      <3>1. th[t].pc # "exited"
        BY <2>4 DEF TestSlot, Linking, At
      <3>2. \A u \in Actors \ {t} : th'[u] = th[u]
        BY <1>1, <2>4 DEF ShapeInv, Goto
      <3> QED BY <1>4, <2>1, <3>1, <3>2
    <2> QED BY <1>2, <1>3, <1>6, <2>2, <2>3, <2>4, BindIsQuiet DEF Bind
  <1>7. ASSUME NEW o \in Workers, Work(o) \/ Destroy(o) PROVE Running
    <2>1. CASE Work(o)
      <3>1. CASE th' = [th EXCEPT ![o].at = 1, ![o].pc = "clear"]
        BY <1>1, <3>1 DEF ShapeInv, Running, At
      <3> QED BY <1>3, <2>1, <3>1, WorkIsQuiet
    <2>2. CASE Destroy(o)
      BY <1>2, <2>2 DEF Destroy, Running, At
    <2> QED BY <1>7, <2>1, <2>2
  <1>8. CASE MainStep
    BY <1>2, <1>3, <1>8, MainIsQuiet
  <1>9. CASE \E t \in Threads : Create(t) \/ Bind(t) \/ Run(t)
    BY <1>2, <1>3, <1>6, <1>9, CreateIsQuiet, RunIsQuiet
  <1>10. CASE \/ \E t \in Handlers, n \in Names : RequestPostboy(t, n) \/ RequestRun(t, n)
              \/ \E t \in Handlers, b \in BindingConfigs : RequestBinding(t, b)
    BY <1>3, <1>10, RequestIsQuiet DEF RequestPostboy, RequestRun, RequestBinding
  <1>11. CASE \E a \in Actors : Clear(a) \/ Decrease(a) \/ Reset(a) \/ Forget(a)
    BY <1>5, <1>11 DEF SlotStep
  <1> QED BY <1>7, <1>8, <1>9, <1>10, <1>11 DEF Step

LEMMA StepKeepsLinks ==
  ASSUME IInv, TInv, LinkInv, Step, ~Contest', Running' PROVE LinkInv'
  <1>1. ~Exit
    BY ActorsFact DEF Exit, Running, At, Thread
  <1>2. QuietStep => LinkInv'
    BY QuietKeepsLinks
  <1>3. ASSUME NEW a \in Actors, SlotStep(a) PROVE LinkInv'
    BY <1>1, <1>3, ThreadSlotStep, WorkerSlotStep, ActorsFact
  <1>4. ASSUME NEW t \in Threads, Bind(t) PROVE LinkInv'
    <2>1. CASE SetImpl(t)
      BY <1>3, <2>1, ActorsFact DEF SlotStep
    <2>2. CASE Setup(t)
      BY <1>1, <2>2, SetupKeepsLinks
    <2>3. CASE TestSlot(t) /\ Goto(t, Begin(NextEnd(t)))
      BY <2>3, BeginKeepsLinks
    <2> QED BY <1>1, <1>2, <1>4, <2>1, <2>2, <2>3, BindIsQuiet DEF Bind
  <1>5. ASSUME NEW o \in Workers, Work(o) \/ Destroy(o) PROVE LinkInv'
    BY <1>1, <1>2, <1>5, WorkIsQuiet, WorkerBegins, DestroyKeepsLinks
  <1>6. CASE MainStep
    BY <1>1, <1>2, <1>6, MainIsQuiet
  <1>7. CASE \E t \in Threads : Create(t) \/ Bind(t) \/ Run(t)
    BY <1>1, <1>2, <1>4, <1>7, CreateIsQuiet, RunIsQuiet
  <1>8. CASE \/ \E t \in Handlers, n \in Names : RequestPostboy(t, n) \/ RequestRun(t, n)
             \/ \E t \in Handlers, b \in BindingConfigs : RequestBinding(t, b)
    BY <1>2, <1>8, RequestIsQuiet DEF RequestPostboy, RequestRun, RequestBinding
  <1>9. CASE \E a \in Actors : Clear(a) \/ Decrease(a) \/ Reset(a) \/ Forget(a)
    BY <1>3, <1>9 DEF SlotStep
  <1> QED BY <1>5, <1>6, <1>7, <1>8, <1>9 DEF Step

LInv == Running /\ ~contested => LinkInv

LEMMA LinksInvariant == Spec => [](IInv /\ TInv /\ LInv)
  <1>1. Init => LInv
    BY InitLinks DEF LInv
  <1>2. IInv /\ TInv /\ LInv /\ [Next]_vars => LInv'
    <2> SUFFICES ASSUME IInv, TInv, LInv, [Next]_vars, Running', ~contested' PROVE LinkInv'
      BY DEF LInv
    <2>1. CASE Next
      <3>1. Step /\ ~contested /\ ~Contest'
        BY <2>1 DEF Next
      <3> QED BY <3>1, RunningKept, StepKeepsLinks DEF LInv
    <2>2. CASE UNCHANGED vars
      <3>1. Running /\ ~contested /\ LinkInv
        BY <2>2 DEF vars, Running, At, LInv
      <3>2. QuietStep
        BY <2>2 DEF vars, links, slots, QuietStep
      <3>3. ~Contest'
        <4>1. ~Contest /\ UNCHANGED <<th, heap>> /\ \A a \in Actors : Place(a)' = Place(a)
          BY <2>2, <3>1, PlaceKept DEF vars, LinkInv
        <4> QED BY <4>1 DEF Contest, AtSlots
      <3> QED BY <3>1, <3>2, <3>3, QuietKeepsLinks
    <2> QED BY <2>1, <2>2
  <1> QED BY <1>1, <1>2, InitInv, InitTypes, NextTypes, PTL DEF Spec

\* The count by which the consumers of a queue recognise the end of the stream is
\* the number of slots that put to it, for any number of handlers, configuration
\* and requests, as long as no two actors have come to one slot at once and no
\* postboy has been started twice.
THEOREM CountsAlwaysLinks == Spec => []CountsAreLinks
  <1>1. LInv => CountsAreLinks
    BY DEF LInv, CountsAreLinks, LinkInv, CountInv
  <1> QED BY <1>1, LinksInvariant, PTL

-----------------------------------------------------------------------------
(* Listed bindings are complete.                                           *)

\* End e of a binding is linked until the postboy there leaves its loop.
EndHeld(w, e) == Exists(e) =>
  \/ w.to[e.name] \in destroyed \/ th[w.to[e.name]].pc \notin {"none", "process"}
  \/ impl[<<w.to[e.name], e.side, e.slot>>] = w.queue

HeldInv ==
  /\ \A o \in Workers : th[o].pc # "exited"
  /\ \A t \in Threads : Links(t) =>
       \A k \in 1 .. th[t].at : EndHeld(th[t].weak, Ends[th[t].job][k])
  /\ \A t \in Threads : HasLinked(t) =>
       \A k \in 1 .. Len(Ends[th[t].job]) : EndHeld(th[t].weak, Ends[th[t].job][k])
  /\ \A n \in DOMAIN bindings : \A e \in ToSet(Ends[bindings[n].config]) :
       EndHeld(bindings[n].weak, e)

\* A slot that holds a queue loses it to its own worker, or when its postboy is
\* destroyed; and a worker that left its loop does not come back to it.
Gentle ==
  /\ destroyed \subseteq destroyed'
  /\ \A o \in Workers : /\ th[o].pc \notin {"none", "process"} => th'[o].pc \notin {"none", "process"}
                        /\ th'[o].pc # "exited"
  /\ \A s \in Slots : impl[s] # None =>
       impl'[s] = impl[s] \/ s[1] \in destroyed' \/ th'[s[1]].pc \notin {"none", "process"}

LEMMA HeldEnd ==
  ASSUME TInv, Gentle, NEW b \in BindingConfigs, NEW w, Bound(b, w), NEW e \in EndRecords(b),
         EndHeld(w, e)
  PROVE  EndHeld(w, e)'
  <1> SUFFICES ASSUME Exists(e) PROVE EndHeld(w, e)'
    BY DEF EndHeld, Exists, Side
  <1>1. PICK o \in Workers : o = w.to[e.name]
    BY DEF Bound, EndRecords
  <1>2. PICK s \in Slots : s = <<o, e.side, e.slot>>
    <2>1. e.name \in Names /\ e.side \in {"out", "in"}
      BY EndsFact DEF EndRecords
    <2>2. e.slot \in UNION {DOMAIN Inputs[n] \cup DOMAIN Outputs[n] : n \in Names}
      BY <2>1 DEF Exists, Side
    <2> QED BY <2>1, <2>2 DEF Slots
  <1>3. s[1] = o /\ w.queue # None
    <2>1. w.queue \in 1 .. queues
      BY DEF Bound
    <2> QED BY <1>2, <2>1 DEF None
  <1>4. o \in destroyed \/ th[o].pc \notin {"none", "process"} \/ impl[s] = w.queue
    BY <1>1, <1>2 DEF EndHeld
  <1>5. o \in destroyed' \/ th'[o].pc \notin {"none", "process"} \/ impl'[s] = w.queue
    BY <1>3, <1>4 DEF Gentle
  <1> QED BY <1>1, <1>2, <1>5 DEF EndHeld

\* A thread links what it linked before and at most one end more, and lists what it
\* has linked.
HeldMove(t) ==
  /\ Links(t)' => \/ th'[t].at = 0
                  \/ /\ Links(t) /\ th'[t].weak = th[t].weak /\ th'[t].job = th[t].job
                     /\ \/ th'[t].at = th[t].at
                        \/ /\ th'[t].at = th[t].at + 1 /\ th[t].at < Len(Ends[th[t].job])
                           /\ \A w, e : w = th[t].weak /\ e = NextEnd(t) => EndHeld(w, e)'
  /\ HasLinked(t)' => /\ th'[t].weak = th[t].weak /\ th'[t].job = th[t].job
                      /\ \/ HasLinked(t)
                         \/ Links(t) /\ th[t].at = Len(Ends[th[t].job])

LEMMA EndInSet ==
  ASSUME NEW b \in BindingConfigs, NEW e \in ToSet(Ends[b])
  PROVE  e \in EndRecords(b) /\ \E k \in 1 .. Len(Ends[b]) : e = Ends[b][k]
  <1>1. Ends[b] \in Seq(EndRecords(b))
    BY EndsFact
  <1>2. DOMAIN Ends[b] = 1 .. Len(Ends[b])
    BY <1>1, LenProperties
  <1>3. PICK k \in 1 .. Len(Ends[b]) : e = Ends[b][k]
    BY <1>2 DEF ToSet
  <1> QED BY <1>1, <1>3, ElementOfSeq

LEMMA HeldKept ==
  ASSUME TInv, HeldInv, Gentle,
         \A t \in Threads : th'[t] = th[t] \/ HeldMove(t),
         \A n \in DOMAIN bindings' :
           \/ n \in DOMAIN bindings /\ bindings'[n] = bindings[n]
           \/ \E t \in Threads : HasLinked(t) /\ bindings'[n] = [config |-> th[t].job, weak |-> th[t].weak]
  PROVE  HeldInv'
  <1>1. ASSUME NEW t \in Threads, Links(t) \/ HasLinked(t), NEW k \in 1 .. Len(Ends[th[t].job]),
               EndHeld(th[t].weak, Ends[th[t].job][k])
        PROVE  \A w, e : w = th[t].weak /\ e = Ends[th[t].job][k] => EndHeld(w, e)'
    <2> SUFFICES ASSUME NEW w, NEW e, w = th[t].weak, e = Ends[th[t].job][k] PROVE EndHeld(w, e)'
      OBVIOUS
    <2>1. PICK b \in BindingConfigs : b = th[t].job /\ Bound(b, w)
      BY <1>1 DEF TInv, Fit
    <2>2. e \in EndRecords(b)
      BY <2>1, EndsFact, ElementOfSeq
    <2> QED BY <1>1, <2>1, <2>2, HeldEnd
  <1>2. ASSUME NEW t \in Threads, Links(t), NEW k \in 1 .. th[t].at
        PROVE  k \in 1 .. Len(Ends[th[t].job]) /\ EndHeld(th[t].weak, Ends[th[t].job][k])
    <2>1. th[t].at \in 0 .. Len(Ends[th[t].job])
      BY <1>2 DEF TInv, Fit, FitLink
    <2>2. Len(Ends[th[t].job]) \in Nat
      <3>1. PICK b \in BindingConfigs : b = th[t].job
        BY <1>2 DEF TInv, Fit
      <3> QED BY <3>1, EndsFact, LenProperties
    <2> QED BY <1>2, <2>1, <2>2 DEF HeldInv
  <1>3. ASSUME NEW t \in Threads, Links(t)', NEW k \in 1 .. th'[t].at
        PROVE  EndHeld(th[t].weak, Ends[th[t].job][k])'
    <2>1. PICK w, e : w = th'[t].weak /\ e = Ends[th'[t].job][k]
      OBVIOUS
    <2>2. CASE th'[t].at = 0
      BY <1>3, <2>2
    <2>3. CASE Links(t) /\ k \in 1 .. th[t].at /\ th'[t].weak = th[t].weak /\ th'[t].job = th[t].job
      <3>1. EndHeld(w, e)'
        BY <1>1, <1>2, <2>1, <2>3
      <3> QED BY <2>1, <3>1 DEF EndHeld
    <2>4. CASE /\ Links(t) /\ th'[t].weak = th[t].weak /\ th'[t].job = th[t].job
               /\ k = th[t].at + 1
               /\ \A v, d : v = th[t].weak /\ d = NextEnd(t) => EndHeld(v, d)'
      <3>1. EndHeld(w, e)'
        BY <2>1, <2>4 DEF NextEnd
      <3> QED BY <2>1, <3>1 DEF EndHeld
    <2>5. Links(t) => th[t].at \in Nat
      BY DEF TInv, Fit, FitLink
    <2>6. th'[t] = th[t] => Links(t)
      BY <1>3 DEF Links
    <2>7. th'[t] = th[t] \/ HeldMove(t)
      OBVIOUS
    <2>8. CASE Links(t) /\ th'[t].weak = th[t].weak /\ th'[t].job = th[t].job /\ th'[t].at = th[t].at
      BY <1>3, <2>3, <2>8
    <2>9. CASE /\ Links(t) /\ th'[t].weak = th[t].weak /\ th'[t].job = th[t].job
               /\ th'[t].at = th[t].at + 1
               /\ \A v, d : v = th[t].weak /\ d = NextEnd(t) => EndHeld(v, d)'
      <3>1. k \in 1 .. th[t].at \/ k = th[t].at + 1
        BY <1>3, <2>5, <2>9
      <3> QED BY <2>3, <2>4, <2>9, <3>1
    <2> QED BY <1>3, <2>2, <2>6, <2>7, <2>8, <2>9 DEF HeldMove
  <1>4. ASSUME NEW t \in Threads, HasLinked(t)', NEW k \in 1 .. Len(Ends[th'[t].job])
        PROVE  EndHeld(th[t].weak, Ends[th[t].job][k])'
    <2>1. /\ th'[t].weak = th[t].weak /\ th'[t].job = th[t].job
          /\ HasLinked(t) \/ (Links(t) /\ th[t].at = Len(Ends[th[t].job]))
      BY <1>4 DEF HeldMove, HasLinked
    <2>2. PICK w, e : w = th[t].weak /\ e = Ends[th[t].job][k]
      OBVIOUS
    <2>3. EndHeld(th[t].weak, Ends[th[t].job][k])
      BY <1>2, <1>4, <2>1 DEF HeldInv
    <2>4. EndHeld(w, e)'
      BY <1>1, <1>4, <2>1, <2>2, <2>3
    <2> QED BY <2>1, <2>2, <2>4 DEF EndHeld
  <1>5. ASSUME NEW n \in DOMAIN bindings', NEW e \in ToSet(Ends[bindings'[n].config]),
               NEW w, w = bindings'[n].weak
        PROVE  EndHeld(w, e)'
    <2>1. w = bindings'[n].weak
      BY <1>5
    <2>2. CASE n \in DOMAIN bindings /\ bindings'[n] = bindings[n]
      <3>1. PICK b \in BindingConfigs : b = bindings[n].config
        BY <2>2 DEF TInv, MapInv
      <3>2. Bound(b, w) /\ e \in EndRecords(b)
        BY <1>5, <2>1, <2>2, <3>1, EndInSet DEF TInv, MapInv
      <3>3. EndHeld(w, e)
        BY <1>5, <2>1, <2>2 DEF HeldInv
      <3>4. EndHeld(w, e)'
        BY <3>2, <3>3, HeldEnd
      <3> QED BY <3>4
    <2>3. CASE \E t \in Threads : HasLinked(t) /\ bindings'[n] = [config |-> th[t].job, weak |-> th[t].weak]
      <3>1. PICK t \in Threads : HasLinked(t) /\ bindings'[n] = [config |-> th[t].job, weak |-> th[t].weak]
        BY <2>3
      <3>2. PICK b \in BindingConfigs : b = th[t].job
        BY <3>1 DEF TInv, Fit
      <3>3. w = th[t].weak /\ bindings'[n].config = b
        BY <2>1, <3>1, <3>2
      <3>4. PICK k \in 1 .. Len(Ends[b]) : e = Ends[b][k]
        BY <1>5, <3>2, <3>3, EndInSet
      <3>5. EndHeld(w, e)
        BY <3>1, <3>2, <3>3, <3>4 DEF HeldInv
      <3>6. EndHeld(w, e)'
        BY <1>1, <3>1, <3>2, <3>3, <3>4, <3>5
      <3> QED BY <3>6
    <2> QED BY <2>2, <2>3
  <1>6. \A o \in Workers : th'[o].pc # "exited"
    BY DEF Gentle
  <1>7. \A n \in DOMAIN bindings' : \A e \in ToSet(Ends[bindings'[n].config]) :
          \A w : w = bindings'[n].weak => EndHeld(w, e)'
    BY <1>5
  <1>8. (\A n \in DOMAIN bindings : \A e \in ToSet(Ends[bindings[n].config]) :
          EndHeld(bindings[n].weak, e))'
    BY <1>7 DEF EndHeld
  <1> QED BY <1>3, <1>4, <1>6, <1>8 DEF HeldInv

\* The labels with which a thread has no binding, or has linked nothing of it.
LEMMA PlainHeld ==
  ASSUME NEW t \in Threads, th'[t].pc \notin AtLink \cup {"insertBinding", "ensureBinding"}
  PROVE  HeldMove(t)
  BY DEF HeldMove, Links, HasLinked

\* A step of a thread that moves only itself, changes no slot but the empty one at
\* which it is, and lists nothing.
LEMMA ThreadHolds ==
  ASSUME TInv, LinkInv, HeldInv, NEW t \in Threads,
         \A u \in Actors \ {t} : th'[u] = th[u],
         th'[t] = th[t] \/ HeldMove(t),
         UNCHANGED <<destroyed, bindings>>,
         UNCHANGED impl \/ \E p : impl[p] = None /\ \A s \in Slots \ {p} : impl'[s] = impl[s]
  PROVE  HeldInv'
  <1>1. \A o \in Workers : th'[o] = th[o]
    BY ActorsFact
  <1>2. Gentle
    BY <1>1 DEF Gentle, HeldInv
  <1>3. \A u \in Threads : th'[u] = th[u] \/ HeldMove(u)
    BY ActorsFact
  <1> QED BY <1>2, <1>3, HeldKept

\* Who ends its request has nothing to hold.
LEMMA DoneHolds ==
  ASSUME ShapeInv, NEW t \in Threads, Done(t)
  PROVE  HeldMove(t) /\ \A u \in Actors \ {t} : th'[u] = th[u]
  <1>1. t \in Actors
    BY ActorsFact
  <1>2. th'[t].pc \in {"prepare", "idle"} /\ \A u \in Actors \ {t} : th'[u] = th[u]
    BY <1>1 DEF ShapeInv, Done, Thread
  <1> QED BY <1>2, PlainHeld, LabelsFact

\* Who goes to such a label, neither.
LEMMA PlainHolds ==
  ASSUME ShapeInv, NEW t \in Threads, NEW l, l \notin AtLink \cup {"insertBinding", "ensureBinding"},
         \/ Goto(t, l)
         \/ \E i : th' = [th EXCEPT ![t].at = i, ![t].pc = l]
         \/ \E j : th' = [th EXCEPT ![t].job = j, ![t].pc = l]
  PROVE  HeldMove(t) /\ \A u \in Actors \ {t} : th'[u] = th[u]
  <1>1. t \in Actors
    BY ActorsFact
  <1>2. th'[t].pc = l /\ \A u \in Actors \ {t} : th'[u] = th[u]
    BY <1>1 DEF ShapeInv, Goto, Fields
  <1> QED BY <1>2, PlainHeld

LEMMA MainHolds ==
  ASSUME IInv, TInv, LinkInv, HeldInv, MainStep, ~Exit PROVE HeldInv'
  <1>1. ShapeInv /\ Main \in Threads
    BY ActorsFact DEF IInv
  <1>2. UNCHANGED <<impl, destroyed, bindings>>
    BY MainIsQuiet
  <1>3. CASE RunPrepared
    <2>1. UNCHANGED th
      BY <1>3 DEF RunPrepared
    <2> QED BY <1>1, <1>2, <2>1, ThreadHolds
  <1>4. CASE ~RunPrepared
    <2>1. \A l \in {"prepare", "run", "serve", "waitFinished", "construct", "setup", "ensureState"} :
            l \notin AtLink \cup {"insertBinding", "ensureBinding"}
      BY LabelsFact
    <2>2. PICK l \in {"prepare", "run", "serve", "waitFinished", "construct", "setup", "ensureState"} :
                 \/ Goto(Main, l)
                 \/ \E i : th' = [th EXCEPT ![Main].at = i, ![Main].pc = l]
                 \/ \E j : th' = [th EXCEPT ![Main].job = j, ![Main].pc = l]
      BY <1>4 DEF MainStep, Collect, RunPrepared, NextPostboy, NextBinding, ValidateGraph, RunNext, AllRun,
         WaitFinished
    <2>3. HeldMove(Main) /\ \A u \in Actors \ {Main} : th'[u] = th[u]
      BY <1>1, <2>1, <2>2, PlainHolds
    <2> QED BY <1>1, <1>2, <2>3, ThreadHolds
  <1> QED BY <1>3, <1>4

LEMMA CreateHolds ==
  ASSUME IInv, TInv, LinkInv, HeldInv, NEW t \in Threads, Create(t), ~Exit PROVE HeldInv'
  <1>1. ShapeInv
    BY DEF IInv
  <1>2. UNCHANGED <<impl, destroyed, bindings>>
    BY CreateIsQuiet
  <1>3. CASE Done(t)
    BY <1>1, <1>2, <1>3, DoneHolds, ThreadHolds
  <1>4. CASE \E l \in {"ensurePostboy", "initMetrics", "construct", "init", "insertPostboy"} :
             \/ Goto(t, l)
             \/ \E i : th' = [th EXCEPT ![t].at = i, ![t].pc = l]
    <2>1. \A l \in {"ensurePostboy", "initMetrics", "construct", "init", "insertPostboy"} :
            l \notin AtLink \cup {"insertBinding", "ensureBinding"}
      BY LabelsFact
    <2>2. HeldMove(t) /\ \A u \in Actors \ {t} : th'[u] = th[u]
      BY <1>1, <1>4, <2>1, PlainHolds
    <2> QED BY <1>1, <1>2, <2>2, ThreadHolds
  <1> QED BY <1>3, <1>4 DEF Create, FindPostboy, EnsurePostboy, Construct, InitMetrics, InitPostboy,
             InsertPostboy, Throw

LEMMA RequestHolds ==
  ASSUME IInv, TInv, LinkInv, HeldInv, NEW t \in Handlers, NEW what,
         NEW l \in {"findPostboy", "findBinding", "findToRun"}, Request(t, l, what)
  PROVE  HeldInv'
  <1>1. ShapeInv /\ t \in Threads
    BY ActorsFact DEF IInv
  <1>2. UNCHANGED <<impl, destroyed, bindings>>
    BY RequestIsQuiet
  <1>3. l \notin AtLink \cup {"insertBinding", "ensureBinding"}
    BY LabelsFact
  <1>4. th' = [th EXCEPT ![t].job = what, ![t].pc = l]
    BY DEF Request
  <1>5. HeldMove(t) /\ \A u \in Actors \ {t} : th'[u] = th[u]
    BY <1>1, <1>3, <1>4, PlainHolds
  <1> QED BY <1>1, <1>2, <1>5, ThreadHolds

LEMMA RunHolds ==
  ASSUME IInv, TInv, LinkInv, HeldInv, ~Contest', NEW t \in Threads, Run(t), ~Exit PROVE HeldInv'
  <1>1. ShapeInv
    BY DEF IInv
  <1>2. UNCHANGED <<impl, destroyed, bindings>>
    BY RunIsQuiet
  <1>3. CASE Done(t)
    BY <1>1, <1>2, <1>3, DoneHolds, ThreadHolds
  <1>4. CASE \E l \in RunPositions : Goto(t, l) \/ \E i : th' = [th EXCEPT ![t].at = i, ![t].pc = l]
    <2>1. \A l \in RunPositions : l \notin AtLink \cup {"insertBinding", "ensureBinding"}
      BY LabelsFact DEF RunPositions
    <2>2. HeldMove(t) /\ \A u \in Actors \ {t} : th'[u] = th[u]
      BY <1>1, <1>4, <2>1, PlainHolds
    <2> QED BY <1>1, <1>2, <2>2, ThreadHolds
  <1>5. CASE StartThread(t)
    <2>1. HasPostboy(t) /\ UNCHANGED listed /\ heap' = [heap EXCEPT ![th[t].at].threads = @ + 1]
      BY <1>5 DEF StartThread, AtLiving, At, HasPostboy, RunPositions, maps
    <2>2. PICK o \in Workers : o = th[t].at
      BY <2>1 DEF TInv, Fit, Born
    <2>3. /\ th'[t].pc \in {"run", "idle"} /\ \A a \in Actors \ {t, o} : th'[a] = th[a]
          /\ \/ th'[o] = th[o]
             \/ th'[o].pc = "process" /\ (heap[o].threads = 0 \/ th[o].pc = "finished")
      BY <1>1, <1>5, <2>1, <2>2, StartFact
    <2>4. heap[o].threads = 0
      <3>1. heap'[o].threads = heap[o].threads + 1 /\ heap[o].threads \in Nat
        BY <2>1, <2>2 DEF TInv, HeapInv
      <3>2. ~(heap'[o].threads > 1)
        BY DEF Contest
      <3> QED BY <3>1, <3>2
    <2>5. th[o].pc = "none"
      BY <2>4 DEF TInv, FitWorker, HeldInv
    <2>6. \A p \in Workers : /\ th[p].pc \notin {"none", "process"} => th'[p] = th[p]
                             /\ th'[p].pc # "exited"
      BY <2>3, <2>5, ActorsFact DEF HeldInv
    <2>7. Gentle
      BY <1>2, <2>6 DEF Gentle
    <2>8. HeldMove(t)
      BY <2>3, PlainHeld, LabelsFact
    <2>9. \A u \in Threads : th'[u] = th[u] \/ HeldMove(u)
      BY <2>2, <2>3, <2>8, ActorsFact
    <2> QED BY <1>2, <2>7, <2>9, HeldKept
  <1> QED BY <1>3, <1>4, <1>5 DEF Run, FindToRun, RunNobody, CheckState, EnsureState, EnsureNoThread,
             StoreRunning, JoinThread, RunPositions, Throw

LEMMA WorkHolds ==
  ASSUME IInv, TInv, LinkInv, HeldInv, NEW o \in Workers, Work(o) \/ SlotStep(o), ~Exit
  PROVE  HeldInv'
  <1>1. ShapeInv /\ o \in Actors /\ o \notin Threads /\ o \notin Handlers
    BY ActorsFact DEF IInv
  <1>2. UNCHANGED <<destroyed, bindings>>
    BY <1>1 DEF Work, LeaveLoop, UnlinkInput, TestOutput, Finish, SlotStep, Clear, Decrease, Reset, Forget,
       KeepAll, KeepRest, links, maps
  <1>3. \A u \in Actors \ {o} : th'[u] = th[u]
    BY <1>1 DEF ShapeInv, Work, LeaveLoop, UnlinkInput, TestOutput, Finish, SlotStep, Clear, Decrease, Reset,
       Forget, Goto, Throw
  <1>4. /\ th[o].pc \in {"process", "unlinkInputs", "testOutputs", "finish", "clear", "decrease", "reset",
                         "forget"}
        /\ th'[o].pc \in {"unlinkInputs", "testOutputs", "finish", "finished", "clear", "decrease", "reset",
                          "forget"}
    <2>1. ToInputs(o) \in {"unlinkInputs", "testOutputs", "finish"}
          /\ ToOutputs(o) \in {"testOutputs", "finish"}
      BY DEF ToInputs, ToOutputs
    <2>2. CASE LeaveLoop(o) \/ UnlinkInput(o)
      BY <1>1, <2>1, <2>2 DEF LeaveLoop, UnlinkInput, ShapeInv, Fields, At
    <2>3. CASE TestOutput(o) \/ Finish(o)
      BY <1>1, <2>3 DEF TestOutput, Finish, ShapeInv, Fields, At, Goto
    <2>4. CASE Clear(o) \/ Decrease(o) \/ Reset(o)
      BY <1>1, <2>4 DEF Clear, Decrease, Reset, ShapeInv, Fields, At, Goto, Throw
    <2>5. CASE Forget(o)
      BY <1>1, <2>5 DEF Forget, ShapeInv, Fields, At
    <2> QED BY <1>1, <2>2, <2>3, <2>4, <2>5 DEF Work, SlotStep
  <1>5. \A s \in Slots : impl'[s] = impl[s] \/ s[1] = o
    <2>1. impl \in [Slots -> 0 .. queues] /\ Place(o)[1] = o
      BY DEF TInv, HeapInv, Place
    <2>2. CASE UnlinkInput(o)
      <3>1. PICK p : p = <<o, "in", th[o].at>>
        OBVIOUS
      <3>2. impl' = [impl EXCEPT ![p] = None] /\ p[1] = o
        BY <2>2, <3>1 DEF UnlinkInput
      <3> QED BY <2>1, <3>2
    <2>3. CASE Reset(o)
      <3>1. PICK p : p = Place(o)
        OBVIOUS
      <3>2. impl' = [impl EXCEPT ![p] = None] /\ p[1] = o
        BY <2>1, <2>3, <3>1 DEF Reset
      <3> QED BY <2>1, <3>2
    <2>4. CASE ~UnlinkInput(o) /\ ~Reset(o)
      BY <1>1, <2>4 DEF Work, LeaveLoop, TestOutput, Finish, SlotStep, Clear, Decrease, Forget,
         KeepAll, links, slots
    <2> QED BY <2>2, <2>3, <2>4
  <1>6. Gentle
    BY <1>2, <1>3, <1>4, <1>5, ActorsFact DEF Gentle, HeldInv
  <1>7. \A t \in Threads : th'[t] = th[t]
    BY <1>1, <1>3, ActorsFact
  <1> QED BY <1>2, <1>6, <1>7, HeldKept

LEMMA DestroyHolds ==
  ASSUME TInv, LinkInv, HeldInv, NEW o \in Workers, Destroy(o), ~Exit PROVE HeldInv'
  <1>1. /\ impl' = [s \in Slots |-> IF s[1] = o THEN None ELSE impl[s]]
        /\ destroyed' = destroyed \cup {o} /\ UNCHANGED <<th, bindings>>
    BY DEF Destroy, maps
  <1>2. Gentle
    BY <1>1 DEF Gentle, HeldInv
  <1> QED BY <1>1, <1>2, HeldKept

LEMMA ThreadSlotHolds ==
  ASSUME IInv, TInv, LinkInv, HeldInv, NEW t \in Threads, SlotStep(t), ~Exit
  PROVE  HeldInv'
  <1>1. ShapeInv /\ SlotOutcome(t) /\ th[t].pc \in Setting
    BY SlotStepFact, ActorsFact DEF IInv
  <1>2. t \in Actors /\ t \notin Workers /\ Links(t) /\ UNCHANGED <<destroyed, bindings>>
    BY <1>1, ThreadPlace
       DEF SlotStep, Clear, Decrease, Reset, Forget, SetImpl, Point, Increase, Hold, ClearInput,
           KeepAll, KeepRest, links, maps
  <1>3. PICK p \in Slots : p = Place(t)
    BY <1>1, ThreadPlace
  <1>4. impl[p] = None /\ impl \in [Slots -> 0 .. queues]
    BY <1>1, <1>3 DEF LinkInv, ThreadSlot, TInv, HeapInv
  <1>5. \A s \in Slots \ {p} : impl'[s] = impl[s]
    BY <1>3, <1>4
       DEF SlotStep, Clear, Decrease, Reset, Forget, SetImpl, Point, Increase, Hold, ClearInput,
           KeepAll, links, slots
  <1>6. CASE Done(t)
    BY <1>1, <1>2, <1>4, <1>5, <1>6, DoneHolds, ThreadHolds
  <1>7. CASE \E l : Goto(t, l) /\ ToLabel(t, l)
    <2>1. PICK l : Goto(t, l) /\ ToLabel(t, l)
      BY <1>7
    <2>2. /\ th'[t].pc = l /\ th'[t].job = th[t].job /\ th'[t].at = th[t].at
          /\ th'[t].weak = th[t].weak /\ \A u \in Actors \ {t} : th'[u] = th[u]
      BY <1>1, <1>2, <2>1, GotoThread
    <2>3. l \notin {"insertBinding", "ensureBinding"}
      BY <2>1 DEF ToLabel, OutLabels
    <2>4. HeldMove(t)
      BY <1>2, <2>2, <2>3 DEF HeldMove, HasLinked
    <2> QED BY <1>2, <1>4, <1>5, <2>2, <2>4, ThreadHolds
  <1>8. CASE th' = [th EXCEPT ![t].at = @ + 1, ![t].pc = "link"]
    <2>1. /\ th'[t].pc = "link" /\ th'[t].job = th[t].job /\ th'[t].at = th[t].at + 1
          /\ th'[t].weak = th[t].weak /\ \A u \in Actors \ {t} : th'[u] = th[u]
      BY <1>1, <1>2, <1>8 DEF ShapeInv, Fields
    <2>2. Hold(t)
      <3>1. \A l \in {"reset", "decrease", "forget", "point", "increase", "hold", "holdInput", "prepare",
                     "idle", "exited"} : l # "link"
        OBVIOUS
      <3>2. ASSUME NEW l, Goto(t, l) PROVE l = "link"
        BY <1>1, <1>2, <2>1, <3>2, GotoThread
      <3>3. ~Done(t)
        <4>1. Done(t) => th'[t].pc \in {"prepare", "idle"}
          BY <1>1, <1>2 DEF ShapeInv, Done, Thread
        <4> QED BY <2>1, <4>1
      <3>4. ~Clear(t) /\ ~Decrease(t) /\ ~Reset(t)
        BY <3>2, <3>3 DEF Clear, Decrease, Reset, Throw
      <3>5. ~Forget(t) /\ ~Point(t) /\ ~Increase(t) /\ ~ClearInput(t)
        BY <1>2, <3>2, <3>3 DEF Forget, Point, Increase, ClearInput, Throw
      <3> QED BY <3>4, <3>5 DEF SlotStep, SetImpl
    <2>3. impl'[p] = th[t].weak.queue
      BY <1>3, <1>4, <2>2 DEF Hold
    <2>4. p = <<th[t].weak.to[NextEnd(t).name], NextEnd(t).side, NextEnd(t).slot>>
      BY <1>2, <1>3 DEF Place, Object
    <2>5. ASSUME NEW w, NEW e, w = th[t].weak, e = NextEnd(t) PROVE EndHeld(w, e)'
      <3>1. impl'[<<w.to[e.name], e.side, e.slot>>] = w.queue
        BY <2>3, <2>4, <2>5
      <3> QED BY <3>1 DEF EndHeld
    <2>6. th[t].at < Len(Ends[th[t].job])
      BY <1>1, ThreadPlace
    <2>7. HeldMove(t)
      BY <1>2, <2>1, <2>5, <2>6 DEF HeldMove, HasLinked
    <2> QED BY <1>2, <1>4, <1>5, <2>1, <2>7, ThreadHolds
  <1> QED BY <1>1, <1>2, <1>6, <1>7, <1>8 DEF SlotOutcome, Throw

LEMMA BindHolds ==
  ASSUME IInv, TInv, LinkInv, HeldInv, NEW t \in Threads, Bind(t), ~Exit PROVE HeldInv'
  <1>1. ShapeInv /\ Fit(t) /\ t \in Actors
    BY ActorsFact DEF IInv, TInv
  <1>2. CASE FindBinding(t) \/ EnsureBinding(t)
    <2>1. UNCHANGED <<impl, destroyed, bindings>>
      BY <1>2 DEF FindBinding, EnsureBinding, KeepAll, links, slots, maps
    <2>2. CASE Done(t)
      BY <1>1, <2>1, <2>2, DoneHolds, ThreadHolds
    <2>3. CASE Goto(t, "setup")
      <3>1. "setup" \notin AtLink \cup {"insertBinding", "ensureBinding"}
        BY LabelsFact
      <3>2. HeldMove(t) /\ \A u \in Actors \ {t} : th'[u] = th[u]
        BY <1>1, <2>3, <3>1, PlainHolds
      <3> QED BY <2>1, <3>2, ThreadHolds
    <2>4. CASE FindBinding(t) /\ Goto(t, "ensureBinding")
      <3>1. t # Main
        BY <1>1, <2>4 DEF FindBinding, At, Fit
      <3>2. /\ th'[t].pc = "ensureBinding" /\ \A u \in Actors \ {t} : th'[u] = th[u]
        BY <1>1, <2>4, GotoThread
      <3>3. HeldMove(t)
        BY <3>1, <3>2, LabelsFact DEF HeldMove, Links, HasLinked
      <3> QED BY <2>1, <3>2, <3>3, ThreadHolds
    <2>5. CASE EnsureBinding(t) /\ t = Main /\ Goto(t, "insertBinding")
      <3>1. HasLinked(t)
        BY <2>5 DEF EnsureBinding, At, HasLinked
      <3>2. /\ th'[t].pc = "insertBinding" /\ th'[t].job = th[t].job
            /\ th'[t].weak = th[t].weak /\ \A u \in Actors \ {t} : th'[u] = th[u]
        BY <1>1, <2>5, GotoThread
      <3>3. HeldMove(t)
        BY <3>1, <3>2, LabelsFact DEF HeldMove, Links
      <3> QED BY <2>1, <3>2, <3>3, ThreadHolds
    <2> QED BY <1>2, <2>2, <2>3, <2>4, <2>5 DEF FindBinding, EnsureBinding, Throw
  <1>3. CASE Setup(t)
    <2>1. UNCHANGED <<impl, destroyed, bindings>>
      BY <1>3 DEF Setup, slots, maps
    <2>2. CASE Done(t)
      BY <1>1, <2>1, <2>2, DoneHolds, ThreadHolds
    <2>3. CASE \E w : th' = [th EXCEPT ![t].weak = w, ![t].at = 0, ![t].pc = "link"]
      <3>1. /\ th'[t].pc = "link" /\ th'[t].at = 0 /\ \A u \in Actors \ {t} : th'[u] = th[u]
        BY <1>1, <2>3 DEF ShapeInv, Fields
      <3>2. HeldMove(t)
        BY <3>1 DEF HeldMove, HasLinked
      <3> QED BY <2>1, <3>1, <3>2, ThreadHolds
    <2> QED BY <1>3, <2>2, <2>3 DEF Setup, Throw
  <1>4. CASE LinkNobody(t)
    BY <1>4 DEF LinkNobody
  <1>5. CASE TestSlot(t)
    <2>1. /\ UNCHANGED <<impl, destroyed, bindings>> /\ th[t].pc = "link" /\ Links(t)
          /\ th[t].at < Len(Ends[th[t].job])
      BY <1>5 DEF TestSlot, Linking, At, KeepAll, links, slots, maps, Links, AtLink
    <2>2. CASE Done(t)
      BY <1>1, <2>1, <2>2, DoneHolds, ThreadHolds
    <2>3. CASE ~Exists(NextEnd(t)) /\ th' = [th EXCEPT ![t].at = @ + 1]
      <3>1. /\ th'[t].pc = "link" /\ th'[t].job = th[t].job /\ th'[t].at = th[t].at + 1
            /\ th'[t].weak = th[t].weak /\ \A u \in Actors \ {t} : th'[u] = th[u]
        BY <1>1, <2>1, <2>3 DEF ShapeInv, Fields
      <3>2. ASSUME NEW w, NEW e, w = th[t].weak, e = NextEnd(t) PROVE EndHeld(w, e)'
        BY <2>3, <3>2 DEF EndHeld, Exists, Side
      <3>3. HeldMove(t)
        BY <2>1, <3>1, <3>2 DEF HeldMove, HasLinked
      <3> QED BY <2>1, <3>1, <3>3, ThreadHolds
    <2>4. CASE Goto(t, Begin(NextEnd(t)))
      <3>1. PICK l : l = Begin(NextEnd(t))
        OBVIOUS
      <3>2. /\ th'[t].pc = l /\ th'[t].job = th[t].job /\ th'[t].at = th[t].at
            /\ th'[t].weak = th[t].weak /\ \A u \in Actors \ {t} : th'[u] = th[u]
        BY <1>1, <2>4, <3>1, GotoThread
      <3>3. HeldMove(t)
        BY <2>1, <3>1, <3>2 DEF HeldMove, HasLinked, Begin
      <3> QED BY <2>1, <3>2, <3>3, ThreadHolds
    <2> QED BY <1>5, <2>2, <2>3, <2>4 DEF TestSlot, Throw
  <1>6. CASE SetImpl(t)
    BY <1>6, ThreadSlotHolds DEF SlotStep
  <1>7. CASE AllLinked(t)
    <2>1. /\ UNCHANGED <<impl, destroyed, bindings>> /\ Links(t)
          /\ ~(th[t].at < Len(Ends[th[t].job]))
      BY <1>7 DEF AllLinked, Linking, At, KeepAll, links, slots, maps, Links, AtLink
    <2>2. th[t].at = Len(Ends[th[t].job])
      <3>1. PICK b \in BindingConfigs : b = th[t].job
        BY <1>1, <2>1 DEF Fit
      <3>2. th[t].at \in 0 .. Len(Ends[b]) /\ Len(Ends[b]) \in Nat
        BY <1>1, <2>1, <3>1, EndsFact, LenProperties DEF Fit, FitLink
      <3> QED BY <2>1, <3>1, <3>2
    <2>3. PICK l \in {"ensureBinding", "insertBinding"} : Goto(t, l)
      BY <1>7 DEF AllLinked
    <2>4. /\ th'[t].pc = l /\ th'[t].job = th[t].job
          /\ th'[t].weak = th[t].weak /\ \A u \in Actors \ {t} : th'[u] = th[u]
      BY <1>1, <2>3, GotoThread
    <2>5. HeldMove(t)
      BY <2>1, <2>2, <2>4, LabelsFact DEF HeldMove, Links
    <2> QED BY <2>1, <2>4, <2>5, ThreadHolds
  <1>8. CASE InsertBinding(t)
    <2>1. UNCHANGED <<impl, destroyed>> /\ HasLinked(t) /\ Done(t)
          /\ bindings' = With(bindings, th[t].job.name, [config |-> th[t].job, weak |-> th[t].weak])
      BY <1>8 DEF InsertBinding, At, links, slots, HasLinked
    <2>2. HeldMove(t) /\ \A u \in Actors \ {t} : th'[u] = th[u]
      BY <1>1, <2>1, DoneHolds
    <2>3. Gentle
      BY <2>1, <2>2, ActorsFact DEF Gentle, HeldInv
    <2>4. \A n \in DOMAIN bindings' :
            \/ n \in DOMAIN bindings /\ bindings'[n] = bindings[n]
            \/ \E u \in Threads : HasLinked(u) /\ bindings'[n] = [config |-> th[u].job, weak |-> th[u].weak]
      BY <2>1 DEF With
    <2>5. \A u \in Threads : th'[u] = th[u] \/ HeldMove(u)
      BY <2>2, ActorsFact
    <2> QED BY <2>3, <2>4, <2>5, HeldKept
  <1> QED BY <1>2, <1>3, <1>4, <1>5, <1>6, <1>7, <1>8 DEF Bind

LEMMA StepKeepsHeld ==
  ASSUME IInv, TInv, LinkInv, HeldInv, Step, ~Contest', Running' PROVE HeldInv'
  <1>1. ~Exit
    BY ActorsFact DEF Exit, Running, At, Thread
  <1>2. CASE MainStep
    BY <1>1, <1>2, MainHolds
  <1>3. CASE \E t \in Threads : Create(t) \/ Bind(t) \/ Run(t)
    BY <1>1, <1>3, CreateHolds, BindHolds, RunHolds
  <1>4. CASE \/ \E t \in Handlers, n \in Names : RequestPostboy(t, n) \/ RequestRun(t, n)
             \/ \E t \in Handlers, b \in BindingConfigs : RequestBinding(t, b)
    BY <1>4, RequestHolds DEF RequestPostboy, RequestRun, RequestBinding
  <1>5. CASE \E a \in Actors : Clear(a) \/ Decrease(a) \/ Reset(a) \/ Forget(a)
    BY <1>1, <1>5, ThreadSlotHolds, WorkHolds, ActorsFact DEF SlotStep
  <1>6. CASE \E o \in Workers : Work(o) \/ Destroy(o)
    BY <1>1, <1>6, WorkHolds, DestroyHolds
  <1> QED BY <1>2, <1>3, <1>4, <1>5, <1>6 DEF Step

HInv == Running /\ ~contested => HeldInv

LEMMA InitHeld == Init => HeldInv
  <1> SUFFICES ASSUME Init PROVE HeldInv
    OBVIOUS
  <1>1. \A a \in Actors : th[a].pc \in {"collect", "idle", "none"}
    <2>1. \A l : Thread(l).pc = l
      BY DEF Thread
    <2> QED BY <2>1 DEF Init
  <1>2. \A t \in Threads : ~Links(t) /\ ~HasLinked(t)
    BY <1>1, LabelsFact, ActorsFact DEF Links, HasLinked
  <1>3. \A o \in Workers : th[o].pc # "exited"
    BY <1>1, ActorsFact
  <1>4. DOMAIN bindings = {}
    BY DEF Init
  <1> QED BY <1>2, <1>3, <1>4 DEF HeldInv

\* A binding the runtime lists is linked at all its ends until the postboy there
\* leaves its loop or is destroyed, for any number of handlers that set up bindings
\* at once and any of them that fail, as long as no two actors have come to one slot
\* at once and no postboy has been started twice.
THEOREM ListedBindingsAreComplete == Spec => []BindingsAreComplete
  <1>1. Init => HInv
    BY InitHeld DEF HInv
  <1>2. IInv /\ TInv /\ LInv /\ HInv /\ [Next]_vars => HInv'
    <2> SUFFICES ASSUME IInv, TInv, LInv, HInv, [Next]_vars, Running', ~contested' PROVE HeldInv'
      BY DEF HInv
    <2>1. CASE Next
      <3>1. Step /\ ~contested /\ ~Contest'
        BY <2>1 DEF Next
      <3> QED BY <3>1, RunningKept, StepKeepsHeld DEF LInv, HInv
    <2>2. CASE UNCHANGED vars
      <3>1. HeldInv
        BY <2>2 DEF vars, Running, At, HInv
      <3>2. UNCHANGED <<th, bindings, destroyed, impl>>
        BY <2>2 DEF vars, links, slots, maps
      <3>3. Gentle
        BY <3>1, <3>2 DEF Gentle, HeldInv
      <3>4. TInv
        OBVIOUS
      <3> QED BY <3>1, <3>2, <3>3, HeldKept
    <2> QED BY <2>1, <2>2
  <1>3. TInv /\ HInv => BindingsAreComplete
    BY DEF HInv, HeldInv, EndHeld, BindingsAreComplete
  <1> QED BY <1>1, <1>2, <1>3, LinksInvariant, PTL DEF Spec
=============================================================================
