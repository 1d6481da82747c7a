------------------------------ MODULE Runtime ------------------------------
(***************************************************************************)
(* postboy::Runtime, its bindings, and the control API.  The main thread   *)
(* builds the graph of the configuration file and runs it; then the        *)
(* handlers of the HTTP server, each on a thread of its own, create        *)
(* postboys and bindings and run postboys, while the workers (module       *)
(* Postboy, here reduced to how they end) unlink their queues.  No lock    *)
(* protects the runtime's maps, its configuration or the processors' slots.*)
(*                                                                         *)
(* A call on a map is a step: that the containers themselves survive       *)
(* concurrent calls is assumed.  The setting and the clearing of a slot    *)
(* are taken access by access, by threads and workers alike.               *)
(***************************************************************************)
EXTENDS Integers, SequencesExt, FiniteSets

CONSTANTS
  Handlers,       \* the threads of the HTTP server
  Main,           \* the main thread
  Names,          \* the names of postboys and prepared items
  Inputs,         \* the types of the input slots of each name's processor
  Outputs,        \* the types of its output slots
  Finite,         \* the names whose processor has a call number
  Metered,        \* the names whose processor registers metrics
  BindingConfigs, \* [name, type, producers, consumers]; an end is <<name, slot>>
  ConfigFiles,    \* [prepared, postboy : Seq(Names), binding : Seq(BindingConfigs)]
  MaxObjects,     \* bounds of the model: the postboys ever constructed,
  MaxQueues       \* and the queues

ASSUME RuntimeAssumption ==
  /\ Main \notin Handlers /\ (Handlers \cup {Main}) \cap Nat = {}
  /\ MaxObjects \in Nat /\ MaxQueues \in Nat
  /\ \A n \in Names : Inputs[n] \in Seq(STRING) /\ Outputs[n] \in Seq(STRING)
  /\ IsFiniteSet(UNION {DOMAIN Inputs[n] \cup DOMAIN Outputs[n] : n \in Names})
  /\ \A b \in BindingConfigs : /\ b.producers \in Seq(Names \X Nat) \ {<<>>}
                               /\ b.consumers \in Seq(Names \X Nat) \ {<<>>}
  /\ ConfigFiles \subseteq
       [prepared : Seq(Names), postboy : Seq(Names), binding : Seq(BindingConfigs)]

Threads == Handlers \cup {Main}
Workers == 1 .. MaxObjects    \* postboys, and the threads they own
Actors == Threads \cup Workers
Slots == Workers \X {"in", "out"} \X UNION {DOMAIN Inputs[n] \cup DOMAIN Outputs[n] : n \in Names}
Queues == 1 .. MaxQueues

VARIABLES
  todo,        \* what the main thread has left of the configuration file
  postboys,    \* postboys_: names to objects
  bindings,    \* bindings_: names to the binding's configuration and queue
  listed,      \* the names of postboys and of bindings in config_
  heap,        \* the postboys: name, state_, and how often a thread was started
  destroyed,   \* the postboys whose destructor has run
  impl,        \* impl_ of each slot: the queue it owns,
  queue,       \* and queue_ of each output slot: the queue it puts to
  producers,   \* activeProducers_ of each queue (a number below 0 is one that wrapped)
  single,      \* the SPSC queues among them
  queues,      \* how many queues have been made
  metricNames, \* history: how often InitMetrics was called with each name
  contested,   \* history: whether two actors have been at one slot at the same
               \* time, or a postboy was started twice
  th           \* where each thread and worker is (pc), what it creates, binds or
               \* runs (job), the postboy in its hands or its place among the slots
               \* (at), and the weak pointers and the queue of a binding (weak)

maps == <<postboys, bindings, listed>>
slots == <<impl, queue, producers>>
links == <<slots, single, queues, destroyed>>
vars == <<todo, maps, heap, links, metricNames, contested, th>>

KeepAll == UNCHANGED <<todo, maps, heap, links, metricNames>>
KeepRest == UNCHANGED <<todo, maps, heap, single, queues, destroyed, metricNames>>

None == 0
Thread(label) == [pc |-> label, job |-> None, at |-> None, weak |-> None]
At(t, label) == th[t].pc = label
Goto(t, label) == th' = [th EXCEPT ![t].pc = label]

\* The process ends, with all its threads.
Exit == th' = [a \in Actors |-> Thread("exited")]

\* The main thread returns to its list, a handler answers its request.
Done(t) == th' = [th EXCEPT ![t] = Thread(IF t = Main THEN "prepare" ELSE "idle")]

\* An exception ends the request with an error, or the program.
Throw(a) == IF a \in Handlers THEN Done(a) ELSE Exit

With(map, n, v) == [m \in DOMAIN map \cup {n} |-> IF m = n THEN v ELSE map[m]]

Init ==
  /\ todo \in ConfigFiles
  /\ postboys = <<>> /\ bindings = <<>>
  /\ listed = [postboy |-> ToSet(todo.postboy), binding |-> {b.name : b \in ToSet(todo.binding)}]
  /\ heap = [o \in Workers |-> [name |-> None, state |-> "unborn", threads |-> 0]]
  /\ destroyed = {}
  /\ impl = [s \in Slots |-> None] /\ queue = [s \in Slots |-> None]
  /\ producers = [q \in Queues |-> 0] /\ single = {} /\ queues = 0
  /\ metricNames = [n \in Names |-> 0]
  /\ contested = FALSE
  /\ th = [a \in Actors |-> Thread(CASE a = Main -> "collect"
                                    [] a \in Handlers -> "idle" [] OTHER -> "none")]

-----------------------------------------------------------------------------
(* Prepare and Run, on the main thread.                                    *)

Suitable(n) == Inputs[n] = <<>> /\ Outputs[n] = <<>> /\ n \in Finite

\* All prepared items are constructed before the first one runs.
Collect ==
  /\ At(Main, "collect")
  /\ IF \A n \in ToSet(todo.prepared) : Suitable(n) THEN Goto(Main, "prepare") ELSE Exit
  /\ KeepAll

\* A second family of metrics of one name aborts the program.
Clashes(n) == n \in Metered /\ metricNames[n] > 0

RunPrepared ==
  /\ At(Main, "prepare") /\ todo.prepared # <<>>
  /\ LET n == Head(todo.prepared)
     IN  /\ metricNames' = [metricNames EXCEPT ![n] = @ + 1]
         /\ Exit \/ (~Clashes(n) /\ UNCHANGED th)
  /\ todo' = [todo EXCEPT !.prepared = Tail(@)]
  /\ UNCHANGED <<maps, heap, links>>

NextPostboy ==
  /\ At(Main, "prepare") /\ todo.prepared = <<>> /\ todo.postboy # <<>>
  /\ th' = [th EXCEPT ![Main].job = Head(todo.postboy), ![Main].pc = "construct"]
  /\ todo' = [todo EXCEPT !.postboy = Tail(@)]
  /\ UNCHANGED <<maps, heap, links, metricNames>>

NextBinding ==
  /\ At(Main, "prepare") /\ todo.prepared \o todo.postboy = <<>> /\ todo.binding # <<>>
  /\ th' = [th EXCEPT ![Main].job = Head(todo.binding), ![Main].pc = "setup"]
  /\ todo' = [todo EXCEPT !.binding = Tail(@)]
  /\ UNCHANGED <<maps, heap, links, metricNames>>

IsValid(o) ==
  /\ \A i \in DOMAIN Inputs[heap[o].name] : impl[<<o, "in", i>>] # None
  /\ \A i \in DOMAIN Outputs[heap[o].name] : impl[<<o, "out", i>>] # None

ValidateGraph ==
  /\ At(Main, "prepare") /\ todo.prepared \o todo.postboy \o todo.binding = <<>>
  /\ IF \A n \in DOMAIN postboys : IsValid(postboys[n]) THEN Goto(Main, "run") ELSE Exit
  /\ KeepAll

NotRun == {n \in DOMAIN postboys : heap[postboys[n]].state = "Initialized"}

RunNext ==
  /\ At(Main, "run")
  /\ \E n \in NotRun : th' = [th EXCEPT ![Main].at = postboys[n], ![Main].pc = "ensureState"]
  /\ KeepAll

\* With --control-api the main thread serves requests and never returns.
AllRun ==
  /\ At(Main, "run") /\ NotRun = {}
  /\ Goto(Main, "serve") \/ Goto(Main, "waitFinished")
  /\ KeepAll

WaitFinished ==
  /\ At(Main, "waitFinished")
  /\ \A n \in DOMAIN postboys : heap[postboys[n]].state = "Finished"
  /\ Exit
  /\ KeepAll

MainStep ==
  \/ Collect \/ RunPrepared \/ NextPostboy \/ NextBinding \/ ValidateGraph
  \/ RunNext \/ AllRun \/ WaitFinished

-----------------------------------------------------------------------------
(* A postboy: PostPostboy and Runtime::CreatePostboy, CreatePostboys.      *)

Request(t, label, what) ==
  /\ At(Main, "serve") /\ At(t, "idle")
  /\ th' = [th EXCEPT ![t].job = what, ![t].pc = label]
  /\ KeepAll

RequestPostboy(t, n) == Request(t, "findPostboy", n)
RequestBinding(t, b) == Request(t, "findBinding", b)
RequestRun(t, n) == Request(t, "findToRun", n)

\* The handler's own look at the map: 409 if the name is there.
FindPostboy(t) ==
  /\ At(t, "findPostboy")
  /\ IF th[t].job \in DOMAIN postboys THEN Done(t) ELSE Goto(t, "ensurePostboy")
  /\ KeepAll

\* Mutant of EnsurePostboy: the configuration is left to the end, and forgotten.
EnsurePostboyOnly(t) ==
  /\ At(t, "ensurePostboy")
  /\ IF th[t].job \in DOMAIN postboys
       THEN Throw(t)
       ELSE Goto(t, IF t = Main THEN "initMetrics" ELSE "construct")
  /\ KeepAll

\* CreatePostboy looks again, and adds to the configuration; CreatePostboys has
\* constructed the postboy when it looks.
EnsurePostboy(t) ==
  /\ At(t, "ensurePostboy")
  /\ IF th[t].job \in DOMAIN postboys
       THEN Throw(t) /\ UNCHANGED listed
       ELSE /\ Goto(t, IF t = Main THEN "initMetrics" ELSE "construct")
            /\ listed' = [listed EXCEPT !.postboy = @ \cup {th[t].job}]
  /\ UNCHANGED <<todo, postboys, bindings, heap, links, metricNames>>

Construct(t) ==
  /\ At(t, "construct")
  /\ \E o \in Workers :
       /\ heap[o].state = "unborn" /\ \A p \in 1 .. (o - 1) : heap[p].state # "unborn"
       /\ heap' = [heap EXCEPT ![o].name = th[t].job, ![o].state = "NotInitialized"]
       /\ th' = [th EXCEPT ![t].at = o,
                           ![t].pc = IF t = Main THEN "ensurePostboy" ELSE "initMetrics"]
  /\ UNCHANGED <<todo, maps, links, metricNames>>

InitMetrics(t) ==
  /\ At(t, "initMetrics")
  /\ metricNames' = [metricNames EXCEPT ![th[t].job] = @ + 1]
  /\ IF Clashes(th[t].job) THEN Exit ELSE Goto(t, "init")
  /\ UNCHANGED <<todo, maps, heap, links>>

\* Init of the processor may throw.  The metrics stay registered.
InitPostboy(t) ==
  /\ At(t, "init")
  /\ \/ /\ heap' = [heap EXCEPT ![th[t].at].state = "Initialized"]
        /\ Goto(t, "insertPostboy")
     \/ Throw(t) /\ UNCHANGED heap
  /\ UNCHANGED <<todo, maps, links, metricNames>>

\* A postboy that was inserted under this name meanwhile is replaced.
InsertPostboy(t) ==
  /\ At(t, "insertPostboy")
  /\ postboys' = With(postboys, th[t].job, th[t].at)
  /\ Done(t)
  /\ UNCHANGED <<todo, bindings, listed, heap, links, metricNames>>

Create(t) ==
  \/ FindPostboy(t) \/ EnsurePostboy(t) \/ Construct(t) \/ InitMetrics(t)
  \/ InitPostboy(t) \/ InsertPostboy(t)

-----------------------------------------------------------------------------
(* A binding: PostBinding and Runtime::CreateBinding, CreateBindings.      *)

FindBinding(t) ==
  /\ At(t, "findBinding")
  /\ IF th[t].job.name \in DOMAIN bindings THEN Done(t) ELSE Goto(t, "ensureBinding")
  /\ KeepAll

\* CreateBinding looks before it links, CreateBindings afterwards.
EnsureBinding(t) ==
  /\ At(t, "ensureBinding")
  /\ IF th[t].job.name \in DOMAIN bindings
       THEN Throw(t) /\ UNCHANGED listed
       ELSE /\ Goto(t, IF t = Main THEN "insertBinding" ELSE "setup")
            /\ listed' = [listed EXCEPT !.binding = @ \cup {th[t].job.name}]
  /\ UNCHANGED <<todo, postboys, bindings, heap, links, metricNames>>

\* The slots a binding links, in this order; of an SPSC binding only the first
\* producer and the first consumer.
Ends ==
  [b \in BindingConfigs |->
     LET side(s, l) == [i \in DOMAIN l |-> [side |-> s, name |-> l[i][1], slot |-> l[i][2]]]
         linked(l) == IF b.type = "SPSC" THEN SubSeq(l, 1, 1) ELSE l
     IN  side("out", linked(b.producers)) \o side("in", linked(b.consumers))]

Side(e) == IF e.side = "out" THEN Outputs[e.name] ELSE Inputs[e.name]
Exists(e) == e.slot \in DOMAIN Side(e)
Type(b) == LET e == Ends[b][1] IN Side(e)[e.slot]

\* The postboys a binding names.
Named(b) == {x[1] : x \in ToSet(b.producers) \cup ToSet(b.consumers)}

\* SetupBinding asks the first producer for a binding of its type (there is none
\* for a slot it does not have); Setup looks for all postboys, and keeps weak
\* pointers to them.
Setup(t) ==
  LET b == th[t].job
      e == Ends[b][1]
      known == Named(b) \subseteq DOMAIN postboys
      putable == e.name \in DOMAIN postboys /\ Outputs[e.name] # <<>>
  IN  /\ At(t, "setup")
      /\ \/ ~putable /\ Throw(t) /\ UNCHANGED <<queues, single>>
         \/ putable /\ ~Exists(e) /\ Exit /\ UNCHANGED <<queues, single>>
         \/ putable /\ Exists(e) /\ ~known /\ Throw(t) /\ UNCHANGED <<queues, single>>
         \/ /\ putable /\ Exists(e) /\ known
            /\ queues < MaxQueues
            /\ queues' = queues + 1
            /\ single' = IF b.type = "SPSC" THEN single \cup {queues + 1} ELSE single
            /\ th' = [th EXCEPT ![t].weak = [to |-> [n \in Named(b) |-> postboys[n]],
                                              queue |-> queues + 1],
                                ![t].at = 0, ![t].pc = "link"]
      /\ UNCHANGED <<todo, maps, heap, slots, destroyed, metricNames>>

Linking(t) == At(t, "link") /\ th[t].at < Len(Ends[th[t].job])
NextEnd(t) == Ends[th[t].job][th[t].at + 1]
Object(t) == th[t].weak.to[NextEnd(t).name]

\* The slot at which an actor is.
Place(a) ==
  IF a \in Workers THEN <<a, "out", th[a].at>>
                   ELSE <<Object(a), NextEnd(a).side, NextEnd(a).slot>>

\* The expired pointer to a postboy that was replaced is used nevertheless.
LinkNobody(t) ==
  /\ Linking(t) /\ Object(t) \in destroyed
  /\ Exit
  /\ KeepAll

\* Where the setting of a slot begins.
Begin(e) == IF e.side = "out" THEN "clear" ELSE "clearInput"

\* Mutant of TestSlot: a slot in use is linked again.
TestNoSlot(t) ==
  LET e == NextEnd(t)
  IN  /\ Linking(t) /\ Object(t) \notin destroyed
      /\ \/ Side(e) = <<>> /\ Throw(t)
         \/ Side(e) # <<>> /\ ~Exists(e) /\ th' = [th EXCEPT ![t].at = @ + 1]
         \/ Exists(e) /\ Goto(t, Begin(e))
      /\ KeepAll

\* LinkOutputQueue and LinkInputQueue: nothing to link on that side, a slot
\* beyond the last one (passed over), one in use, or a free one.
TestSlot(t) ==
  LET e == NextEnd(t)
  IN  /\ Linking(t) /\ Object(t) \notin destroyed
      /\ \/ Side(e) = <<>> /\ Throw(t)
         \/ Side(e) # <<>> /\ ~Exists(e) /\ th' = [th EXCEPT ![t].at = @ + 1]
         \/ Exists(e) /\ impl[Place(t)] # None /\ Throw(t)
         \/ Exists(e) /\ impl[Place(t)] = None /\ Goto(t, Begin(e))
      /\ KeepAll

\* Mutant of Clear: the producer is not taken off the count.
ClearUncounted(a) ==
  /\ At(a, "clear")
  /\ Goto(a, "reset")
  /\ KeepAll

\* Clear, of an output slot: by SetImpl, whatever the slot holds by now, and by a
\* worker.
Clear(a) ==
  /\ At(a, "clear")
  /\ Goto(a, IF impl[Place(a)] = None THEN "reset" ELSE "decrease")
  /\ KeepAll

\* Through queue_, which is null where another thread has cleared it meanwhile.
\* An SPSC queue throws when it had not one producer.
Decrease(a) ==
  LET q == queue[Place(a)]
  IN  /\ At(a, "decrease")
      /\ IF q = None
           THEN Exit /\ UNCHANGED producers
           ELSE /\ producers' = [producers EXCEPT ![q] = @ - 1]
                /\ IF q \in single /\ producers[q] # 1 THEN Throw(a) ELSE Goto(a, "reset")
      /\ UNCHANGED <<impl, queue>> /\ KeepRest

Reset(a) ==
  /\ At(a, "reset")
  /\ impl' = [impl EXCEPT ![Place(a)] = None]
  /\ Goto(a, "forget")
  /\ UNCHANGED <<queue, producers>> /\ KeepRest

\* Whether the slot at hand takes the queue: the casts of SetImpl.
Matches(t) == LET e == NextEnd(t) IN Side(e)[e.slot] = Type(th[t].job)

\* A worker goes on to the next slot; SetImpl looks at the type of the queue.
Forget(a) ==
  /\ At(a, "forget")
  /\ queue' = [queue EXCEPT ![Place(a)] = None]
  /\ CASE a \in Workers ->
            th' = [th EXCEPT ![a].at = @ + 1,
                             ![a].pc = IF th[a].at < Len(Outputs[heap[a].name])
                                         THEN "clear" ELSE "finish"]
       [] a \in Threads /\ Matches(a) -> Goto(a, "point")
       [] OTHER -> Throw(a)
  /\ UNCHANGED <<impl, producers>> /\ KeepRest

Point(t) ==
  /\ At(t, "point")
  /\ queue' = [queue EXCEPT ![Place(t)] = th[t].weak.queue]
  /\ Goto(t, "increase")
  /\ UNCHANGED <<impl, producers>> /\ KeepRest

\* An SPSC queue throws when it had a producer.
Increase(t) ==
  LET q == th[t].weak.queue
  IN  /\ At(t, "increase")
      /\ producers' = [producers EXCEPT ![q] = @ + 1]
      /\ IF q \in single /\ producers[q] # 0 THEN Throw(t) ELSE Goto(t, "hold")
      /\ UNCHANGED <<impl, queue>> /\ KeepRest

\* The end of SetImpl, of an output and of an input.
Hold(t) ==
  /\ th[t].pc \in {"hold", "holdInput"}
  /\ impl' = [impl EXCEPT ![Place(t)] = th[t].weak.queue]
  /\ th' = [th EXCEPT ![t].at = @ + 1, ![t].pc = "link"]
  /\ UNCHANGED <<queue, producers>> /\ KeepRest

\* Clear of an input slot, and the look at the type of the queue.  The slots
\* linked before this one keep the queue when it throws.
ClearInput(t) ==
  /\ At(t, "clearInput")
  /\ impl' = [impl EXCEPT ![Place(t)] = None]
  /\ IF Matches(t) THEN Goto(t, "holdInput") ELSE Throw(t)
  /\ UNCHANGED <<queue, producers>> /\ KeepRest

SetImpl(t) == Point(t) \/ Increase(t) \/ Hold(t) \/ ClearInput(t)

AllLinked(t) ==
  /\ At(t, "link") /\ ~Linking(t)
  /\ Goto(t, IF t = Main THEN "ensureBinding" ELSE "insertBinding")
  /\ KeepAll

InsertBinding(t) ==
  /\ At(t, "insertBinding")
  /\ bindings' = With(bindings, th[t].job.name, [config |-> th[t].job, weak |-> th[t].weak])
  /\ Done(t)
  /\ UNCHANGED <<todo, postboys, listed, heap, links, metricNames>>

Bind(t) ==
  \/ FindBinding(t) \/ EnsureBinding(t) \/ Setup(t) \/ LinkNobody(t) \/ TestSlot(t)
  \/ SetImpl(t) \/ AllLinked(t) \/ InsertBinding(t)

-----------------------------------------------------------------------------
(* Running: PostPostboyRun and Postboy::Run.                               *)

FindToRun(t) ==
  /\ At(t, "findToRun")
  /\ IF th[t].job \in DOMAIN postboys
       THEN th' = [th EXCEPT ![t].at = postboys[th[t].job], ![t].pc = "checkState"]
       ELSE Done(t)
  /\ KeepAll

RunPositions == {"checkState", "ensureState", "ensureThread", "store", "emplace", "start"}

\* The reference does not keep a postboy that is replaced.
RunNobody(t) ==
  /\ th[t].pc \in RunPositions /\ th[t].at \in destroyed
  /\ Exit
  /\ KeepAll

AtLiving(t, label) == At(t, label) /\ th[t].at \notin destroyed

\* The handler's own test of the state: 400.
CheckState(t) ==
  /\ AtLiving(t, "checkState")
  /\ IF heap[th[t].at].state = "Initialized" THEN Goto(t, "ensureState") ELSE Done(t)
  /\ KeepAll

EnsureState(t) ==
  /\ AtLiving(t, "ensureState")
  /\ IF heap[th[t].at].state = "Initialized" THEN Goto(t, "ensureThread") ELSE Throw(t)
  /\ KeepAll

EnsureNoThread(t) ==
  /\ AtLiving(t, "ensureThread")
  /\ IF heap[th[t].at].threads = 0 THEN Goto(t, "store") ELSE Throw(t)
  /\ KeepAll

StoreRunning(t) ==
  /\ AtLiving(t, "store")
  /\ heap' = [heap EXCEPT ![th[t].at].state = "Running"]
  /\ Goto(t, "emplace")
  /\ UNCHANGED <<todo, maps, links, metricNames>>

Ended(o) == th[o].pc = "finished"

\* optional::emplace destroys a thread that is there, which joins it, and then
\* starts the new one.
JoinThread(t) ==
  /\ AtLiving(t, "emplace")
  /\ heap[th[t].at].threads > 0 => Ended(th[t].at)
  /\ Goto(t, "start")
  /\ KeepAll

\* (What a second worker does beside the first is not modelled.)
StartThread(t) ==
  LET o == th[t].at
      next == Thread(IF t = Main THEN "run" ELSE "idle")
  IN  /\ AtLiving(t, "start")
      /\ heap' = [heap EXCEPT ![o].threads = @ + 1]
      /\ IF heap[o].threads = 0 \/ Ended(o)
           THEN th' = [th EXCEPT ![t] = next, ![o].pc = "process"]
           ELSE th' = [th EXCEPT ![t] = next]
      /\ UNCHANGED <<todo, maps, links, metricNames>>

Run(t) ==
  \/ FindToRun(t) \/ RunNobody(t) \/ CheckState(t) \/ EnsureState(t) \/ EnsureNoThread(t)
  \/ StoreRunning(t) \/ JoinThread(t) \/ StartThread(t)

-----------------------------------------------------------------------------
(* A worker that leaves its loop: UnlinkQueues, and the end of a postboy.  *)

\* Postboy o has slots to unlink on neither, or only on one side.
ToOutputs(o) == IF Outputs[heap[o].name] = <<>> THEN "finish" ELSE "testOutputs"
ToInputs(o) == IF Inputs[heap[o].name] = <<>> THEN ToOutputs(o) ELSE "unlinkInputs"

LeaveLoop(o) ==
  /\ At(o, "process")
  /\ th' = [th EXCEPT ![o].at = 1, ![o].pc = ToInputs(o)]
  /\ KeepAll

UnlinkInput(o) ==
  /\ At(o, "unlinkInputs")
  /\ impl' = [impl EXCEPT ![<<o, "in", th[o].at>>] = None]
  /\ IF th[o].at < Len(Inputs[heap[o].name])
       THEN th' = [th EXCEPT ![o].at = @ + 1]
       ELSE th' = [th EXCEPT ![o].at = 1, ![o].pc = ToOutputs(o)]
  /\ UNCHANGED <<queue, producers>> /\ KeepRest

\* The outputs are tested one after the other, and unlinked (Clear) one after the
\* other if all of them were linked, and none otherwise.
TestOutput(o) ==
  /\ At(o, "testOutputs")
  /\ CASE impl[Place(o)] = None -> Goto(o, "finish")
       [] impl[Place(o)] # None /\ th[o].at < Len(Outputs[heap[o].name]) ->
            th' = [th EXCEPT ![o].at = @ + 1]
       [] OTHER -> th' = [th EXCEPT ![o].at = 1, ![o].pc = "clear"]
  /\ KeepAll

Finish(o) ==
  /\ At(o, "finish")
  /\ heap' = [heap EXCEPT ![o].state = "Finished"]
  /\ Goto(o, "finished")
  /\ UNCHANGED <<todo, maps, links, metricNames>>

Work(o) ==
  \/ LeaveLoop(o) \/ UnlinkInput(o) \/ TestOutput(o) \/ Finish(o)

-----------------------------------------------------------------------------
(* The end of a postboy nobody has a pointer to: one that was replaced, or *)
(* whose Init threw.                                                       *)

\* The positions in which an actor sets or clears a slot.
Setting == {"clear", "decrease", "reset", "forget", "point", "increase", "hold",
            "clearInput", "holdInput"}

\* The postboys to which a thread has a shared pointer: the one it creates, the
\* one it links, and while it links the consumer of an SPSC binding the producer.
Owned(t) ==
  (IF th[t].pc \in {"ensurePostboy", "initMetrics", "init", "insertPostboy"} THEN {th[t].at} ELSE {})
  \cup (IF th[t].pc \in Setting THEN {Object(t)} ELSE {})
  \cup (IF /\ th[t].pc \in Setting \/ Linking(t)
           /\ th[t].job.type = "SPSC" /\ th[t].at = 1
          THEN {th[t].weak.to[Ends[th[t].job][1].name]} ELSE {})

\* The output slots of postboy o that put to queue q, when it lets go of them.
Losing(o, q) == {s \in Slots : s[1] = o /\ s[2] = "out" /\ impl[s] # None /\ queue[s] = q}

\* Whoever drops the last pointer runs the destructor, which joins the worker; it
\* is a step of its own here, which may come later.  Nobody else is at the slots,
\* so they are cleared in one step.
Destroy(o) ==
  /\ heap[o].state # "unborn" /\ o \notin destroyed
  /\ o \notin {postboys[n] : n \in DOMAIN postboys} \cup UNION {Owned(t) : t \in Threads}
  /\ th[o].pc = "none" \/ Ended(o)
  /\ IF \/ Losing(o, None) # {}
        \/ \E q \in single : Losing(o, q) # {} /\ (producers[q] # 1 \/ Cardinality(Losing(o, q)) # 1)
       THEN Exit /\ UNCHANGED <<slots, destroyed>>
       ELSE /\ producers' = [q \in Queues |-> producers[q] - Cardinality(Losing(o, q))]
            /\ impl' = [s \in Slots |-> IF s[1] = o THEN None ELSE impl[s]]
            /\ queue' = [s \in Slots |-> IF s[1] = o THEN None ELSE queue[s]]
            /\ destroyed' = destroyed \cup {o}
            /\ UNCHANGED th
  /\ UNCHANGED <<todo, maps, heap, single, queues, metricNames>>

-----------------------------------------------------------------------------
Step ==
  \/ MainStep
  \/ \E t \in Threads : Create(t) \/ Bind(t) \/ Run(t)
  \/ \E t \in Handlers, n \in Names : RequestPostboy(t, n) \/ RequestRun(t, n)
  \/ \E t \in Handlers, b \in BindingConfigs : RequestBinding(t, b)
  \/ \E a \in Actors : Clear(a) \/ Decrease(a) \/ Reset(a) \/ Forget(a)
  \/ \E o \in Workers : Work(o) \/ Destroy(o)

AtSlots == {a \in Actors : th[a].pc \in Setting}

\* Two actors are at one slot, or a postboy has been started twice.
Contest ==
  \/ \E a, b \in AtSlots : a # b /\ Place(a) = Place(b)
  \/ \E o \in Workers : heap[o].threads > 1

Next == Step /\ contested' = (contested \/ Contest')

Spec == Init /\ [][Next]_vars

-----------------------------------------------------------------------------
Running == ~At(Main, "exited")

\* The slots that put to queue q, but for those that do so before they are counted
\* or after they have been taken off the count.
LinksTo(q) ==
  {s \in Slots : /\ queue[s] = q
                 /\ ~\E a \in Actors : th[a].pc \in {"increase", "reset", "forget"} /\ Place(a) = s}

\* The count by which consumers recognise the end of a stream is the number of
\* output slots that put to the queue, at every moment of creations, links that
\* fail half way, workers that end slot by slot and postboys that are replaced,
\* for as long as no two of them come to one slot at the same time.
CountsAreLinks ==
  Running /\ ~contested => \A q \in Queues : producers[q] = Cardinality(LinksTo(q))

\* A binding the runtime lists is linked at all its ends (those that exist)
\* until the postboy there leaves its loop or is destroyed: none of them was
\* taken away by another binding that several requests set up at once, or left
\* out by one that failed, as long as no two actors come to one slot at once.
BindingsAreComplete ==
  Running /\ ~contested =>
    \A n \in DOMAIN bindings :
      LET b == bindings[n]
      IN  \A e \in {x \in ToSet(Ends[b.config]) : Exists(x)} :
            LET o == b.weak.to[e.name]
            IN  \/ o \in destroyed \/ th[o].pc \notin {"none", "process"}
                \/ impl[<<o, e.side, e.slot>>] = b.weak.queue

\* What exists is listed in the configuration the API serves, at every moment
\* and for every interleaving of the requests.
ExistingIsListed ==
  /\ DOMAIN postboys \subseteq listed.postboy
  /\ DOMAIN bindings \subseteq listed.binding

\* "Valid queue already exists": what LinkOutputQueue and LinkInputQueue test,
\* that the slot of which SetImpl takes possession is free.
NoQueueIsReplaced ==
  \A t \in Threads : th[t].pc \in {"hold", "holdInput"} => impl[Place(t)] = None
=============================================================================
