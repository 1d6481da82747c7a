# Postboy in TLA+

Models of [demagleb/postboy](../src): a C++ runtime that runs a graph of
*postboys*. A postboy is a thread that calls `Process` of its processor over and
over; processors are connected by typed queues; an HTTP server lets clients
stop, resume, sample and finish postboys while they run. The modules are
translated from the code under `src/`; `PROJECT.json` maps every definition to
the lines it stands for. Paths below are relative to the repository.

## 1. The system

| component | state | operations | what is hard | what makes it correct |
|---|---|---|---|---|
| **postboy** `src/postboy/base/postboy.{hpp,cpp}` | atomic `state_` (10 values), atomic `sampleEnd_`, `processedCalls_`, the worker's local copy of `state_` | `Init`, `Run`, `RunImpl` (worker thread), `RequestStop/Resume/Finish/Sample` (any thread), `Wait` | everything is compare-exchange on one word, from local copies; wake-ups; a request that comes at the end | a stopped postboy is quiet, requests are obeyed, a finish is never taken back, no wake-up is lost |
| **processor** `src/postboy/base/processor.*`, `putable_processor.hpp`, `takeable_processor.hpp` | its boxed input and output queues | `Process`, `Finalize`, `UnlinkQueues`, `RequestFinish/Stop` (called from inside `Process`) | asks its own postboy, which may be sampling and ignore it | the input's end finishes the postboy |
| **queues** `src/postboy/base/queues/` | a vendored bounded queue, `activeProducers_` | `Put` (spins while full), `Take` (spins while empty and producers remain), link/unlink | end of stream is a counter, read apart from the queue; `Put` sees no request | end reported only when all producers are gone, and to everybody |
| **bindings** `src/postboy/base/typed_binding.hpp`, `binding.cpp` | configuration, weak pointers to postboys | `Setup`, `AddProducer`, `AddConsumer` | fails half way, or meets another binding at a slot; `queue_` is never assigned | what is listed is linked |
| **runtime** `src/postboy/runtime/` | maps of postboys and bindings, configuration | `Prepare`, `Run`, `WaitFinished`, `CreatePostboy`, `CreateBinding` | maps and slots without a lock, used by the HTTP thread pool; check-then-act; `Init` or `Setup` that throws | what exists is listed; what is listed is linked; counts match links |
| **control API** `bin/api.cpp` | none of its own | one handler per request | concurrent handlers, time of check and time of use | each request has one of its documented outcomes |
| **SpscQueue** `src/common/concurrency/spsc_queue.hpp` | `start_`, `end_`, `closedFlag_`, a position and a copy of the other's index on each side, the slots | `Push`, `TryPush`, `Pop`, `TryPop`, `Close` | copies are outdated; wrap-around; closing | bounded FIFO; the sides never share a slot |
| **message notifier** `src/postboy/notifiers/` | per thread an `SpscQueue<string*, 1024>` and a ring of strings | `Send`, `Handle` | a string is reused while somebody copies it | a copy is what was sent |
| **moodycamel queues** `src/common/concurrency/moodycamel_*` | blocks of slots; per producer indices, a block index, counters of consumers; a free list | `try_enqueue`, `try_dequeue` | overcommitting counters, ABA on the free list, a block that is emptied while another is filled | FIFO per producer; a slot, and a block, has one user |
| **MPSC stack and queue, forward list** `src/common/concurrency/mpsc_*`, `src/common/intrusive` | head pointer, intrusive links | `Put`, `TryTake` | push against exchange, stale links, reversal | FIFO in the order of the exchanges |
| **connection pool** `src/common/http/connection_pull.*` | two lock-free stacks, their roles, a count | `Pop`, `Push`, the pinger, reconnects, the destructor | ABA, detached reconnects, exchanged roles | a connection has one owner; the limit holds |
| **websocket client** `src/websocket/client.cpp` | `State`, messages to send, contexts shared per event loop | `Connect`, `Send`, `Close`, `Finish`, the callbacks | calls for a connection that fail within one another, reconnect against close, a context that several share | never without an attempt while it should have one; closed stays closed; finished is silent |
| **carry** `src/carry`, `src/refer` | chains of counted storages | `Wrap`, `Scope`, `Current` | shared storages, released in any order | a task sees its own scopes; counts are exact |
| **Prometheus metrics** `src/postboy/prometheus_metrics/` | registry, families, metrics | `Add`, `Remove`, `Collect`, `Observe`, ... | collected while others add and observe | a family has one name |
| **instruments, threads, configuration** | loaded once | `Load`, `Get`, `Configure` | `Load` that throws | loaded once, or not |
| WaitGroup, SpscByteQueue, Spinlock, intrusive list, compass, sure, memory, csv, shell runner, util | - | - | mostly without a user in the program | - |

How they interact. `bin/main.cpp` prepares the `Runtime` from a configuration:
postboys are created and initialised, bindings link processors to queues (each
linked producer increases the queue's `activeProducers_`), the graph is
validated. `Runtime::Run` starts one thread per postboy; the main thread then
sits in `WaitFinished`. HTTP handlers run on a thread pool and call the request
functions of a postboy, which change `state_` by compare-exchange; the worker
answers when it next looks. A processor reads and writes queues only inside
`Process`. When `Take` returns nothing, the processor calls
`RequestFinish` of its own postboy; the worker leaves its loop, finalises the
processor and unlinks its queues, which lowers the counts of the queues it
produced into - so the end of the sources travels down the graph.

The hazards this gives rise to are listed in `PROJECT.json`, each at its line.

## 2. Modules

| module | models | extends / instance of |
|---|---|---|
| `PostboyLifecycle` | the promise: ten states, who may move between them, when `Process` may run | - |
| `Postboy` | the postboy: worker, clients, waiter | implements `PostboyLifecycle` |
| `PostboyProofs` | theorems about `Postboy` | `Postboy`, TLAPS |
| `BoundedFifo` | the promise: a bounded first-in first-out queue | - |
| `SpscQueue` | the ring buffer | implements `BoundedFifo` |
| `SpscQueueProofs` | theorems about `SpscQueue` | `SpscQueue`, TLAPS |
| `Pipeline` | a graph of postboys and queues: take, put, end of stream, finish and sample requests | - |
| `MCPipeline` | the graph TLC checks | `Pipeline` |
| `PipelineProofs` | theorems about `Pipeline` | `Pipeline`, TLAPS |
| `MessageNotifier` | the senders' rings of strings and the reader that collects them | - |
| `MessageNotifierProofs` | theorems about `MessageNotifier` | `MessageNotifier`, TLAPS |
| `Runtime` | preparing and running the graph, the API's handlers, bindings end by end, how workers unlink | - |
| `MCRuntime` | the configurations TLC checks | `Runtime` |
| `RuntimeProofs` | theorems about `Runtime` | `Runtime`, TLAPS |
| `ConnectionPull` | the pool of HTTP connections | - |
| `MCConnectionPull` | the threads TLC checks | `ConnectionPull` |
| `WebsocketClient` | the clients of one event loop | - |
| `MCWebsocketClient` | one client, or two | `WebsocketClient` |
| `ClientsProofs` | theorems about `ConnectionPull` and `WebsocketClient` | both, TLAPS |
| `ReaderWriterQueue` | the vendored queue of SPSC bindings | implements `BoundedFifo` |
| `ConcurrentQueue` | the vendored queue of the other bindings | - |
| `ConcurrentQueueProofs` | theorems about `ConcurrentQueue` | `ConcurrentQueue`, TLAPS |
| `MpscQueue` | the intrusive queue over the lock-free stack | implements `BoundedFifo` |
| `Carry` | context storages and their reference counts | implements `ScopedContexts` |
| `ScopedContexts` | the promise: a stack of maps per task | - |
| `Library` | the two vendored queues, the MPSC queue and the contexts together, one playing at a time | `ConcurrentQueue`, and instances of the others |
| `MCLibrary` | the casts and the symmetry TLC checks it with | `Library` |
| `LibraryProofs` | theorems about the other queues and the contexts | `Library`, TLAPS |

### Postboy

Three kinds of threads. The **worker**'s `pc` names where it is in `RunImpl`;
`loc` is the local variable `state`. The tests of its loops read only `loc`, so
they are evaluated in the step that last changed it: `Outer` is the condition
of the outer loop followed by the choice of an inner branch, `AfterTest(k, l,
n)` continues behind the k-th `if` of the loop body with local state `l`. The
four answers (`EndSampling`, `BeginSampling`, `ConfirmStop`, `ConfirmResume`)
are instances of `Exchange`, a `compare_exchange_strong(state, to)` with the
detail that matters: a success leaves the local copy *unchanged* (so the later
tests still see the request), a failure loads the new state. **Callers** are
clients and the worker itself, when the processor requests something from
inside `Process`. A request is `Invoke` (the first load), for a sample request
`Arm` (the deadline, stored anew in every iteration) and `Apply` (the
exchange), repeated as the code's loop is. `state_.wait` is two steps: look and
sleep (`Park`, `Block`), and wake up after a notification (`Wake`,
`WakeWaiter`); a sleeper in `asleep` is removed only by a `notify_all`, so that
`Run`'s silent store really wakes nobody. The standard permits spurious
wake-ups, but `atomic::wait` hides them: it returns only when the value differs.

The clock is one bit (`elapsed`, reset by `Arm`), what a processor reads from is
another (`inputEnded`). A processor may ask to stop at any call, and asks to
finish in every call after its input ended.

### SpscQueue

One action per access of shared memory, in program order. Positions are the
unbounded counters of the code; a value is named by the number of values
written before it, so that a slot's content tells which write it holds. The
two operations of a side share their steps and differ in `AfterFullTest` and
`AfterEmptyTest`: only `TryPush` looks at the closed flag when there is room,
only `Push` and `Pop` wait. A `Push` that returns without writing because the
queue is closed, and a `Pop` that returns nothing, go to "idle".

### Pipeline

A postboy is reduced to what its clients and its queue can tell apart: working,
sampling (requests to finish are ignored) or finishing. This reduction is what
module `Postboy` establishes about one postboy: a finish is never taken back,
and a stopped postboy takes no step. A stopped postboy is therefore a worker
that is not scheduled, which safety allows at any time; the liveness properties
are about postboys that nobody leaves stopped. A call of `Process` runs from
"between" to "between": `Produce`, or `BeginTake` followed by `Dequeue` or by
the loop `FindEmpty` / `CountProducers`, then `Put`. The count of producers is
read in a step apart from the look at the queue, as in the code. The vendored
moodycamel queues are external: sets of numbered elements from which a take
removes the oldest of *some* producer, with at most `Capacity` elements. What
the queues are inside is the subject of `ReaderWriterQueue` and
`ConcurrentQueue`.

### MessageNotifier

Each thread that sends has a notifier: strings `storage`, the index
`storageIdx` of the next one, and a `queue` of pointers to them, which is here
the bounded FIFO that `SpscQueue` implements. `SendImpl` is two steps: `Store`
writes the string *before* `Push` has room for the pointer, so the string that
waits is in use, and so is the one whose pointer the reader has popped (`Pop`)
and which it has not yet copied (`Copy`). The mutex is held from `BeginHandle` to
`EndHandle` or a full buffer; a notifier is registered and unregistered only
while it is free (`Locked`). It does not protect the strings. A message is named
by its thread and its number, and the history variables count, for each thread,
what was written, popped and passed on.

### Runtime

A thread is the main thread or an HTTP handler. `th[t].pc` says which line of
the call it stands at; `job` is the name or the configuration of what it
creates or binds, `at` the end or the slot it has come to. Each look at a map and each
insertion is a step of its own, because no lock protects `postboys_`,
`bindings_` or `config_` from the handlers: a name is looked up, then listed, then the postboy is
constructed, then `InitMetrics` and `Init` are called (either may end in an
exception or, for a second family of one name, in an abort), then it is
inserted. A binding takes weak pointers first (`FromConfig`), constructs its
queue, and links one slot after the other. A slot is a pair of `impl_`, which owns the
queue, and `queue_`, through which the processor puts and the count is changed, and
nothing locks it: the test of `putable_processor.hpp` (`TestSlot`), the accesses of
`BoxedProducerQueue::Clear` (`Clear`, `Decrease`, `Reset`, `Forget`) and those of
`SetImpl` behind it (`Point`, `Increase`, `Hold`) are a step each, of the thread that
links and, for `Clear`, also of the worker that unlinks. A `queue_` that is found
null because another thread has cleared it meanwhile ends the program. A handler that meets an exception answers
with an error and leaves what it did; the main thread ends the program. A
postboy is an object of `heap`; an overwritten entry of the map destroys the
object, once nobody has a pointer to it any more, and with it what it linked. A worker
is reduced to how it ends (`Finalize`, then inputs, then a test of every output, then
the outputs), which is what `Postboy` establishes. The history variable
`contested` tells whether two actors have been at one slot at the same time, or a
postboy was started twice: then the code promises nothing any more.
The standard containers themselves are assumed to survive concurrent calls;
strictly, they need not.

### ConnectionPull

Connections are numbers. The two stacks are `top[0]` and `top[1]`, `first`
says which one is `First()`. `Pop` is three steps (load the top, read
`nextConn_`, compare-exchange); the value read in the second may be outdated at
the third, so ABA is in the model, and the history variable `outdated` notes the exchange
that ABA makes wrong. A connection that fails is given to the
detached thread of its own name. The pinger pops from the first stack, pings
what is due and pushes to the second, then exchanges the two; the destructor
joins it and deletes what is left. Whether a period has ended, a deadline has
passed or a ping fails is a choice.

### WebsocketClient

The event loop runs the callbacks and the program's calls on one thread, so a
call or a callback is one action. libwebsockets is external: for each client a
timer, its connections (`conns`), the last one it was given (`wsi`), and requests for
a writable callback (`writable`). A call of `lws_client_connect_via_info` that fails
may report `CLIENT_CONNECTION_ERROR` before it returns, and the callback calls
`ConnectImpl` again: `ConnectImpl` is what a whole nest of such calls has done in the end,
a number of calls that failed and at most one that made a connection, with each
failure scheduling the timer, whatever the others did, and the retries counted.
So a client may have a timer and a connection at once, and two connections, as it may in
the code. `Send` looks at no state; with no connection to ask it uses a null one. What
libwebsockets calls back while `lws_context_destroy` runs is not shown: `Finish` has set
`NotConnected` before. `context`
and `clientsCount` are the loop's entry in the map of contexts, which all its
clients share. Use of a null context or connection sets `crashed` and ends the
behaviour. The names that the pool has too begin with `Websocket` or `Connection`
here: one module proves about both.

### The library

`ReaderWriterQueue` has the circle of blocks with their `front`, `tail` and the
local copies, one step per access; `try_enqueue` that finds no room in the tail
block goes to the next block only if that one is not the front block.
`ConcurrentQueue` has, for each producer, the tail and head indices, the two
counters with which consumers claim values (`dequeueOptimisticCount`,
`dequeueOvercommit`), the ring that finds a block by the index of its first
value, the blocks with their counts of emptied slots, and the free list whose
reference counts decide who adds a block. `MpscQueue` has the links themselves,
including the ones that `PushFront` leaves behind, and nodes that are put again
while a producer still holds their address. `Carry` has the storages, their
counts and who deletes them.

`Library` composes the four: they share no state, so `playing` picks one in
the initial state and the others stay as they began. One run checks them all,
each property under the condition that its module plays, and the proofs are
about the same composition; those of `ConcurrentQueue` are about its own `Spec`, which
the composition implements (`LibraryRunsTheQueue`).

A block of `ConcurrentQueue` is on the free list if it is in the least set that
holds the list's head and, with a block, the next one (`Chain`): a definition without
recursion, so that it can be reasoned about. A thread that puts to a queue and
takes from it would be one producer and one consumer, which then interleave
more freely than in the program. `ShouldBeOnFreeList` stands for the flag
`0x80000000` in a reference count; that there are fewer producers than it is what
the code supposes when it keeps count and flag in one word.

## 3. Runs

| run | instance | shows |
|---|---|---|
| `postboy` | two clients, call number 2 or unlimited, no fairness | `StoppedIsQuiet`, `AtMostOneLateCall`, `CallsWithinLimit`, `FinishedWhenDue`, `FinishIsIrrevocable`, and the refinement `LifecycleSpec`; 239 513 states |
| `postboy_live` | one client, the main thread, call number 1 or unlimited, fair | `RequestsAreHandled`, `EndOfInputFinishes`, `WaiterReturns`; 166 753 states |
| `spsc_queue` | 3 slots, 8 values, fair | `SlotsAreExclusive`, the refinement `FifoSpec`, `CallsReturn`; 7 118 states |
| `spsc_queue_close` | the same | **violated**: `ClosedQueueIsDrained`, see Findings |
| `message_notifier` | two threads, five messages each, queue 2, storage 5, buffer 2; fair | `TypeOK`, `CopyIsIntact`, `OnlyTheLivingAreRead`, `DeliveredInOrder`, `MessagesArrive`; 58 458 states |
| `pipeline` | source, two Dummies in parallel (SPMC, then MPSC), sink; queues of one element, two items; fair | `TypeOK`, `ItemsAreConserved`, `RoutesKeepOrder`, `EndOfStreamIsFinal`, `EndOfStreamPropagates`, `PutWaitsOnlyForTheDead`; 195 302 states |
| `runtime` | main thread and two handlers, seven configuration files, six bindings | `CountsAreLinks`, `BindingsAreComplete`, `ExistingIsListed`; 509 657 states |
| `runtime_replaced` | two handlers, no configuration file | **violated**: `NoQueueIsReplaced`, see Findings |
| `connection_pull` | limit 2; one user, two users, the pinger, or a user beside the pinger, and the destructor | `EachOnce`, `CountBounded`, `DestructionEnds`; 1 646 175 states |
| `websocket` | a client alone on its loop | `KeepsTrying`, `FinishedIsSilent`, `ClosingIsFinal`; WSSTATES states |
| `websocket_shared` | two clients on one loop | **violated**: `CountIsPositive`, see Findings |
| `library` | the four modules of the library | `FailsOnlyWhenDue`, `TakesItsValue`, `ClaimsAreBacked`, `BlocksAreExclusive`, `CountsAreReferences`, the refinements `FifoSpec`, `MpscFifoSpec`, `ContextSpec`; 532 645 states |

Every property has a mutant in its module: a definition changed as a plausible
bug in the code would change it, with which TLC finds the property violated.

**Bounds.** The number of clients, the call numbers, `Capacity`, `MaxPushes`,
the graph and `Limit` (the items a source makes) are the only bounds. Two
clients are enough for a request to race with a request and with an answer; the
worker itself is a third caller. Call number 2 lets both loops end by the
count, in the first and in a later call. One client is enough for the liveness
run because the processor is the second caller. Eight values go around a ring
of three slots twice and leave every pair of positions modulo 3. Queues of one
element are both full and empty all the time, and two items are enough for
overtaking. The storage of the notifiers has the least size that is safe,
`QueueSize + 3` (the code has 4096 for a queue of 1024, and never uses the last
one), and `MaxSent` of five messages go around its four slots. The safety theorems below hold without these bounds.

`Runtime`: at most two postboys and two queues are ever constructed, enough
for a source and a sink, for a name to be created a second time and for two bindings
to compete for one slot. The graph has a source with two outputs of different types, so a binding
can fail at its second end; a configuration file may be empty, complete, name a
prepared item like a postboy, name one postboy twice, or leave the rest to requests;
bindings name slots that do not exist, or of another type, or ends that cannot put.
The constraint `Followed` ends a behaviour at the first contest, behind which
`CountsAreLinks` and `BindingsAreComplete` say nothing, and leaves out combinations of
what does not interact: requests for the prepared item, two odd bindings in one behaviour,
and, once a postboy runs, two requests at a time of which one is no binding. Nothing of this
bounds the theorems. `runtime_replaced` follows requests before any postboy is
started (`NoneStarted`), where it finds the contest.

`ConnectionPull`: two connections, so that a stack has a top and a next. Everybody
may pop, push, detach and exchange at the same time. `EachOnce` is about everything up to the first
exchange for an outdated successor, and says that with one thread that pops there is
none; with two, TLC shows it at once. The constraint `Followed` ends a behaviour with the pinger
at that exchange. `DestructionEnds` is stated for one thread that pops: after an outdated
exchange nothing is known of the links that the destructor follows.

`WebsocketClient`: a client connected twice, two retries, two waiting
messages, three connections at a time and three failing calls within one another
(one more than the retries). That is one more of everything than the first time, which is where
the code differs (the first message asks for a callback, the retries end, a second
connection takes `wsi_`). `websocket_shared` has two clients and one of everything. For several clients of one
loop `ClosingIsFinal` is proved and not run: too many states.

`library`: the reader-writer queue has three blocks of four slots, and eleven
values, so that the circle closes and a block is filled a second time while its
first values are taken; the concurrent queue has blocks and indices of two, a
pool of two blocks and six values, with two consumers against one producer (who
race for a value and for the emptied block) or two producers and one consumer
(who race for the free list). `MaxInVain` bounds how often a consumer comes too
early: the counters would grow without end. The MPSC queue has two producers
and three nodes; contexts have two tasks, two keys, three storages and a depth
of two. Producers, and consumers, are symmetric; the run checks safety only,
for which symmetry is sound. So it is in `runtime` and `runtime_replaced`.

**Fairness.** The scheduler runs every thread: weak fairness of the worker, of
each caller inside a request, of a waiting thread, and of each side of the ring
inside an operation. The clock advances, and `Process` returns - the pipeline
shows when it does not (`PutWaitsOnlyForTheDead`). The reader of the notifiers loops for ever, and a thread inside `Send` goes on.
`MessagesArrive` supposes that threads stop sending some day (`MaxSent`):
`Handle` begins with the first notifier every time, and a thread that always
fills the result buffer keeps the others waiting. Nobody has to send a
request, call `Push`, run a postboy or end an input. Two premises are stated
in the properties because the code cannot do without them:
`EndOfInputFinishes` supposes that the clients stop interfering (two of them
taking turns can make every compare-exchange of a third fail, and can keep a
postboy sampling for ever, in which case its own request to finish is ignored)
and leaves out a postboy left stopped; `EndOfStreamPropagates` supposes that
nobody cuts a consumer off and that sampling ends. In the pool, the pinger and the destructor are
scheduled; nobody has to use the pool, and no peer has to answer, which is why
`DestructionEnds` is said of them alone. The other modules state no fairness
and no liveness.

**Deadlock** is checked in the runs of `SpscQueue`. A finished postboy, a
finished pipeline, a program that exited or crashed, a destroyed pool and a
bound that is used up stop, so the other runs say `CHECK_DEADLOCK FALSE`; what may
not stop is stated as liveness.

**Memory model.** Interleaving of single accesses. The code runs on x86 (it
uses `_mm_pause`); its release/acquire accesses and compare-exchanges are
ordered there as the models order them. A store or compare-exchange and the
`notify_all` behind it are one step: a waiter that sleeps in between would be
woken by that notification too.

## 4. Proofs

For all values of the constants, checked by TLAPS.

*Postboy* (`PostboyProofs`, assumption `PostboyAssumption`: the worker is no
client, call numbers are positive or unlimited). `TypeCorrect`,
`StoppedIsAlwaysQuiet`, `LateCallBound`, `CallBound`, `FinishedIsDue`,
`FinishIsNeverTakenBack`, `PostboyImplementsLifecycle`. None of the invariants
is inductive alone: a worker about to confirm a stop while its copy says
something else satisfies them all and breaks them with its next steps. The
inductive invariant `IInv` relates the worker's position to its copy `loc`
(`LocalInv`: which answer it is about to give, and that it calls `Process` only
with a copy that allows it) and to `state` (`PhaseInv`; `StoppedInv`: only the
worker makes a postboy Stopped, and then it sleeps or leaves), each caller's copy
to what its request accepts (`RequestInv`), the history variable `late` and the
call number to the position (`LateInv`, `LimitInv`), and what is released
(`ReleaseInv`). Each theorem follows from it; the refinement takes one step per
action.

*SpscQueue* (`SpscQueueProofs`, `SpscAssumption`: at least one slot).
`TypeCorrect`, `CopiesAreSafe`, `SlotExclusion`, `OrderKept`,
`SpscQueueImplementsFifo`. `CopiesAreConservative` and `PoppedInOrder` are
theorems only: the refinement checked by the run contains the second. The inductive invariant adds to
`CopiesAreConservative` where each index lags (`PositionInv`), that a producer
about to write has room (`RoomInv`), and what every slot holds
(`ContentInv`). That two positions less than `Capacity` apart have different
slots is a lemma about the remainder.

*Pipeline* (`PipelineProofs`, `PipelineAssumption`: finitely many postboys, each
with an input or an output; `NothingAssumption`). `TypeCorrect`,
`EndOfStream`, `Conservation` and `OrderOnEveryRoute`. The invariant `CountInv` says that `activeProducers_` of a queue
is the number of its producers that have not finished; `RoleInv`, that only a
postboy with an input takes and only one with an output puts. Type correctness
already needs them: the count stays a natural number only because nobody
unlinks twice. `Conservation` states the counting property as its parts, each of which a step
can disturb: an item has been made exactly if it is somewhere (`MadeInv`), no
two hands hold one item (`HandsInv`), no two elements carry one
(`ElementsInv`), and none is in a hand and in an element (`ApartInv`). They are
inductive together with who holds an item (`HandInv`) and which queue an element
lies in (`PlaceInv`).

`OrderOnEveryRoute` proves `RoutesKeepOrder` for every graph that satisfies
`RoutesJoinOnlyAtTheEnd`: the items of a source come to a postboy that passes them
on from one producer only. Nothing in the code demands that of the bindings, so
it is a premise of the theorem, and the run evaluates it for its own graph
(`RouteAssumption`). It cannot be left out: with one more Dummy behind the two that run side
by side, TLC finds items of one source in the wrong order. The invariant `OrderInv` says that
what one postboy has queued lies in the order of the source (`KeyInv`, `LineInv`),
behind what the end has used up (`UsedInv`) and before what it has in its hand
(`FrontInv`). Two postboys in a row are not enough for induction: `PassInv` says
of any two on a route, however far apart, that what has come to the later one is
earlier than what is still with the other. An item that is taken moves along
the route, and the pairs that change are the ones with its producer; that there is no
other way to come to the taker is the premise, and that the taker's items do
not come back to the producer follows from it (`NoWayBack`): a source that
reaches a circle would reach one postboy of it from two.

*MessageNotifier* (`MessageNotifierProofs`, `NotifierAssumption`: a storage of
more than `QueueSize + 2` strings). `TypeCorrect`, `CopyIsAlwaysIntact`,
`LivingOnly`, `Order`. `CountInv` says that every message written is popped, queued or
about to be queued, `PointerInv` that pointers are handed out in the order of the
messages, `StorageInv` that every message not yet copied is in its string; the
last is preserved because at most `QueueSize + 2` messages are in use and the
numbers of so many consecutive messages have different remainders
(`SlotDiffers`). `ListInv` says that the list holds each living notifier once,
which is why removing one removes all there is of it. `Order` adds
`BufferInv`: the reader has passed on what it popped, but for the message it is
copying.

*Runtime* (`RuntimeProofs`, `RuntimeAssumption`: the main thread is no handler,
configuration files and bindings have their types, and a binding has ends on both sides).
`WhatExistsIsListed`: a thread that is going
to insert a name has listed it (`Ready`), and nothing is ever taken off the list.
`CountsAlwaysLinks` and `ListedBindingsAreComplete` hold for any number of handlers
that do anything at the same time, with a slot set and cleared access by access, up
to the first contest: two actors between the test of `Clear` and the end of `SetImpl`
at one slot, or a postboy started twice. The premise is part of the properties, and
the code does not keep it (`runtime_replaced`). The invariant `LinkInv` says what is true of
every slot until then: nobody is at it and `impl_` and `queue_` agree, or one actor is,
and its position tells what both hold (`OutInv`, `ThreadSlot`, `WorkerSlot`). So
`Clear` in `SetImpl` finds nothing to clear, a worker's `Clear` counts off what it will
forget, and the count of a queue is the number of slots that put to it, but for the
positions `Between` the store and the count (`CountInv`). That `IncreaseActiveProducers` of an
SPSC queue does not throw needs that each thread links a queue of its own
(`Distinct`) to which nobody puts yet (`Unused`). Every step does one of few
things to the slots - none, one slot, all slots of a destroyed postboy - each with a lemma; what
threads and workers know of the objects they are at is `TInv` (`Fit`, `FitWorker`). For
bindings, `HeldInv` says that the ends a thread has linked so far, those of a binding about to be
inserted, and those of all that are listed are held; a slot that holds a queue loses it only
to its own worker, or with its postboy (`Gentle`).

*ConnectionPull* (`ClientsProofs`, `PullAssumption`: a positive limit,
finite casts of known threads, and names that are no numbers).
`PoolIsBounded`: whoever is about to raise the count has read a value below the
limit (`CountInv`), and the exchange succeeds only if it is still the count.
`EachConnectionOnce`, for any number of users beside the pinger: as long as no `Pop` has exchanged the top for an
outdated successor, the hands, the two chains and the deleted are disjoint and
are all that was made (`OwnInv`); no two links of a chain lead to one connection,
and none to its top (`LineInv`), so that a pop takes the top and nothing else out of what is
reached. If one thread pops, what it looks at is still linked where it
found it, with the successor it read (`PopInv`), so that its exchange is never
the outdated one. With two, it can be: that is ABA, and the theorem ends there. A chain is the least set that holds its top and is closed under the
links, so that no recursion stands in the way: that a chain survives a change
elsewhere, grows by a push and shrinks by a pop are lemmas about such sets. Where an
induction along a chain is needed, it is by the least counterexample
(`LeastNumber`).

*WebsocketClient* (`ClientsProofs`, `ClientAssumption`: finitely many
clients). `NeverStopsTrying`, `FinishedClientIsSilent`, `ClosingStaysFinal`, for any number of connections
and of calls within one another.
The first two are about a client that is alone on its loop; the invariant
`Lonely` ties its state to the count of the context and to the calls of
`Connect` that failed, so that its `Finish` is seen to destroy the context, and
with it whatever could call back. What a nest of calls leaves behind is one lemma
(`ConnectImplTries`): a timer, a connection, or a client that closes.

*ConcurrentQueue* (`ConcurrentQueueProofs`, `CqAssumption`: finitely many producers
and consumers, no thread both, fewer producers than the flag; blocks of at
least two slots, a nonempty index, any pool).
`ClaimsAreAlwaysBacked`, `TakesTheValueEnqueued`, `EachBlockInOnePlace`. The three
invariants hold because of each other: the counters keep a claimed index below
the tail, so that it has a block; the places keep that block out of every other
hand; and what a consumer finds in its index tells where the block goes next. The
inductive invariant `QueueInv` has four parts, each with a lemma per step:

- `IInv`, the counters. A consumer decides from a count and an overcommit it
  read earlier. `Balance` says that the difference of the two counters is the
  number of values claimed plus the consumers that have counted themselves; `Bound`
  that, for every `T` from the tail upwards, the values claimed, the consumers
  going to claim and those whose number, less the overcommit they know, is below `T`
  are together at most `T`. The quantifier over `T` is what a producer that
  raises the tail needs.
- `TypeInv`, the types, and at which labels a thread holds a block.
- `ListInv`, where blocks are. Every block has one place (`Placed`: pool, list, an
  entry, a producer's hand, being added, waiting), and what it counts is the number of
  producers that refer to it and what its place owes (`Counted`): the flag
  while someone is to add it, one on the list or on the way there. `LinkOf` is what
  defeats ABA: the successor that a producer has read of a block it refers to
  is still the block's successor when it exchanges the head, since a block with
  references is not linked anew. `RankInv` gives the blocks on the list falling
  ranks, so that taking its head takes nothing else out of the least set
  (`ListPopped`).
- `IndexInv`, what lies in the blocks. An index is pending until its value is taken
  out (`Pending`). Block number `m` of a producer is in entry `m % IndexSize`
  with the key `BlockSize * m` (`KeyInv`), the index's tail is the entry of the
  tail's block or of the one before it, by where the producer is (`EnqInv`), and every pending
  index below the tail has its block, its key and its value (`ValueInv`). What has been emptied of a
  block and what is pending in it are together `BlockSize` (`LeftInv`), so the
  consumer that takes the last one, and no other, gives the block back, and no pending index
  loses its entry (`ForgetFacts`). `DeqInv` and `Apart` say what a consumer has found, and that no two of them
  are after one index or one block.

That a consumer may start from any entry with a key, also one that the producer
is just about to give back, is the arithmetic of `EntryFacts`. TLC checked the
last two parts, their indices bounded, before they were proved, on four
instances: up to three producers or two consumers, blocks of 2 and 3, an index of 1 to 3
entries, pools of 2 and 3 blocks.

*ReaderWriterQueue* (`LibraryProofs`, `RwAssumption`: blocks of at least two slots,
at least one block). `RingFailsOnlyWhenDue`, `RingTakesInOrder`,
`RingImplementsFifo`. The invariant `RingInv`: every
block strictly between the front block and the tail block is full, since the
producer leaves a block only when it is, and the consumer has not been there
yet; those beyond the tail block are empty, but for the one that the producer is
about to enter (`RingBlocks`). So the number of the value in any slot has a
closed form, `Before(b)` and the slot's distance from the front, and every slot
that is in use holds that value (`RingData`). The producer's and the consumer's
copies of each other's indices err on the safe side, and what each has found
out on its way through the blocks stays true (`RingProducer`, `RingConsumer`): in
particular a consumer that saw its block empty and then another tail block looks at its block
once more before it goes on. TLC checked
`RingInv` for blocks of 4, 2 and 3 slots, and 3, 4 and 1 of them, before it was proved. The
refinement mapping finds the n-th value behind the front slot by division
(`Item`), and `RingData` says that it is the n-th value after the one in front
(`ItemFact`). `TakesInOrder` is a theorem only: the refinement contains it.

*MpscQueue* (`LibraryProofs`, `MpscAssumption`: finitely many nodes, `nullptr`
none of them). `MpscImplementsFifo`. The links and the three lists that hold them
are one sequence of nodes with three cuts (`Linked`): the nodes up to the first are acquired,
those up to the second are what is left of the stack that is being turned
round, those up to the third are turned round, and the rest is the stack. The first and the third part
are linked forwards, the others backwards, and the link that the last node of a
list keeps is left open, which is why `PopFront` must not look at it. A
producer's node that is about to be exchanged points to the head it read
(`MpscShape`): an exchange that finds the same head is right, whatever has
become of that node in between. Every step keeps the sequence, adds a node at its end
or takes the first (`Moves`), and the chains that the refinement mapping
follows along the links are the parts of the sequence (`ChainIs`,
`MpscItems`): what the recursive function in `Chain` returns is proved by naming
the function and showing, by the least argument at which it might differ, that there is
no other.

*Carry* (`LibraryProofs`, `CarryAssumption`: finitely many tasks and storages, the
empty one not among them). `CarryCountsItsReferences`: three kinds of
references - storages that wrap it, tasks that hold one in their hands, places in
the stacks - are three finite sets, of which each step changes one or two by one member, and
the count by as many (`Recount`); `HeapInv` and `TaskInv` say that whatever is
wrapped, held or on a stack is alive, so that a new storage has no references.
`CarryImplementsContexts`: what a living storage wraps has a lower rank than itself
(`Ranked`), so a lookup that goes as deep as there are storages ends at the empty one,
and what it finds is what the storage sets over what it wraps (`MapsOwn`; `LooksSettle`
has the least depth at which one more would make a difference). A storage keeps
its entry and what it wraps as long as it lives (`HeapStep`), so by induction on
the ranks what is found in it stays (`MapsKept`), and a task that is about to
make a storage holds the context it is in (`HandInv`).

Only model-checked:

- liveness, which the prover cannot do (fairness, `ENABLED`).

Every invariant and every action property that a passing run checks is a theorem.

## 5. Findings

`spsc_queue_close`: `SpscQueue::Pop` reads `end_` and then the closed flag. If the
last value is pushed and the queue closed between the two, `Pop` returns
nothing and leaves the value. `tests/unit/test_spsc_queue.cpp` asserts that
every one of its 100000 `Pop`s, racing with `Push` and `Close`, returns a value.

`websocket_shared`: `Finish` counts a client out of its loop's context, but
leaves its connection open while other clients use the context. The next
callback that establishes a connection finds `state_ < Connected` and sets
`Connected`, so that a second `Finish`, or the destructor, counts the client out
again; the other's `Finish` then meets the assertion `clientsCount > 0`
(`src/websocket/client.cpp:191`). The websocket processor gives each client a
loop of its own, where this does not happen (`websocket`).

`runtime_replaced`: `LinkOutputQueue` and `LinkInputQueue` test a slot ("Valid queue
already exists", `src/postboy/base/putable_processor.hpp:33`) and then set it by several accesses
without a lock, while httplib serves requests on a thread pool. Two requests for
bindings that share a slot both pass the test; the second replaces the queue of the
first, whose binding is then listed and not linked. If both look at `impl_` in `Clear`
before either has set it, the first queue's count stays above zero for ever and its
consumers never see the end; if one clears what the other is setting, the
count is taken off through a null `queue_`.

Met while modelling, and recorded as hazards where the code is exposed to them,
because nothing in the repository says otherwise or because the code aborts:

- a request whose compare-exchange succeeded tries again and may take effect
  twice; one that arrives after the last call is overwritten;
- `Take` may report the end with one element left (`queues/spsc.hpp:31`);
- a thread that ends takes the messages nobody has read with it, and an early
  notifier can starve the others (`message_notifier.cpp:12`);
- the comment at `processor.hpp:31` calls a processor's name unique, yet a
  postboy whose `Init` threw can be created again, and its second family of
  metrics aborts the program (`registry.cpp:101`);
- after `Init` throws, a postboy that does not exist is listed (the theorem
  about `ExistingIsListed` is the other direction);
- two `POST /run` of one postboy may both pass the check of `Run`, and the
  second runs a finished processor again;
- `AddProducer` and `AddConsumer` link a queue that is never assigned;
- a client's call for a connection that fails around one that succeeded leaves a timer beside
  a connection, and so a second connection later; `Send` before there is a
  connection asks a null one;
- with two threads that pop, the connection pool has the ABA problem; a detached
  reconnect may push to a pool that is gone;
- `Connect` after the last `Finish` on a loop finds the entry of a context that
  is destroyed; messages that wait when a connection is lost are not asked for
  again after the reconnect;
- the block index of an implicit producer holds 32 blocks of 32 values and does not grow
  in `try_enqueue`, so that a single producer of an MPMC queue is full at 1024
  values although the queue was asked for 4096;
- `~SpscQueue` walks its slots without the remainder.

## 6. Not modelled

- *WaitGroup, SpscByteQueue, csv, shell runner*: used by tests only, or by
  nobody; how many waiters or writers there are, and who destroys the object,
  would be invented. *Spinlock*: an exchange on one flag, with one user.
  *Intrusive list*: no user, and it needs macros the repository does not define.
- *Prometheus metrics*, except that a second family of a name aborts: values and
  text are data; the races of `Collect` with `Observe` have no property the code
  would keep.
- *HTTP requests, gateway, Telegram, instrument, thread and configuration
  loading*: calls of a library in a row, or loading by one thread before
  anything runs.
- *The vendored queues' other half*: explicit producers, bulk operations,
  allocation after the constructor, the blocking queue, the hash table from
  threads to producers, the heuristic that scores producers. Nothing in
  `src/postboy` uses them, or they are fixed before the first call. The vendored
  headers are more than a third of the implementation's lines, most of them of
  this kind; the map names only lines that a definition translates, and covers a
  small share of them.
- *The MPMC queue in the pipeline* is an abstraction: `ConcurrentQueue` is not shown to
  refine it. A take removes the oldest of some producer at once, and fails only
  when the queue is empty (`FindEmpty`), while `try_dequeue` may also tell one of several
  consumers so because another has counted itself in vain. No safety property of
  the pipeline turns on that; `EndOfStreamPropagates` supposes that it does not go on for ever.
  For the SPSC queue the abstraction is what `FifoSpec` of `ReaderWriterQueue` says.
- *Second workers*: a postboy that two requests start (`contested`) has two threads in
  the code; what the second does beside the first is not followed. Callbacks
  during `lws_context_destroy` are not shown either.
- *Other processors* behave for the graph as a source, a Dummy or a sink.
- *compass, sure, memory, system, util, web page, benchmarks, build*: sequential
  helpers, register contents and system calls; no state the postboys depend on.

The notes of `PROJECT.json` say for each component what is left out.

## 7. Plan

Done: the postboy, the ring buffer, the pipeline, the notifiers, the runtime
with the API, the connection pool, the websocket client, the queues of the
library, contexts; and a proof of every invariant and action property. Next, in
this order:

1. A check that bindings form a graph that keeps the order of items, if the
   program gets one: then the premise of `OrderOnEveryRoute` becomes an invariant.
2. `CountsAreLinks` and `BindingsAreComplete` without their premise, if the runtime gets a lock.
3. The metrics' registry, once it is said what a concurrent `Collect` may see.
