--------------------------- MODULE MessageNotifier ---------------------------
(***************************************************************************)
(* postboy::notifier::MessageNotifier: any thread sends messages, one      *)
(* reader (ProcessTelegramNotifier) collects them.  Each thread that sends *)
(* has a notifier of its own: a ring of strings it writes its messages     *)
(* into, and a queue of pointers into that ring.  The queue is an          *)
(* SpscQueue; here it is the bounded FIFO that SpscQueue implements.       *)
(*                                                                         *)
(* The mutex protects the list of notifiers, not the rings.  The reader    *)
(* holds it for a whole Handle; registering and unregistering a notifier   *)
(* are one step each, taken while the mutex is free.                       *)
(***************************************************************************)
EXTENDS Integers, SequencesExt

CONSTANTS
  Threads,     \* the threads that send
  QueueSize,   \* kSpscQueueSize
  StorageSize, \* kMessageStorageSize
  BufferSize,  \* kResultBufferSize
  MaxSent      \* bound of the model: the messages each thread sends

ASSUME NotifierAssumption ==
  /\ QueueSize \in Nat \ {0}
  /\ StorageSize \in Nat
  /\ StorageSize > QueueSize + 2
  /\ BufferSize \in Nat \ {0}
  /\ MaxSent \in Nat

VARIABLES
  notifiers,  \* allNotifiers
  sender,     \* where each thread is
  storage,    \* messageStorage_ of each notifier
  storageIdx, \* messageStorageIdx_
  queue,      \* spscQueue_: pointers into the storage
  reader,     \* where the reader is
  at,         \* the notifier it has come to
  held,       \* the pointer it has popped, and whose it is
  buffer,     \* resultBuffer from where the reader is to its end
  sent,       \* history: messages each thread has written
  popped,     \* history: pointers the reader has popped
  delivered   \* history: messages the reader has passed on

threadVars == <<sender, storage, storageIdx, sent>>
readerVars == <<reader, at, held, buffer, popped, delivered>>
vars == <<notifiers, queue, threadVars, readerVars>>

Slots == 0 .. StorageSize - 1

\* A message is named by its thread and its number.  -1 is the empty string of
\* a slot not yet written.
Init ==
  /\ notifiers = <<>>
  /\ sender = [t \in Threads |-> "absent"]
  /\ storage = [t \in Threads |-> [s \in Slots |-> -1]]
  /\ storageIdx = [t \in Threads |-> 0]
  /\ queue = [t \in Threads |-> <<>>]
  /\ reader = "idle" /\ at = 1 /\ buffer = <<>>
  /\ held \in [of : Threads, slot : {0}]
  /\ sent = [t \in Threads |-> 0]
  /\ popped = [t \in Threads |-> 0]
  /\ delivered = [t \in Threads |-> 0]

Locked == reader \in {"pop", "copy"}

-----------------------------------------------------------------------------
(* The threads that send.                                                  *)

\* The first Send of a thread constructs its notifier.
Register(t) ==
  /\ sender[t] = "absent"
  /\ ~Locked
  /\ notifiers' = Append(notifiers, t)
  /\ sender' = [sender EXCEPT ![t] = "idle"]
  /\ UNCHANGED <<storage, storageIdx, queue, sent, readerVars>>

\* SendImpl writes the message before it waits for room in the queue.
Store(t) ==
  /\ sender[t] = "idle"
  /\ sent[t] < MaxSent
  /\ storage' = [storage EXCEPT ![t][storageIdx[t]] = sent[t]]
  /\ sent' = [sent EXCEPT ![t] = @ + 1]
  /\ sender' = [sender EXCEPT ![t] = "push"]
  /\ UNCHANGED <<notifiers, storageIdx, queue, readerVars>>

\* Mutant of Advance: the ring is two slots shorter.
AdvanceEarly(i) == (i + 1) % (StorageSize - 2)

\* Mutant of Advance: the ring does not wrap.
AdvanceForever(i) == i + 1

Advance(i) == (i + 1) % (StorageSize - 1)

Push(t) ==
  /\ sender[t] = "push"
  /\ Len(queue[t]) < QueueSize
  /\ queue' = [queue EXCEPT ![t] = Append(@, storageIdx[t])]
  /\ storageIdx' = [storageIdx EXCEPT ![t] = Advance(@)]
  /\ sender' = [sender EXCEPT ![t] = "idle"]
  /\ UNCHANGED <<notifiers, storage, sent, readerVars>>

\* Mutant of Unregister: the destructor does not take the mutex.
UnregisterUnlocked(t) ==
  /\ sender[t] = "idle"
  /\ \E i \in 1 .. Len(notifiers) :
       notifiers[i] = t /\ notifiers' = RemoveAt(notifiers, i)
  /\ sender' = [sender EXCEPT ![t] = "gone"]
  /\ UNCHANGED <<storage, storageIdx, queue, sent, readerVars>>

\* The thread ends: its notifier is destroyed, with the messages nobody has read.
Unregister(t) ==
  /\ sender[t] = "idle"
  /\ ~Locked
  /\ \E i \in 1 .. Len(notifiers) :
       notifiers[i] = t /\ notifiers' = RemoveAt(notifiers, i)
  /\ sender' = [sender EXCEPT ![t] = "gone"]
  /\ UNCHANGED <<storage, storageIdx, queue, sent, readerVars>>

-----------------------------------------------------------------------------
(* Handle, and the loop around it.                                         *)

BeginHandle ==
  /\ reader = "idle"
  /\ reader' = "pop"
  /\ at' = 1
  /\ UNCHANGED <<notifiers, queue, threadVars, held, buffer, popped, delivered>>

\* TryPop finds a pointer.
Pop ==
  /\ reader = "pop" /\ at <= Len(notifiers)
  /\ LET t == notifiers[at]
     IN  /\ queue[t] # <<>>
         /\ held' = [of |-> t, slot |-> Head(queue[t])]
         /\ queue' = [queue EXCEPT ![t] = Tail(@)]
         /\ popped' = [popped EXCEPT ![t] = @ + 1]
  /\ reader' = "copy"
  /\ UNCHANGED <<notifiers, threadVars, at, buffer, delivered>>

\* Mutant of Skip: an empty queue ends Handle.
SkipAll ==
  /\ reader = "pop" /\ at <= Len(notifiers)
  /\ queue[notifiers[at]] = <<>>
  /\ reader' = "send"
  /\ UNCHANGED <<notifiers, queue, threadVars, at, held, buffer, popped, delivered>>

\* TryPop finds nothing.
Skip ==
  /\ reader = "pop" /\ at <= Len(notifiers)
  /\ queue[notifiers[at]] = <<>>
  /\ at' = at + 1
  /\ UNCHANGED <<notifiers, queue, threadVars, reader, held, buffer, popped, delivered>>

EndHandle ==
  /\ reader = "pop" /\ at > Len(notifiers)
  /\ reader' = "send"
  /\ UNCHANGED <<notifiers, queue, threadVars, at, held, buffer, popped, delivered>>

\* Mutant of Copy: the buffer is found full after a pointer was popped for it.
CopyIfRoom ==
  /\ reader = "copy"
  /\ IF Len(buffer) + 1 = BufferSize
       THEN reader' = "send" /\ UNCHANGED buffer
       ELSE /\ reader' = "pop"
            /\ buffer' = Append(buffer, [of |-> held.of, n |-> storage[held.of][held.slot]])
  /\ UNCHANGED <<notifiers, queue, threadVars, at, held, popped, delivered>>

\* The string is copied.  A full buffer ends Handle.
Copy ==
  /\ reader = "copy"
  /\ buffer' = Append(buffer, [of |-> held.of, n |-> storage[held.of][held.slot]])
  /\ reader' = IF Len(buffer') = BufferSize THEN "send" ELSE "pop"
  /\ UNCHANGED <<notifiers, queue, threadVars, at, held, popped, delivered>>

\* The reader goes through what Handle returned, the mutex released.
SendMessage ==
  /\ reader = "send" /\ buffer # <<>>
  /\ buffer' = Tail(buffer)
  /\ delivered' = [delivered EXCEPT ![Head(buffer).of] = @ + 1]
  /\ UNCHANGED <<notifiers, queue, threadVars, reader, at, held, popped>>

Sleep ==
  /\ reader = "send" /\ buffer = <<>>
  /\ reader' = "idle"
  /\ UNCHANGED <<notifiers, queue, threadVars, at, held, buffer, popped, delivered>>

ReaderStep ==
  BeginHandle \/ Pop \/ Skip \/ EndHandle \/ Copy \/ SendMessage \/ Sleep

-----------------------------------------------------------------------------
Next ==
  \/ ReaderStep
  \/ \E t \in Threads : Register(t) \/ Store(t) \/ Push(t) \/ Unregister(t)

\* The reader's loop never ends, and a thread inside Send goes on.
Fairness == WF_vars(ReaderStep) /\ \A t \in Threads : WF_vars(Push(t))

Spec == Init /\ [][Next]_vars
FairSpec == Spec /\ Fairness

-----------------------------------------------------------------------------
TypeOK ==
  /\ notifiers \in Seq(Threads)
  /\ sender \in [Threads -> {"absent", "idle", "push", "gone"}]
  /\ storage \in [Threads -> [Slots -> Int]]
  /\ storageIdx \in [Threads -> Slots]
  /\ queue \in [Threads -> Seq(Slots)]
  /\ reader \in {"idle", "pop", "copy", "send"}
  /\ at \in Nat \ {0}
  /\ held \in [of : Threads, slot : Slots]
  /\ buffer \in Seq([of : Threads, n : Int])
  /\ sent \in [Threads -> Nat]
  /\ popped \in [Threads -> Nat]
  /\ delivered \in [Threads -> Nat]

\* A thread does not write into the string the reader copies from, though its
\* pointer has left the queue and the thread goes on sending: the reader copies
\* the message whose pointer it has popped.
CopyIsIntact ==
  reader = "copy" => storage[held.of][held.slot] = popped[held.of] - 1

\* The reader uses a notifier only while its thread exists.
OnlyTheLivingAreRead ==
  reader = "copy" => sender[held.of] \in {"idle", "push"}

\* The messages of a thread are passed on in the order they were sent, each
\* once and none left out, whatever a full result buffer cuts a Handle short
\* at.
DeliveredInOrder ==
  [][\A t \in Threads :
       delivered'[t] # delivered[t] => Head(buffer) = [of |-> t, n |-> delivered[t]]]_delivered

\* Every message of a thread that does not end is passed on, also when the
\* queue or the result buffer was full.  (Handle begins with the first notifier
\* every time: that the other threads stop sending some day is part of this.)
MessagesArrive ==
  \A t \in Threads : \A n \in 0 .. MaxSent - 1 :
    sent[t] > n ~> delivered[t] > n \/ sender[t] = "gone"
=============================================================================
