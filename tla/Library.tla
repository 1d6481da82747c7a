------------------------------- MODULE Library -------------------------------
(* The containers of src/common and the contexts of src/carry.  They share   *)
(* nothing, so one of them plays and the others stay as they began.          *)
EXTENDS ConcurrentQueue

CONSTANTS
  Slots, Ring, MaxValues,  \* of the reader-writer queue: slots of a block, blocks, values
  Nodes,
  Tasks, Keys, Values, Storages, EmptyStorage, MaxDepth,
  Nobody  \* nullptr of the nodes and of the storages

VARIABLES
  playing,  \* the module whose variables may change
  front, tail, localFront, localTail, data, frontBlock, tailBlock,
  ppc, cpc, enqueued, dequeued, got, dequeuedThen, enqueuedThen,
  head, next, idle, putting, node, seen, taking, popped, acq, res,
  live, count, wrapped, entry, stack, doing

rwVars == <<front, tail, localFront, localTail, data, frontBlock, tailBlock,
            ppc, cpc, enqueued, dequeued, got, dequeuedThen, enqueuedThen>>
mqVars == <<head, next, idle, putting, node, seen, taking, popped, acq, res>>
caVars == <<live, count, wrapped, entry, stack, doing>>
libraryVars == <<playing, cvars, rwVars, mqVars, caVars>>

RW == INSTANCE ReaderWriterQueue WITH BlockSize <- Slots, Blocks <- Ring, MaxPushes <- MaxValues

MQ == INSTANCE MpscQueue WITH None <- Nobody, ppc <- putting, cpc <- taking

CA == INSTANCE Carry WITH
  None <- Nobody, Empty <- EmptyStorage, refs <- count

ASSUME LibraryAssumption == RW!RwAssumption /\ MQ!MpscAssumption /\ CA!CarryAssumption

LibraryInit ==
  /\ playing \in {"ConcurrentQueue", "ReaderWriterQueue", "MpscQueue", "Carry"}
  /\ Init /\ RW!Init /\ MQ!Init /\ CA!Init
  /\ cast = {} <=> playing # "ConcurrentQueue"

Others(variables) == UNCHANGED <<playing, variables>>

ConcurrentQueueStep(t) ==
  /\ playing = "ConcurrentQueue"
  /\ \/ AddToFreeList(t)
     \/ t \in Producers /\ (TryGet(t) \/ TryEnqueue(t))
     \/ t \in Consumers /\ \E p \in Producers : TryDequeue(t, p)
  /\ Others(<<rwVars, mqVars, caVars>>)

ReaderWriterQueueStep ==
  /\ playing = "ReaderWriterQueue"
  /\ RW!Next
  /\ Others(<<cvars, mqVars, caVars>>)

MpscQueueStep ==
  /\ playing = "MpscQueue"
  /\ MQ!Next
  /\ Others(<<cvars, rwVars, caVars>>)

CarryStep ==
  /\ playing = "Carry"
  /\ CA!Next
  /\ Others(<<cvars, rwVars, mqVars>>)

LibraryNext ==
  \/ \E t \in Threads : ConcurrentQueueStep(t)
  \/ ReaderWriterQueueStep \/ MpscQueueStep \/ CarryStep

LibrarySpec == LibraryInit /\ [][LibraryNext]_libraryVars

-----------------------------------------------------------------------------
(* The properties of the other modules, each while its module plays.         *)

FailsOnlyWhenDue == playing = "ReaderWriterQueue" => RW!FailsOnlyWhenDue
CountsAreReferences == playing = "Carry" => CA!CountsAreReferences

\* FSpec of BoundedFifo, SSpec of ScopedContexts.
FifoSpec == RW!Fifo!FInit /\ [][playing = "ReaderWriterQueue" => RW!Fifo!FStep]_rwVars
MpscFifoSpec == MQ!MpscFifo!FInit /\ [][playing = "MpscQueue" => MQ!MpscFifo!FStep]_mqVars
ContextSpec == CA!Contexts!SInit /\ [][playing = "Carry" => CA!Contexts!SStep]_caVars
=============================================================================
