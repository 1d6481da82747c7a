----------------------- MODULE MessageNotifierProofs -----------------------
(***************************************************************************)
(* The safety of module MessageNotifier for any number of threads and any  *)
(* sizes such that the storage holds two messages more than the queue, and *)
(* one slot is never used.  The argument: pointers are handed out in the   *)
(* order of the messages, so the messages not yet copied are consecutive;  *)
(* there are at most QueueSize + 2 of them (one that the reader copies,    *)
(* those in the queue, one that waits to enter it), and so many            *)
(* consecutive messages have different slots.                              *)
(***************************************************************************)
EXTENDS MessageNotifier, SequenceTheorems, TLAPS

\* The slots SendImpl uses, in turn.
RingSize == StorageSize - 1
Slot(n) == n % RingSize

Copying(t) == reader = "copy" /\ held.of = t

\* The oldest message of t that is still needed.
Oldest(t) == IF Copying(t) THEN popped[t] - 1 ELSE popped[t]

\* Every message is popped, in the queue, or about to enter it.
CountInv ==
  \A t \in Threads :
    /\ sent[t] = popped[t] + Len(queue[t]) + (IF sender[t] = "push" THEN 1 ELSE 0)
    /\ Len(queue[t]) <= QueueSize
    /\ Copying(t) => popped[t] > 0

\* Each pointer is that of its message.
PointerInv ==
  \A t \in Threads :
    /\ storageIdx[t] = Slot(popped[t] + Len(queue[t]))
    /\ \A i \in 1 .. Len(queue[t]) : queue[t][i] = Slot(popped[t] + i - 1)
    /\ Copying(t) => held.slot = Slot(popped[t] - 1)

\* The messages still needed are in the storage.
StorageInv ==
  \A t \in Threads : \A n \in Oldest(t) .. sent[t] - 1 : storage[t][Slot(n)] = n

\* The listed threads exist, each is listed once, and the reader copies from
\* one of them.
ListInv ==
  /\ \A i, j \in 1 .. Len(notifiers) : notifiers[i] = notifiers[j] => i = j
  /\ \A i \in 1 .. Len(notifiers) : sender[notifiers[i]] \in {"idle", "push"}
  /\ reader = "copy" => at <= Len(notifiers) /\ held.of = notifiers[at]

IInv == TypeOK /\ CountInv /\ PointerInv /\ StorageInv /\ ListInv

-----------------------------------------------------------------------------
LEMMA RingFact ==
  RingSize \in Nat /\ QueueSize \in Nat /\ RingSize >= QueueSize + 2 /\ RingSize > 2
  BY NotifierAssumption DEF RingSize

LEMMA SlotType ==
  ASSUME NEW n \in Nat
  PROVE  Slot(n) \in 0 .. RingSize - 1 /\ Slot(n) \in Slots
  BY NotifierAssumption DEF Slot, RingSize, Slots

\* A number has one remainder.
LEMMA RemainderUnique ==
  ASSUME NEW q1 \in Int, NEW q2 \in Int,
         NEW r1 \in 0 .. RingSize - 1, NEW r2 \in 0 .. RingSize - 1,
         RingSize * q1 + r1 = RingSize * q2 + r2
  PROVE  r1 = r2
  <1>1. PICK d \in Int : d = q1 - q2 /\ RingSize * d = r2 - r1
    <2>1. RingSize * (q1 - q2) = r2 - r1
      BY RingFact
    <2> QED BY <2>1
  <1>2. CASE d >= 1
    <2>1. RingSize * d >= RingSize
      BY <1>2, RingFact
    <2> QED BY <2>1, <1>1, RingFact
  <1>3. CASE d <= -1
    <2>1. RingSize * d <= -RingSize
      BY <1>3, RingFact
    <2> QED BY <2>1, <1>1, RingFact
  <1>4. CASE d = 0
    BY <1>1, <1>4, RingFact
  <1> QED BY <1>1, <1>2, <1>3, <1>4

LEMMA SlotIsRemainder ==
  ASSUME NEW n \in Nat
  PROVE  \E q \in Int : n = RingSize * q + Slot(n)
  <1>1. n = RingSize * (n \div RingSize) + Slot(n) /\ n \div RingSize \in Int
    BY RingFact DEF Slot
  <1> QED BY <1>1

LEMMA SlotNext == ASSUME NEW n \in Nat PROVE Advance(Slot(n)) = Slot(n + 1)
  <1>1. PICK q \in Int : n = RingSize * q + Slot(n)
    BY SlotIsRemainder
  <1>2. PICK p \in Int : n + 1 = RingSize * p + Slot(n + 1)
    BY SlotIsRemainder
  <1>3. Slot(n) \in 0 .. RingSize - 1 /\ Slot(n + 1) \in 0 .. RingSize - 1
    BY SlotType
  <1>4. CASE Slot(n) < RingSize - 1
    <2>1. Advance(Slot(n)) = Slot(n) + 1
      BY <1>3, <1>4, RingFact DEF Advance, RingSize
    <2>2. RingSize * q + (Slot(n) + 1) = RingSize * p + Slot(n + 1)
      BY <1>1, <1>2, <1>3, RingFact
    <2>3. Slot(n) + 1 \in 0 .. RingSize - 1
      BY <1>3, <1>4, RingFact
    <2> QED BY <2>1, <2>2, <2>3, <1>3, RemainderUnique
  <1>5. CASE Slot(n) = RingSize - 1
    <2>1. Advance(Slot(n)) = 0
      BY <1>5, RingFact DEF Advance, RingSize
    <2>2. RingSize * (q + 1) + 0 = RingSize * p + Slot(n + 1)
      BY <1>1, <1>2, <1>3, <1>5, RingFact
    <2>3. 0 \in 0 .. RingSize - 1 /\ q + 1 \in Int
      BY RingFact
    <2> QED BY <2>1, <2>2, <2>3, <1>3, RemainderUnique
  <1> QED BY <1>3, <1>4, <1>5, RingFact

\* Messages less than RingSize apart have different slots.
LEMMA SlotDiffers ==
  ASSUME NEW i \in Nat, NEW j \in Nat, i < j, j < i + RingSize
  PROVE  Slot(i) # Slot(j)
  <1> SUFFICES ASSUME Slot(i) = Slot(j) PROVE FALSE
    OBVIOUS
  <1>1. PICK q \in Int : i = RingSize * q + Slot(i)
    BY SlotIsRemainder
  <1>2. PICK p \in Int : j = RingSize * p + Slot(i)
    BY SlotIsRemainder
  <1>3. PICK k \in 1 .. RingSize - 1 : j = i + k
    BY RingFact
  <1>4. RingSize * q + k = RingSize * p + 0
    BY <1>1, <1>2, <1>3, SlotType, RingFact
  <1>5. k \in 0 .. RingSize - 1 /\ 0 \in 0 .. RingSize - 1
    BY RingFact
  <1>6. k = 0
    BY <1>4, <1>5, RemainderUnique
  <1> QED BY <1>6

-----------------------------------------------------------------------------
LEMMA InitInv == Init => IInv
  <1> SUFFICES ASSUME Init PROVE IInv
    OBVIOUS
  <1>1. TypeOK
    BY NotifierAssumption DEF Init, TypeOK, Slots
  <1>2. CountInv
    BY NotifierAssumption DEF Init, CountInv, Copying
  <1>3. PointerInv
    <2>1. Slot(0) = 0
      BY RingFact DEF Slot
    <2> QED BY <2>1 DEF Init, PointerInv, Copying
  <1>4. StorageInv
    BY DEF Init, StorageInv, Oldest, Copying
  <1>5. ListInv
    BY DEF Init, ListInv
  <1> QED BY <1>1, <1>2, <1>3, <1>4, <1>5 DEF IInv

-----------------------------------------------------------------------------
\* What is left of a sequence without its i-th element.
LEMMA RemoveFact ==
  ASSUME NEW s \in Seq(Threads), NEW i \in 1 .. Len(s)
  PROVE  /\ RemoveAt(s, i) \in Seq(Threads)
         /\ Len(RemoveAt(s, i)) = Len(s) - 1
         /\ \A j \in 1 .. Len(s) - 1 : RemoveAt(s, i)[j] = IF j < i THEN s[j] ELSE s[j + 1]
  <1> DEFINE a == SubSeq(s, 1, i - 1)
             b == SubSeq(s, i + 1, Len(s))
  <1>0. Len(s) \in Nat /\ i \in Nat /\ i >= 1 /\ i <= Len(s)
    OBVIOUS
  <1>1. /\ a \in Seq(Threads) /\ Len(a) = i - 1
        /\ \A j \in 1 .. i - 1 : a[j] = s[j]
    <2>1. \A j \in 1 .. i - 1 : s[j] \in Threads
      BY <1>0
    <2>2. /\ a \in Seq(Threads) /\ Len(a) = IF 1 <= i - 1 THEN i - 1 - 1 + 1 ELSE 0
          /\ \A j \in 1 .. i - 1 - 1 + 1 : a[j] = s[1 + j - 1]
      BY <1>0, <2>1, SubSeqProperties
    <2> QED BY <1>0, <2>2
  <1>2. /\ b \in Seq(Threads) /\ Len(b) = Len(s) - i
        /\ \A j \in 1 .. Len(s) - i : b[j] = s[i + j]
    <2>1. \A j \in i + 1 .. Len(s) : s[j] \in Threads
      BY <1>0
    <2>2. /\ b \in Seq(Threads)
          /\ Len(b) = IF i + 1 <= Len(s) THEN Len(s) - (i + 1) + 1 ELSE 0
          /\ \A j \in 1 .. Len(s) - (i + 1) + 1 : b[j] = s[i + 1 + j - 1]
      BY <1>0, <2>1, SubSeqProperties
    <2> QED BY <1>0, <2>2
  <1> HIDE DEF a, b
  <1>3. /\ a \o b \in Seq(Threads)
        /\ Len(a \o b) = Len(a) + Len(b)
        /\ \A j \in 1 .. Len(a) + Len(b) :
             (a \o b)[j] = IF j <= Len(a) THEN a[j] ELSE b[j - Len(a)]
    BY <1>1, <1>2, ConcatProperties
  <1>4. \A j \in 1 .. Len(s) - 1 : (a \o b)[j] = IF j < i THEN s[j] ELSE s[j + 1]
    <2> TAKE j \in 1 .. Len(s) - 1
    <2>1. CASE j < i
      BY <2>1, <1>0, <1>1, <1>2, <1>3
    <2>2. CASE ~(j < i)
      <3>1. j - Len(a) \in 1 .. Len(s) - i /\ ~(j <= Len(a)) /\ j - Len(a) = j - i + 1
        BY <2>2, <1>0, <1>1
      <3>2. (a \o b)[j] = b[j - i + 1]
        BY <3>1, <1>0, <1>1, <1>2, <1>3
      <3>3. b[j - i + 1] = s[i + (j - i + 1)]
        BY <3>1, <1>2
      <3> QED BY <2>2, <3>2, <3>3, <1>0
    <2> QED BY <2>1, <2>2
  <1>5. RemoveAt(s, i) = a \o b
    BY DEF RemoveAt, a, b
  <1>6. Len(a \o b) = Len(s) - 1
    BY <1>0, <1>1, <1>2, <1>3
  <1> QED BY <1>3, <1>4, <1>5, <1>6, Zenon

\* A step that leaves the storage and the queues alone and begins no copy.
LEMMA QuietKeepsInv ==
  ASSUME IInv, UNCHANGED <<queue, storage, storageIdx, sent, popped, held>>,
         reader' # "copy",
         TypeOK', \A t \in Threads : sender[t] = "push" <=> sender'[t] = "push",
         ListInv'
  PROVE  IInv'
  <1>1. CountInv'
    BY DEF IInv, CountInv, Copying
  <1>2. PointerInv'
    BY DEF IInv, PointerInv, Copying
  <1>3. StorageInv'
    BY DEF IInv, TypeOK, StorageInv, Oldest, Copying
  <1> QED BY <1>1, <1>2, <1>3 DEF IInv

LEMMA RegisterInv == ASSUME IInv, NEW t \in Threads, Register(t) PROVE IInv'
  <1> DEFINE N == Append(notifiers, t)
  <1>1. /\ notifiers \in Seq(Threads) /\ N \in Seq(Threads)
        /\ Len(N) = Len(notifiers) + 1
        /\ \A i \in 1 .. Len(notifiers) : N[i] = notifiers[i]
        /\ N[Len(notifiers) + 1] = t
    BY AppendProperties DEF IInv, TypeOK
  <1> HIDE DEF N
  <1>2. notifiers' = N
    BY DEF Register, N
  <1>3. TypeOK'
    <2>1. sender' \in [Threads -> {"absent", "idle", "push", "gone"}]
      BY DEF IInv, TypeOK, Register
    <2> QED BY <1>1, <1>2, <2>1 DEF IInv, TypeOK, Register, readerVars
  <1>4. \A u \in Threads : sender'[u] = IF u = t THEN "idle" ELSE sender[u]
    BY DEF IInv, TypeOK, Register
  <1>5. ListInv'
    <2>1. \A i \in 1 .. Len(notifiers) : notifiers[i] # t /\ notifiers[i] \in Threads
      BY <1>1 DEF IInv, ListInv, Register
    <2>2. \A i \in 1 .. Len(N) : sender'[N[i]] \in {"idle", "push"}
      BY <1>1, <1>4, <2>1 DEF IInv, ListInv
    <2>3. \A i, j \in 1 .. Len(N) : N[i] = N[j] => i = j
      BY <1>1, <2>1 DEF IInv, ListInv
    <2>4. reader' # "copy"
      BY DEF Register, readerVars, Locked
    <2> QED BY <1>2, <2>2, <2>3, <2>4 DEF ListInv
  <1>6. /\ UNCHANGED <<queue, storage, storageIdx, sent, popped, held>>
        /\ reader' # "copy"
    BY DEF Register, readerVars, Locked
  <1>7. \A u \in Threads : sender[u] = "push" <=> sender'[u] = "push"
    BY <1>4 DEF Register
  <1> QED BY <1>3, <1>5, <1>6, <1>7, QuietKeepsInv

LEMMA UnregisterInv == ASSUME IInv, NEW t \in Threads, Unregister(t) PROVE IInv'
  <1>1. PICK k \in 1 .. Len(notifiers) : notifiers[k] = t /\ notifiers' = RemoveAt(notifiers, k)
    BY DEF Unregister
  <1>2. /\ notifiers \in Seq(Threads) /\ notifiers' \in Seq(Threads)
        /\ Len(notifiers') = Len(notifiers) - 1
        /\ \A j \in 1 .. Len(notifiers) - 1 :
             notifiers'[j] = IF j < k THEN notifiers[j] ELSE notifiers[j + 1]
    BY <1>1, RemoveFact DEF IInv, TypeOK
  <1>3. TypeOK'
    <2>1. sender' \in [Threads -> {"absent", "idle", "push", "gone"}]
      BY DEF IInv, TypeOK, Unregister
    <2> QED BY <1>2, <2>1 DEF IInv, TypeOK, Unregister, readerVars
  <1>4. \A u \in Threads : sender'[u] = IF u = t THEN "gone" ELSE sender[u]
    BY DEF IInv, TypeOK, Unregister
  <1>5. ListInv'
    <2>1. \A i \in 1 .. Len(notifiers) : i # k => notifiers[i] # t /\ notifiers[i] \in Threads
      BY <1>1, <1>2 DEF IInv, ListInv
    <2>2. \A j \in 1 .. Len(notifiers') : \E i \in 1 .. Len(notifiers) :
             i # k /\ notifiers'[j] = notifiers[i] /\ i = IF j < k THEN j ELSE j + 1
      BY <1>2
    <2>3. \A i \in 1 .. Len(notifiers') : sender'[notifiers'[i]] \in {"idle", "push"}
      BY <1>4, <2>1, <2>2 DEF IInv, ListInv
    <2>4. \A i, j \in 1 .. Len(notifiers') : notifiers'[i] = notifiers'[j] => i = j
      BY <1>2, <2>2 DEF IInv, ListInv
    <2>5. reader' # "copy"
      BY DEF Unregister, readerVars, Locked
    <2> QED BY <2>3, <2>4, <2>5 DEF ListInv
  <1>6. /\ UNCHANGED <<queue, storage, storageIdx, sent, popped, held>>
        /\ reader' # "copy"
    BY DEF Unregister, readerVars, Locked
  <1>7. \A u \in Threads : sender[u] = "push" <=> sender'[u] = "push"
    BY <1>4 DEF Unregister
  <1> QED BY <1>3, <1>5, <1>6, <1>7, QuietKeepsInv

\* The other steps of the reader that copy nothing.
LEMMA ReaderQuietInv ==
  ASSUME IInv, BeginHandle \/ Skip \/ EndHandle \/ SendMessage \/ Sleep
  PROVE  IInv'
  <1>1. UNCHANGED <<notifiers, queue, threadVars, popped, held>>
    BY DEF BeginHandle, Skip, EndHandle, SendMessage, Sleep
  <1>2. reader' \in {"idle", "pop", "send"}
    BY DEF BeginHandle, Skip, EndHandle, SendMessage, Sleep
  <1>3. at' \in Nat \ {0}
    <2>1. at \in Nat \ {0}
      BY DEF IInv, TypeOK
    <2>2. at' \in {1, at, at + 1}
      BY DEF BeginHandle, Skip, EndHandle, SendMessage, Sleep
    <2> QED BY <2>1, <2>2
  <1>4. buffer' \in Seq([of : Threads, n : Int]) /\ delivered' \in [Threads -> Nat]
    <2>1. CASE SendMessage
      <3> DEFINE M == [of : Threads, n : Int]
      <3>1. buffer \in Seq(M) /\ buffer # <<>> /\ buffer' = Tail(buffer)
        BY <2>1 DEF IInv, TypeOK, SendMessage
      <3>2. Head(buffer) \in M /\ Tail(buffer) \in Seq(M)
        <4> HIDE DEF M
        <4> QED BY <3>1, HeadTailProperties
      <3>3. PICK t \in Threads : t = Head(buffer).of
        BY <3>2
      <3>4. delivered' = [delivered EXCEPT ![t] = @ + 1]
        BY <2>1, <3>3 DEF SendMessage
      <3>5. delivered' \in [Threads -> Nat]
        BY <3>4 DEF IInv, TypeOK
      <3> QED BY <3>1, <3>2, <3>5
    <2>2. CASE BeginHandle \/ Skip \/ EndHandle \/ Sleep
      BY <2>2 DEF IInv, TypeOK, BeginHandle, Skip, EndHandle, Sleep
    <2> QED BY <2>1, <2>2
  <1>5. TypeOK'
    BY <1>1, <1>2, <1>3, <1>4 DEF IInv, TypeOK, threadVars
  <1>6. ListInv'
    BY <1>1, <1>2 DEF IInv, ListInv, threadVars
  <1>7. \A t \in Threads : sender[t] = "push" <=> sender'[t] = "push"
    BY <1>1 DEF threadVars
  <1> QED BY <1>1, <1>2, <1>5, <1>6, <1>7, QuietKeepsInv DEF threadVars

\* What the invariant says of the counters of one thread.
LEMMA CountFact ==
  ASSUME IInv, NEW t \in Threads
  PROVE  /\ sent[t] \in Nat /\ popped[t] \in Nat /\ Len(queue[t]) \in Nat
         /\ Len(queue[t]) <= QueueSize
         /\ sent[t] = popped[t] + Len(queue[t]) + (IF sender[t] = "push" THEN 1 ELSE 0)
         /\ storageIdx[t] = Slot(popped[t] + Len(queue[t]))
         /\ storageIdx[t] \in Slots
         /\ queue[t] \in Seq(Slots)
         /\ Oldest(t) \in Nat /\ Oldest(t) >= popped[t] - 1 /\ Oldest(t) <= popped[t]
         /\ Copying(t) => popped[t] > 0
  <1>1. sent[t] \in Nat /\ popped[t] \in Nat /\ queue[t] \in Seq(Slots) /\ storageIdx[t] \in Slots
    BY DEF IInv, TypeOK
  <1>2. Len(queue[t]) \in Nat
    BY <1>1, LenProperties
  <1>3. /\ sent[t] = popped[t] + Len(queue[t]) + (IF sender[t] = "push" THEN 1 ELSE 0)
        /\ Len(queue[t]) <= QueueSize
        /\ Copying(t) => popped[t] > 0
    BY DEF IInv, CountInv
  <1>4. storageIdx[t] = Slot(popped[t] + Len(queue[t]))
    BY DEF IInv, PointerInv
  <1>5. Oldest(t) \in Nat /\ Oldest(t) >= popped[t] - 1 /\ Oldest(t) <= popped[t]
    <2>1. CASE Copying(t)
      BY <1>1, <1>3, <2>1 DEF Oldest
    <2>2. CASE ~Copying(t)
      BY <1>1, <2>2 DEF Oldest
    <2> QED BY <2>1, <2>2
  <1> QED BY <1>1, <1>2, <1>3, <1>4, <1>5

LEMMA StoreInv == ASSUME IInv, NEW t \in Threads, Store(t) PROVE IInv'
  <1>0. /\ sent[t] = popped[t] + Len(queue[t]) /\ Len(queue[t]) \in Nat
        /\ popped[t] \in Nat /\ storageIdx[t] = Slot(sent[t]) /\ storageIdx[t] \in Slots
        /\ sent[t] \in Nat /\ Len(queue[t]) <= QueueSize
    <2>1. sender[t] = "idle"
      BY DEF Store
    <2>2. sent[t] = popped[t] + Len(queue[t])
      BY <2>1, CountFact
    <2> QED BY <2>2, CountFact
  <1>1. TypeOK'
    <2>1. storage' \in [Threads -> [Slots -> Int]]
      <3>1. storage \in [Threads -> [Slots -> Int]]
        BY DEF IInv, TypeOK
      <3>2. storage' = [storage EXCEPT ![t] = [storage[t] EXCEPT ![storageIdx[t]] = sent[t]]]
        BY DEF Store
      <3>3. [storage[t] EXCEPT ![storageIdx[t]] = sent[t]] \in [Slots -> Int]
        BY <1>0, <3>1
      <3> QED BY <3>1, <3>2, <3>3
    <2>2. sent' \in [Threads -> Nat]
      BY DEF IInv, TypeOK, Store
    <2>3. sender' \in [Threads -> {"absent", "idle", "push", "gone"}]
      BY DEF IInv, TypeOK, Store
    <2> QED BY <2>1, <2>2, <2>3 DEF IInv, TypeOK, Store, readerVars
  <1>2. \A u \in Threads :
          /\ sender'[u] = IF u = t THEN "push" ELSE sender[u]
          /\ sent'[u] = IF u = t THEN sent[t] + 1 ELSE sent[u]
    BY DEF IInv, TypeOK, Store
  <1>3. UNCHANGED <<notifiers, storageIdx, queue, reader, at, held, popped>>
    BY DEF Store, readerVars
  <1>4. CountInv'
    <2> SUFFICES ASSUME NEW u \in Threads
                 PROVE  /\ sent'[u] = popped[u] + Len(queue[u])
                                        + (IF sender'[u] = "push" THEN 1 ELSE 0)
                        /\ Len(queue[u]) <= QueueSize
                        /\ Copying(u) => popped[u] > 0
      BY <1>3 DEF CountInv, Copying
    <2>1. CASE u = t
      BY <2>1, <1>0, <1>2, CountFact
    <2>2. CASE u # t
      BY <2>2, <1>2, CountFact
    <2> QED BY <2>1, <2>2
  <1>5. PointerInv'
    BY <1>3 DEF IInv, PointerInv, Copying
  <1>6. StorageInv'
    <2> SUFFICES ASSUME NEW u \in Threads, NEW n \in Oldest(u)' .. sent'[u] - 1
                 PROVE  storage'[u][Slot(n)] = n
      BY DEF StorageInv
    <2>1. Oldest(u)' = Oldest(u)
      BY <1>3 DEF Oldest, Copying
    <2>2. Oldest(u) \in Nat /\ sent[u] \in Nat /\ n >= Oldest(u)
      BY <2>1, CountFact
    <2>3. CASE u # t
      <3>1. storage'[u] = storage[u] /\ sent'[u] = sent[u]
        BY <2>3, <1>2 DEF IInv, TypeOK, Store
      <3>2. n \in Oldest(u) .. sent[u] - 1
        BY <3>1, <2>1
      <3> QED BY <3>1, <3>2 DEF IInv, StorageInv
    <2>4. CASE u = t
      <3>1. \A s \in Slots : storage'[t][s] = IF s = Slot(sent[t]) THEN sent[t] ELSE storage[t][s]
        BY <1>0 DEF IInv, TypeOK, Store
      <3>2. n \in Nat /\ n <= sent[t] /\ sent[t] < n + RingSize
        <4>1. Oldest(t) >= popped[t] - 1
          BY CountFact
        <4>2. n \in Int /\ n <= sent[t]
          BY <2>1, <2>2, <2>4, <1>0, <1>2
        <4> QED BY <2>2, <2>4, <1>0, <4>1, <4>2, RingFact
      <3>3. CASE n = sent[t]
        BY <3>1, <3>3, <2>4, SlotType, <3>2
      <3>4. CASE n < sent[t]
        <4>1. Slot(n) # Slot(sent[t])
          BY <3>2, <3>4, <1>0, SlotDiffers
        <4>2. storage[t][Slot(n)] = n
          <5>1. n \in Oldest(t) .. sent[t] - 1
            BY <3>2, <3>4, <2>2, <2>4
          <5> QED BY <5>1 DEF IInv, StorageInv
        <4> QED BY <4>1, <4>2, <3>1, <3>2, <2>4, SlotType
      <3> QED BY <3>2, <3>3, <3>4, <1>0
    <2> QED BY <2>3, <2>4
  <1>7. ListInv'
    <2>1. \A i \in 1 .. Len(notifiers) : notifiers[i] \in Threads
      BY DEF IInv, TypeOK
    <2>2. \A i \in 1 .. Len(notifiers) : sender'[notifiers[i]] \in {"idle", "push"}
      BY <1>2, <2>1 DEF IInv, ListInv
    <2> QED BY <1>3, <2>2 DEF IInv, ListInv
  <1> QED BY <1>1, <1>4, <1>5, <1>6, <1>7 DEF IInv

LEMMA PushInv == ASSUME IInv, NEW t \in Threads, Push(t) PROVE IInv'
  <1> DEFINE Q == Append(queue[t], storageIdx[t])
  <1>1. /\ queue[t] \in Seq(Slots) /\ storageIdx[t] \in Slots /\ Len(queue[t]) < QueueSize
        /\ sender[t] = "push"
    BY CountFact DEF Push
  <1>2. /\ Q \in Seq(Slots) /\ Len(Q) = Len(queue[t]) + 1
        /\ \A i \in 1 .. Len(queue[t]) : Q[i] = queue[t][i]
        /\ Q[Len(queue[t]) + 1] = storageIdx[t]
    BY <1>1, AppendProperties
  <1> HIDE DEF Q
  <1>3. queue' = [queue EXCEPT ![t] = Q]
    BY DEF Push, Q
  <1>4. \A u \in Threads :
          /\ queue'[u] = IF u = t THEN Q ELSE queue[u]
          /\ sender'[u] = IF u = t THEN "idle" ELSE sender[u]
          /\ storageIdx'[u] = IF u = t THEN Advance(storageIdx[t]) ELSE storageIdx[u]
    BY <1>3 DEF IInv, TypeOK, Push
  <1>5. UNCHANGED <<notifiers, storage, sent, reader, at, held, popped>>
    BY DEF Push, readerVars
  <1>6. storageIdx[t] = Slot(popped[t] + Len(queue[t])) /\ popped[t] + Len(queue[t]) \in Nat
    BY CountFact
  <1>7. /\ popped[t] \in Nat /\ Len(queue[t]) \in Nat /\ Len(Q) \in Nat
        /\ sent[t] = popped[t] + Len(Q)
        /\ Advance(storageIdx[t]) = Slot(popped[t] + Len(Q))
    <2>1. popped[t] \in Nat /\ Len(queue[t]) \in Nat /\ sent[t] = popped[t] + Len(queue[t]) + 1
      BY <1>1, CountFact
    <2>2. popped[t] + Len(Q) = (popped[t] + Len(queue[t])) + 1 /\ Len(Q) \in Nat
      <3>1. Len(Q) = Len(queue[t]) + 1
        BY <1>2
      <3> QED BY <2>1, <3>1
    <2>3. Advance(Slot(popped[t] + Len(queue[t]))) = Slot((popped[t] + Len(queue[t])) + 1)
      BY <1>6, SlotNext
    <2> QED BY <2>1, <2>2, <2>3, <1>6
  <1>8. TypeOK'
    <2>1. queue' \in [Threads -> Seq(Slots)]
      BY <1>2, <1>3 DEF IInv, TypeOK
    <2>2. Advance(storageIdx[t]) \in Slots
      <3>1. popped[t] + Len(Q) \in Nat
        BY <1>7
      <3> QED BY <3>1, <1>7, SlotType
    <2>3. storageIdx' \in [Threads -> Slots]
      BY <2>2 DEF IInv, TypeOK, Push
    <2>4. sender' \in [Threads -> {"absent", "idle", "push", "gone"}]
      BY DEF IInv, TypeOK, Push
    <2> QED BY <2>1, <2>3, <2>4 DEF IInv, TypeOK, Push, readerVars
  <1>9. CountInv'
    <2> SUFFICES ASSUME NEW u \in Threads
                 PROVE  /\ sent[u] = popped[u] + Len(queue'[u])
                                        + (IF sender'[u] = "push" THEN 1 ELSE 0)
                        /\ Len(queue'[u]) <= QueueSize
                        /\ Copying(u) => popped[u] > 0
      BY <1>5 DEF CountInv, Copying
    <2>1. CASE u = t
      <3>1. Len(queue'[u]) = Len(Q) /\ sender'[u] = "idle"
        BY <2>1, <1>4
      <3>2. sent[u] = popped[u] + Len(Q) + 0 /\ Len(Q) <= QueueSize
        BY <2>1, <1>1, <1>2, <1>7, RingFact
      <3>3. Copying(u) => popped[u] > 0
        BY CountFact
      <3> QED BY <3>1, <3>2, <3>3
    <2>2. CASE u # t
      BY <2>2, <1>4, CountFact
    <2> QED BY <2>1, <2>2
  <1>10. PointerInv'
    <2> SUFFICES ASSUME NEW u \in Threads
                 PROVE  /\ storageIdx'[u] = Slot(popped[u] + Len(queue'[u]))
                        /\ \A i \in 1 .. Len(queue'[u]) : queue'[u][i] = Slot(popped[u] + i - 1)
                        /\ Copying(u) => held.slot = Slot(popped[u] - 1)
      BY <1>5 DEF PointerInv, Copying
    <2>1. CASE u = t
      <3>1. ASSUME NEW i \in 1 .. Len(Q) PROVE Q[i] = Slot(popped[t] + i - 1)
        <4>1. CASE i = Len(queue[t]) + 1
          <5>1. popped[t] + i - 1 = popped[t] + Len(queue[t])
            BY <4>1, CountFact
          <5> QED BY <4>1, <5>1, <1>2, <1>6
        <4>2. CASE i # Len(queue[t]) + 1
          <5>1. i \in 1 .. Len(queue[t])
            BY <4>2, <1>2, CountFact
          <5> QED BY <5>1, <1>2 DEF IInv, PointerInv
        <4> QED BY <4>1, <4>2
      <3> QED BY <2>1, <3>1, <1>4, <1>7 DEF IInv, PointerInv
    <2>2. CASE u # t
      BY <2>2, <1>4 DEF IInv, PointerInv
    <2> QED BY <2>1, <2>2
  <1>11. StorageInv'
    BY <1>5 DEF IInv, StorageInv, Oldest, Copying
  <1>12. ListInv'
    <2>1. \A i \in 1 .. Len(notifiers) : notifiers[i] \in Threads
      BY DEF IInv, TypeOK
    <2>2. \A i \in 1 .. Len(notifiers) : sender'[notifiers[i]] \in {"idle", "push"}
      BY <1>4, <2>1 DEF IInv, ListInv
    <2> QED BY <1>5, <2>2 DEF IInv, ListInv
  <1> QED BY <1>8, <1>9, <1>10, <1>11, <1>12 DEF IInv

LEMMA PopInv == ASSUME IInv, Pop PROVE IInv'
  <1> DEFINE t == notifiers[at]
             Q == Tail(queue[t])
  <1>1. at \in 1 .. Len(notifiers) /\ t \in Threads
    BY DEF IInv, TypeOK, Pop
  <1>2. /\ reader = "pop" /\ reader' = "copy" /\ queue[t] # <<>>
        /\ held' = [of |-> t, slot |-> Head(queue[t])]
        /\ queue' = [queue EXCEPT ![t] = Q]
        /\ popped' = [popped EXCEPT ![t] = @ + 1]
    BY DEF Pop
  <1>3. UNCHANGED <<notifiers, sender, storage, storageIdx, sent, at, buffer, delivered>>
    BY DEF Pop, threadVars
  <1> HIDE DEF t
  <1>4. /\ Q \in Seq(Slots) /\ Head(queue[t]) \in Slots /\ Head(queue[t]) = queue[t][1]
        /\ Len(queue[t]) \in Nat \ {0} /\ Len(Q) = Len(queue[t]) - 1
        /\ \A i \in 1 .. Len(queue[t]) - 1 : Q[i] = queue[t][i + 1]
    <2>1. queue[t] \in Seq(Slots)
      BY <1>1, CountFact
    <2>2. Q \in Seq(Slots) /\ Head(queue[t]) \in Slots
      BY <2>1, <1>2, HeadTailProperties
    <2>3. Len(queue[t]) \in Nat \ {0}
      BY <2>1, <1>2, EmptySeq, LenProperties
    <2> QED BY <2>1, <2>2, <2>3, <1>2, HeadTailProperties
  <1> HIDE DEF Q
  <1>5. \A u \in Threads :
          /\ queue'[u] = IF u = t THEN Q ELSE queue[u]
          /\ popped'[u] = IF u = t THEN popped[t] + 1 ELSE popped[u]
    BY <1>1, <1>2 DEF IInv, TypeOK
  <1>6. \A u \in Threads : Copying(u)' <=> u = t
    BY <1>2 DEF Copying
  <1>7. TypeOK'
    <2>1. queue' \in [Threads -> Seq(Slots)]
      BY <1>2, <1>4 DEF IInv, TypeOK
    <2>2. popped' \in [Threads -> Nat]
      <3>1. popped \in [Threads -> Nat]
        BY DEF IInv, TypeOK
      <3>2. popped' = [popped EXCEPT ![t] = @ + 1]
        BY <1>2
      <3> QED BY <1>1, <3>1, <3>2
    <2>3. held' \in [of : Threads, slot : Slots]
      BY <1>1, <1>2, <1>4
    <2> QED BY <2>1, <2>2, <2>3, <1>2, <1>3 DEF IInv, TypeOK
  <1>8. CountInv'
    <2> SUFFICES ASSUME NEW u \in Threads
                 PROVE  /\ sent[u] = popped'[u] + Len(queue'[u])
                                        + (IF sender[u] = "push" THEN 1 ELSE 0)
                        /\ Len(queue'[u]) <= QueueSize
                        /\ u = t => popped'[u] > 0
      BY <1>3, <1>6 DEF CountInv
    <2>1. CASE u = t
      <3>1. Len(queue'[u]) = Len(queue[t]) - 1 /\ popped'[u] = popped[t] + 1
        BY <2>1, <1>4, <1>5
      <3>2. /\ popped[t] \in Nat /\ Len(queue[t]) \in Nat /\ Len(queue[t]) <= QueueSize
            /\ sent[t] = popped[t] + Len(queue[t]) + (IF sender[t] = "push" THEN 1 ELSE 0)
        BY <1>1, CountFact
      <3> QED BY <2>1, <3>1, <3>2, RingFact
    <2>2. CASE u # t
      BY <2>2, <1>5, CountFact
    <2> QED BY <2>1, <2>2
  <1>9. PointerInv'
    <2> SUFFICES ASSUME NEW u \in Threads
                 PROVE  /\ storageIdx[u] = Slot(popped'[u] + Len(queue'[u]))
                        /\ \A i \in 1 .. Len(queue'[u]) : queue'[u][i] = Slot(popped'[u] + i - 1)
                        /\ u = t => held'.slot = Slot(popped'[u] - 1)
      BY <1>3, <1>6 DEF PointerInv
    <2>1. CASE u = t
      <3>1. storageIdx[t] = Slot(popped'[t] + Len(Q))
        <4>1. popped'[t] + Len(Q) = popped[t] + Len(queue[t])
          <5>1. popped[t] \in Nat
            BY <1>1, CountFact
          <5>2. popped'[t] = popped[t] + 1
            BY <1>1, <1>5
          <5>3. Len(queue[t]) \in Nat /\ Len(Q) = Len(queue[t]) - 1
            BY <1>4
          <5> QED BY <5>1, <5>2, <5>3
        <4> QED BY <4>1, <1>1, CountFact
      <3>2. ASSUME NEW i \in 1 .. Len(Q) PROVE Q[i] = Slot(popped'[t] + i - 1)
        <4>1. i + 1 \in 1 .. Len(queue[t]) /\ Q[i] = queue[t][i + 1]
          BY <1>4
        <4>2. queue[t][i + 1] = Slot(popped[t] + (i + 1) - 1)
          BY <4>1, <1>1 DEF IInv, PointerInv
        <4>3. popped[t] + (i + 1) - 1 = popped'[t] + i - 1
          BY <1>1, <1>5, CountFact
        <4> QED BY <4>1, <4>2, <4>3
      <3>3. held'.slot = Slot(popped'[t] - 1)
        <4>1. 1 \in 1 .. Len(queue[t])
          BY <1>4
        <4>2. queue[t][1] = Slot(popped[t] + 1 - 1)
          BY <1>1, <4>1 DEF IInv, PointerInv
        <4>3. popped[t] + 1 - 1 = popped'[t] - 1
          BY <1>1, <1>5, CountFact
        <4> QED BY <4>2, <4>3, <1>2, <1>4
      <3> QED BY <2>1, <3>1, <3>2, <3>3, <1>5
    <2>2. CASE u # t
      BY <2>2, <1>5 DEF IInv, PointerInv
    <2> QED BY <2>1, <2>2
  <1>10. StorageInv'
    <2> SUFFICES ASSUME NEW u \in Threads, NEW n \in Oldest(u)' .. sent[u] - 1
                 PROVE  storage[u][Slot(n)] = n
      BY <1>3 DEF StorageInv
    <2>1. Oldest(u)' >= Oldest(u) /\ Oldest(u)' \in Int /\ Oldest(u) \in Int
      <3>1. ~Copying(u)
        BY <1>2 DEF Copying
      <3>2. Oldest(u) = popped[u] /\ popped[u] \in Nat
        BY <3>1, CountFact DEF Oldest
      <3>3. CASE u = t
        BY <3>2, <3>3, <1>5, <1>6 DEF Oldest
      <3>4. CASE u # t
        BY <3>2, <3>4, <1>5, <1>6 DEF Oldest
      <3> QED BY <3>3, <3>4
    <2>2. n \in Oldest(u) .. sent[u] - 1
      BY <2>1, CountFact
    <2> QED BY <2>2 DEF IInv, StorageInv
  <1>11. ListInv'
    BY <1>1, <1>2, <1>3 DEF IInv, ListInv, t
  <1> QED BY <1>7, <1>8, <1>9, <1>10, <1>11 DEF IInv

LEMMA CopyInv == ASSUME IInv, Copy PROVE IInv'
  <1>1. /\ UNCHANGED <<notifiers, queue, threadVars, at, held, popped, delivered>>
        /\ reader' \in {"send", "pop"}
    BY DEF Copy
  <1>2. buffer' \in Seq([of : Threads, n : Int])
    <2> DEFINE M == [of : Threads, n : Int]
               m == [of |-> held.of, n |-> storage[held.of][held.slot]]
    <2>1. held.of \in Threads /\ held.slot \in Slots
      BY DEF IInv, TypeOK
    <2>2. m \in M
      BY <2>1 DEF IInv, TypeOK
    <2>3. buffer \in Seq(M) /\ buffer' = Append(buffer, m)
      BY DEF IInv, TypeOK, Copy
    <2> HIDE DEF M, m
    <2>4. buffer' \in Seq(M)
      BY <2>2, <2>3, AppendProperties
    <2> QED BY <2>4 DEF M
  <1>3. TypeOK'
    BY <1>1, <1>2 DEF IInv, TypeOK, threadVars
  <1>4. ListInv'
    BY <1>1 DEF IInv, ListInv, threadVars
  <1>5. \A t \in Threads : sender[t] = "push" <=> sender'[t] = "push"
    BY <1>1 DEF threadVars
  <1> QED BY <1>1, <1>3, <1>4, <1>5, QuietKeepsInv DEF threadVars

LEMMA StepInv == IInv /\ [Next]_vars => IInv'
  <1> SUFFICES ASSUME IInv, [Next]_vars PROVE IInv'
    OBVIOUS
  <1>1. CASE ReaderStep
    BY <1>1, ReaderQuietInv, PopInv, CopyInv DEF ReaderStep
  <1>2. ASSUME NEW t \in Threads, Register(t) \/ Store(t) \/ Push(t) \/ Unregister(t)
        PROVE  IInv'
    BY <1>2, RegisterInv, StoreInv, PushInv, UnregisterInv
  <1>3. CASE UNCHANGED vars
    BY <1>3 DEF vars, threadVars, readerVars, IInv, TypeOK, CountInv, PointerInv, StorageInv,
                ListInv, Oldest, Copying
  <1> QED BY <1>1, <1>2, <1>3 DEF Next

LEMMA Invariance == Spec => []IInv
  BY InitInv, StepInv, PTL DEF Spec

-----------------------------------------------------------------------------
\* Every state has the type the module declares: in particular the index into
\* the storage of a notifier stays within it.
THEOREM TypeCorrect == Spec => []TypeOK
  <1>1. IInv => TypeOK
    BY DEF IInv
  <1> QED BY <1>1, Invariance, PTL

\* The string Handle copies is the message whose pointer it popped, whatever the
\* sender has written since: a storage of QueueSize + 3 strings is enough.
THEOREM CopyIsAlwaysIntact == Spec => []CopyIsIntact
  <1>1. IInv => CopyIsIntact
    <2> SUFFICES ASSUME IInv, reader = "copy"
                 PROVE  storage[held.of][held.slot] = popped[held.of] - 1
      BY DEF CopyIsIntact
    <2>1. held.of \in Threads /\ Copying(held.of)
      BY DEF IInv, TypeOK, Copying
    <2>2. held.slot = Slot(popped[held.of] - 1)
      BY <2>1 DEF IInv, PointerInv
    <2>3. Oldest(held.of) = popped[held.of] - 1
      BY <2>1 DEF Oldest
    <2>4. popped[held.of] - 1 \in Oldest(held.of) .. sent[held.of] - 1
      BY <2>1, <2>3, CountFact
    <2> QED BY <2>1, <2>2, <2>4 DEF IInv, StorageInv
  <1> QED BY <1>1, Invariance, PTL

\* Handle copies only from notifiers whose thread has not ended.
THEOREM LivingOnly == Spec => []OnlyTheLivingAreRead
  <1>1. IInv => OnlyTheLivingAreRead
    <2> SUFFICES ASSUME IInv, reader = "copy" PROVE sender[held.of] \in {"idle", "push"}
      BY DEF OnlyTheLivingAreRead
    <2>1. at \in 1 .. Len(notifiers) /\ held.of = notifiers[at]
      BY DEF IInv, TypeOK, ListInv
    <2> QED BY <2>1 DEF IInv, ListInv
  <1> QED BY <1>1, Invariance, PTL

-----------------------------------------------------------------------------
(* Delivery in order.  What the reader has copied of a thread and not yet  *)
(* passed on is in the buffer, message after message.                      *)

BufferInv ==
  \A t \in Threads :
    /\ delivered[t] <= Oldest(t)
    /\ \A i \in 1 .. Len(buffer) :
         buffer[i].of = t => delivered[t] <= buffer[i].n /\ buffer[i].n < Oldest(t)
    /\ \A n \in delivered[t] .. Oldest(t) - 1 :
         \E i \in 1 .. Len(buffer) : buffer[i] = [of |-> t, n |-> n]
    /\ \A i, j \in 1 .. Len(buffer) :
         i < j /\ buffer[i].of = t /\ buffer[j].of = t => buffer[i].n < buffer[j].n

Messages == [of : Threads, n : Int]

LEMMA BufferInit == Init => BufferInv
  <1> SUFFICES ASSUME Init, NEW t \in Threads
               PROVE  buffer = <<>> /\ delivered[t] = 0 /\ Oldest(t) = 0
    BY DEF BufferInv
  <1> QED BY DEF Init, Oldest, Copying

LEMMA BufferKept ==
  ASSUME BufferInv, UNCHANGED <<buffer, delivered>>, \A t \in Threads : Oldest(t)' = Oldest(t)
  PROVE  BufferInv'
  BY DEF BufferInv

LEMMA OldestType == ASSUME IInv, NEW t \in Threads
                    PROVE  Oldest(t) \in Nat /\ delivered[t] \in Nat /\ buffer \in Seq(Messages)
  BY CountFact DEF Oldest, IInv, TypeOK, Messages

LEMMA CopyKeepsBuffer ==
  ASSUME IInv, BufferInv, Copy PROVE BufferInv'
  <1> DEFINE u == held.of
             m == [of |-> held.of, n |-> storage[held.of][held.slot]]
  <1>1. u \in Threads /\ Copying(u) /\ Oldest(u) = popped[u] - 1
    BY DEF IInv, TypeOK, Copying, Copy, Oldest
  <1>2. m = [of |-> u, n |-> Oldest(u)] /\ m \in Messages
    <2>1. held.slot = Slot(popped[u] - 1)
      BY <1>1 DEF IInv, PointerInv
    <2>2. popped[u] - 1 \in Oldest(u) .. sent[u] - 1
      BY <1>1, CountFact
    <2>3. storage[u][held.slot] = Oldest(u)
      BY <1>1, <2>1, <2>2 DEF IInv, StorageInv
    <2> QED BY <1>1, <2>3, OldestType DEF Messages
  <1>3. buffer' = Append(buffer, m) /\ reader' # "copy" /\ UNCHANGED <<held, popped, delivered>>
    BY DEF Copy
  <1> HIDE DEF u, m
  <1>4. /\ Len(buffer) \in Nat /\ Len(buffer') = Len(buffer) + 1
        /\ buffer'[Len(buffer) + 1] = m
        /\ \A i \in 1 .. Len(buffer) : buffer'[i] = buffer[i]
    BY <1>1, <1>2, <1>3, OldestType, AppendProperties, LenProperties
  <1>5. \A t \in Threads : Oldest(t)' = IF t = u THEN Oldest(t) + 1 ELSE Oldest(t)
    BY <1>1, <1>3, CountFact DEF Oldest, Copying, u, Copy
  <1> SUFFICES ASSUME NEW t \in Threads
               PROVE  /\ delivered[t] <= Oldest(t)'
                      /\ \A i \in 1 .. Len(buffer') : buffer'[i].of = t =>
                           delivered[t] <= buffer'[i].n /\ buffer'[i].n < Oldest(t)'
                      /\ \A n \in delivered[t] .. Oldest(t)' - 1 :
                           \E i \in 1 .. Len(buffer') : buffer'[i] = [of |-> t, n |-> n]
                      /\ \A i, j \in 1 .. Len(buffer') :
                           i < j /\ buffer'[i].of = t /\ buffer'[j].of = t
                             => buffer'[i].n < buffer'[j].n
    BY <1>3 DEF BufferInv
  <1>6. /\ Oldest(t) \in Nat /\ delivered[t] \in Nat /\ delivered[t] <= Oldest(t)
    BY OldestType DEF BufferInv
  <1>7. ASSUME NEW i \in 1 .. Len(buffer'), buffer'[i].of = t
        PROVE  delivered[t] <= buffer'[i].n /\ buffer'[i].n < Oldest(t)'
    <2>1. CASE i = Len(buffer) + 1
      BY <1>2, <1>4, <1>5, <1>6, <1>7, <2>1
    <2>2. CASE i \in 1 .. Len(buffer)
      <3>1. buffer[i] \in Messages
        BY <2>2, OldestType
      <3> QED BY <1>4, <1>5, <1>6, <1>7, <2>2, <3>1 DEF BufferInv, Messages
    <2> QED BY <1>4, <2>1, <2>2
  <1>8. ASSUME NEW n \in delivered[t] .. Oldest(t)' - 1
        PROVE  \E i \in 1 .. Len(buffer') : buffer'[i] = [of |-> t, n |-> n]
    <2>1. CASE n \in delivered[t] .. Oldest(t) - 1
      <3>1. PICK i \in 1 .. Len(buffer) : buffer[i] = [of |-> t, n |-> n]
        BY <2>1 DEF BufferInv
      <3> QED BY <1>4, <3>1
    <2>2. CASE t = u /\ n = Oldest(t)
      <3>1. buffer'[Len(buffer) + 1] = [of |-> t, n |-> n]
        BY <1>2, <1>4, <2>2
      <3> QED BY <1>4, <3>1
    <2> QED BY <1>5, <1>6, <2>1, <2>2
  <1>9. ASSUME NEW i \in 1 .. Len(buffer'), NEW j \in 1 .. Len(buffer'),
               i < j, buffer'[i].of = t, buffer'[j].of = t
        PROVE  buffer'[i].n < buffer'[j].n
    <2>1. i \in 1 .. Len(buffer) /\ buffer'[i] = buffer[i]
      BY <1>4, <1>9
    <2>2. CASE j = Len(buffer) + 1
      BY <1>2, <1>4, <1>9, <2>1, <2>2 DEF BufferInv
    <2>3. CASE j \in 1 .. Len(buffer)
      BY <1>4, <1>9, <2>1, <2>3 DEF BufferInv
    <2> QED BY <1>4, <2>2, <2>3
  <1> QED BY <1>5, <1>6, <1>7, <1>8, <1>9

\* The head of the buffer is its thread's next message.
LEMMA HeadIsNext ==
  ASSUME IInv, BufferInv, buffer # <<>>
  PROVE  /\ Head(buffer) = buffer[1] /\ buffer[1] \in Messages /\ buffer[1].of \in Threads
         /\ buffer[1] = [of |-> buffer[1].of, n |-> delivered[buffer[1].of]]
         /\ delivered[buffer[1].of] < Oldest(buffer[1].of)
  <1>1. buffer \in Seq(Messages)
    BY DEF IInv, TypeOK, Messages
  <1>2. Head(buffer) = buffer[1] /\ buffer[1] \in Messages /\ 1 \in 1 .. Len(buffer)
    BY <1>1, HeadTailProperties, EmptySeq, LenProperties
  <1> DEFINE t == buffer[1].of
  <1>3. t \in Threads /\ buffer[1] = [of |-> t, n |-> buffer[1].n] /\ buffer[1].n \in Int
    BY <1>2 DEF Messages
  <1>4. delivered[t] <= buffer[1].n /\ buffer[1].n < Oldest(t)
    BY <1>2, <1>3 DEF BufferInv
  <1>5. PICK i \in 1 .. Len(buffer) : buffer[i] = [of |-> t, n |-> delivered[t]]
    BY <1>3, <1>4, OldestType DEF BufferInv
  <1>6. i = 1
    <2> SUFFICES ASSUME i # 1 PROVE FALSE
      OBVIOUS
    <2>1. buffer[1].n < delivered[t]
      BY <1>2, <1>3, <1>5 DEF BufferInv
    <2> QED BY <1>3, <1>4, <2>1, OldestType
  <1> QED BY <1>2, <1>3, <1>4, <1>5, <1>6, OldestType

LEMMA SendKeepsBuffer ==
  ASSUME IInv, BufferInv, SendMessage PROVE BufferInv'
  <1> DEFINE u == buffer[1].of
  <1>1. /\ u \in Threads /\ Head(buffer) = buffer[1] /\ delivered[u] < Oldest(u)
        /\ buffer[1] = [of |-> u, n |-> delivered[u]]
    BY HeadIsNext DEF SendMessage
  <1>2. /\ Len(buffer) \in Nat /\ Len(buffer') = Len(buffer) - 1 /\ Len(buffer) > 0
        /\ \A i \in 1 .. Len(buffer') : buffer'[i] = buffer[i + 1]
    <2>1. buffer \in Seq(Messages) /\ buffer # <<>> /\ buffer' = Tail(buffer)
      BY DEF IInv, TypeOK, Messages, SendMessage
    <2> QED BY <2>1, HeadTailProperties, EmptySeq, LenProperties
  <1>3. \A t \in Threads : delivered'[t] = IF t = u THEN delivered[t] + 1 ELSE delivered[t]
    BY <1>1 DEF SendMessage, IInv, TypeOK
  <1>4. \A t \in Threads : Oldest(t)' = Oldest(t)
    BY DEF SendMessage, Oldest, Copying
  <1> SUFFICES ASSUME NEW t \in Threads
               PROVE  /\ delivered'[t] <= Oldest(t)
                      /\ \A i \in 1 .. Len(buffer') : buffer'[i].of = t =>
                           delivered'[t] <= buffer'[i].n /\ buffer'[i].n < Oldest(t)
                      /\ \A n \in delivered'[t] .. Oldest(t) - 1 :
                           \E i \in 1 .. Len(buffer') : buffer'[i] = [of |-> t, n |-> n]
                      /\ \A i, j \in 1 .. Len(buffer') :
                           i < j /\ buffer'[i].of = t /\ buffer'[j].of = t
                             => buffer'[i].n < buffer'[j].n
    BY <1>4 DEF BufferInv
  <1> HIDE DEF u
  <1>5. delivered[t] \in Nat /\ Oldest(t) \in Nat
    BY OldestType
  <1>6. ASSUME NEW i \in 1 .. Len(buffer'), buffer'[i].of = t
        PROVE  delivered'[t] <= buffer'[i].n /\ buffer'[i].n < Oldest(t)
    <2>1. i + 1 \in 1 .. Len(buffer) /\ buffer'[i] = buffer[i + 1] /\ 1 \in 1 .. Len(buffer)
      BY <1>2
    <2>2. buffer[i + 1].n \in Int
      <3>1. buffer[i + 1] \in Messages
        BY <2>1, OldestType
      <3> QED BY <3>1 DEF Messages
    <2>3. delivered[t] <= buffer[i + 1].n /\ buffer[i + 1].n < Oldest(t)
      BY <1>6, <2>1 DEF BufferInv
    <2>4. CASE t = u
      <3>1. buffer[1].of = t /\ buffer[1].n = delivered[t]
        BY <1>1, <2>4
      <3>2. buffer[1].n < buffer[i + 1].n
        BY <1>6, <2>1, <3>1 DEF BufferInv
      <3> QED BY <1>3, <1>5, <2>1, <2>2, <2>3, <2>4, <3>1, <3>2
    <2> QED BY <1>3, <2>1, <2>3, <2>4
  <1>7. ASSUME NEW n \in delivered'[t] .. Oldest(t) - 1
        PROVE  \E i \in 1 .. Len(buffer') : buffer'[i] = [of |-> t, n |-> n]
    <2>1. n \in delivered[t] .. Oldest(t) - 1 /\ (t = u => n # delivered[t])
      BY <1>3, <1>5
    <2>2. PICK i \in 1 .. Len(buffer) : buffer[i] = [of |-> t, n |-> n]
      BY <2>1 DEF BufferInv
    <2>3. i # 1
      BY <1>1, <2>1, <2>2
    <2>4. i - 1 \in 1 .. Len(buffer') /\ buffer'[i - 1] = buffer[i]
      BY <1>2, <2>3
    <2> QED BY <2>2, <2>4
  <1>8. ASSUME NEW i \in 1 .. Len(buffer'), NEW j \in 1 .. Len(buffer'),
               i < j, buffer'[i].of = t, buffer'[j].of = t
        PROVE  buffer'[i].n < buffer'[j].n
    <2>1. i + 1 \in 1 .. Len(buffer) /\ j + 1 \in 1 .. Len(buffer) /\ i + 1 < j + 1
      BY <1>2, <1>8
    <2> QED BY <1>2, <1>8, <2>1 DEF BufferInv
  <1>9. delivered'[t] <= Oldest(t)
    BY <1>1, <1>3, <1>5 DEF BufferInv
  <1> QED BY <1>6, <1>7, <1>8, <1>9

LEMMA BufferNext == IInv /\ BufferInv /\ [Next]_vars => BufferInv'
  <1> SUFFICES ASSUME IInv, BufferInv, [Next]_vars PROVE BufferInv'
    OBVIOUS
  <1>1. CASE Pop
    <2>1. \A t \in Threads : Oldest(t)' = Oldest(t)
      <3>1. popped \in [Threads -> Nat] /\ \A t \in Threads : ~Copying(t)
        BY <1>1 DEF Pop, Copying, IInv, TypeOK
      <3> QED BY <1>1, <3>1 DEF Pop, Oldest, Copying
    <2> QED BY <1>1, <2>1, BufferKept DEF Pop
  <1>2. CASE \/ BeginHandle \/ Skip \/ EndHandle \/ Sleep
             \/ \E t \in Threads : Register(t) \/ Store(t) \/ Push(t) \/ Unregister(t)
    BY <1>2, BufferKept DEF BeginHandle, Skip, EndHandle, Sleep, Register, Store, Push,
       Unregister, readerVars, Oldest, Copying
  <1>3. CASE UNCHANGED vars
    BY <1>3, BufferKept DEF vars, readerVars, Oldest, Copying
  <1> QED BY <1>1, <1>2, <1>3, CopyKeepsBuffer, SendKeepsBuffer DEF Next, ReaderStep

\* Every thread's messages are passed on in order, each once and none left out,
\* for any number of threads and any sizes.
THEOREM Order == Spec => DeliveredInOrder
  <1> DEFINE A == \A t \in Threads :
                    delivered'[t] # delivered[t] => Head(buffer) = [of |-> t, n |-> delivered[t]]
  <1>1. IInv /\ BufferInv /\ [Next]_vars => [A]_delivered
    <2> SUFFICES ASSUME IInv, BufferInv, [Next]_vars, delivered' # delivered,
                        NEW t \in Threads, delivered'[t] # delivered[t]
                 PROVE  Head(buffer) = [of |-> t, n |-> delivered[t]]
      OBVIOUS
    <2>1. SendMessage
      BY DEF Next, vars, ReaderStep, BeginHandle, Pop, Skip, EndHandle, Copy, Sleep,
         Register, Store, Push, Unregister, readerVars
    <2>2. t = Head(buffer).of
      BY <2>1 DEF SendMessage, IInv, TypeOK
    <2> QED BY <2>1, <2>2, HeadIsNext DEF SendMessage
  <1>2. Spec => []BufferInv
    BY BufferInit, BufferNext, Invariance, PTL DEF Spec
  <1>3. Spec => [][A]_delivered
    BY <1>1, <1>2, Invariance, PTL DEF Spec
  <1> QED BY <1>3 DEF DeliveredInOrder
=============================================================================
