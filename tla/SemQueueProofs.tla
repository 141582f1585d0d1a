--------------------------- MODULE SemQueueProofs ---------------------------
(* Proofs about SemQueue, for any number of producers and consumers and    *)
(* any set of elements: its safety properties and that it implements       *)
(* FifoQueue.                                                              *)
EXTENDS SemQueue, FiniteSetTheorems, SequenceTheorems, TLAPS

(* The strengthening that makes the safety properties inductive: a thread  *)
(* holds an element exactly while it is on the way in or out, and no two   *)
(* producers hold the same one.                                            *)
HandsMatchPC ==
  /\ \A p \in Producers :
       IF pc[p] \in {"pushLock", "pushItem"} THEN hand[p] \in Items
       ELSE hand[p] = NoItem
  /\ \A c \in Consumers :
       IF pc[c] \in {"popErase", "popUnlock", "consume"} THEN hand[c] \in Items
       ELSE hand[c] = NoItem

PushedOnce ==
  \A p \in Producers :
    /\ hand[p] \notin fresh
    /\ \A q \in Producers : hand[p] = hand[q] => p = q \/ hand[p] = NoItem

HoldsFront ==
  \A c \in Consumers : pc[c] = "popErase" => hand[c] = Head(queue)

IInv ==
  /\ TypeOK /\ HandsMatchPC /\ PushedOnce /\ MutualExclusion
  /\ TokensMatchQueue /\ HoldsFront

-----------------------------------------------------------------------------
(* Every variable has its type.                                            *)
LEMMA TypeStep == TypeOK /\ HandsMatchPC /\ [Next]_vars => TypeOK'
<1> SUFFICES ASSUME TypeOK, HandsMatchPC, [Next]_vars PROVE TypeOK'
  OBVIOUS
<1> USE QueueAssumption DEF TypeOK, Threads, ProducerPC, ConsumerPC, Step
<1>1. ASSUME NEW p \in Producers, Produce(p) PROVE TypeOK'
  BY <1>1 DEF Produce
<1>2. ASSUME NEW p \in Producers, PushLock(p) PROVE TypeOK'
  BY <1>2 DEF PushLock, Lock
<1>3. ASSUME NEW p \in Producers, PushItem(p) PROVE TypeOK'
  <2>1. hand[p] \in Items
    BY <1>3 DEF PushItem, HandsMatchPC
  <2> QED
    BY <2>1, <1>3, AppendProperties DEF PushItem
<1>4. ASSUME NEW p \in Producers, PushUnlock(p) PROVE TypeOK'
  BY <1>4 DEF PushUnlock, Unlock
<1>5. ASSUME NEW p \in Producers, PushSignal(p) PROVE TypeOK'
  BY <1>5 DEF PushSignal, SemSignal
<1>6. ASSUME NEW c \in Consumers, PopWait(c) PROVE TypeOK'
  BY <1>6 DEF PopWait, SemWait
<1>7. ASSUME NEW c \in Consumers, PopLock(c) PROVE TypeOK'
  BY <1>7 DEF PopLock, Lock
<1>8. ASSUME NEW c \in Consumers, PopFront(c) PROVE TypeOK'
  BY <1>8 DEF PopFront
<1>9. ASSUME NEW c \in Consumers, PopErase(c) PROVE TypeOK'
  BY <1>9 DEF PopErase
<1>10. ASSUME NEW c \in Consumers, PopUnlock(c) PROVE TypeOK'
  BY <1>10 DEF PopUnlock, Unlock
<1>11. ASSUME NEW c \in Consumers, Consume(c) PROVE TypeOK'
  BY <1>11 DEF Consume
<1>12. CASE UNCHANGED vars
  BY <1>12 DEF vars
<1> QED
  BY <1>1, <1>2, <1>3, <1>4, <1>5, <1>6, <1>7, <1>8, <1>9, <1>10, <1>11, <1>12
  DEF Next, Push, ConsumeForever

(* A thread holds an element exactly while it is on the way in or out.     *)
LEMMA HandsStep == TypeOK /\ HandsMatchPC /\ [Next]_vars => HandsMatchPC'
<1> SUFFICES ASSUME TypeOK, HandsMatchPC, [Next]_vars PROVE HandsMatchPC'
  OBVIOUS
<1> USE QueueAssumption DEF TypeOK, HandsMatchPC, Threads, Step
<1>1. ASSUME NEW p \in Producers, Produce(p) PROVE HandsMatchPC'
  BY <1>1 DEF Produce
<1>2. ASSUME NEW p \in Producers, PushLock(p) PROVE HandsMatchPC'
  BY <1>2 DEF PushLock, Lock
<1>3. ASSUME NEW p \in Producers, PushItem(p) PROVE HandsMatchPC'
  BY <1>3 DEF PushItem
<1>4. ASSUME NEW p \in Producers, PushUnlock(p) PROVE HandsMatchPC'
  BY <1>4 DEF PushUnlock, Unlock
<1>5. ASSUME NEW p \in Producers, PushSignal(p) PROVE HandsMatchPC'
  BY <1>5 DEF PushSignal, SemSignal
<1>6. ASSUME NEW c \in Consumers, PopWait(c) PROVE HandsMatchPC'
  BY <1>6 DEF PopWait, SemWait
<1>7. ASSUME NEW c \in Consumers, PopLock(c) PROVE HandsMatchPC'
  BY <1>7 DEF PopLock, Lock
<1>8. ASSUME NEW c \in Consumers, PopFront(c) PROVE HandsMatchPC'
  BY <1>8 DEF PopFront
<1>9. ASSUME NEW c \in Consumers, PopErase(c) PROVE HandsMatchPC'
  BY <1>9 DEF PopErase
<1>10. ASSUME NEW c \in Consumers, PopUnlock(c) PROVE HandsMatchPC'
  BY <1>10 DEF PopUnlock, Unlock
<1>11. ASSUME NEW c \in Consumers, Consume(c) PROVE HandsMatchPC'
  BY <1>11 DEF Consume
<1>12. CASE UNCHANGED vars
  BY <1>12 DEF vars
<1> QED
  BY <1>1, <1>2, <1>3, <1>4, <1>5, <1>6, <1>7, <1>8, <1>9, <1>10, <1>11, <1>12
  DEF Next, Push, ConsumeForever

(* No two producers hold the same element, and none that is still fresh.   *)
LEMMA PushedOnceStep ==
  TypeOK /\ HandsMatchPC /\ PushedOnce /\ [Next]_vars => PushedOnce'
<1> SUFFICES ASSUME TypeOK, HandsMatchPC, PushedOnce, [Next]_vars
             PROVE  PushedOnce'
  OBVIOUS
<1> USE QueueAssumption DEF TypeOK, PushedOnce, Threads, Step
<1>1. ASSUME NEW p \in Producers, Produce(p) PROVE PushedOnce'
  BY <1>1 DEF Produce
<1>2. ASSUME NEW p \in Producers, PushLock(p) PROVE PushedOnce'
  BY <1>2 DEF PushLock, Lock
<1>3. ASSUME NEW p \in Producers, PushItem(p) PROVE PushedOnce'
  BY <1>3 DEF PushItem
<1>4. ASSUME NEW p \in Producers, PushUnlock(p) PROVE PushedOnce'
  BY <1>4 DEF PushUnlock, Unlock
<1>5. ASSUME NEW p \in Producers, PushSignal(p) PROVE PushedOnce'
  BY <1>5 DEF PushSignal, SemSignal
<1>6. ASSUME NEW c \in Consumers, PopWait(c) PROVE PushedOnce'
  BY <1>6 DEF PopWait, SemWait
<1>7. ASSUME NEW c \in Consumers, PopLock(c) PROVE PushedOnce'
  BY <1>7 DEF PopLock, Lock
<1>8. ASSUME NEW c \in Consumers, PopFront(c) PROVE PushedOnce'
  BY <1>8 DEF PopFront
<1>9. ASSUME NEW c \in Consumers, PopErase(c) PROVE PushedOnce'
  BY <1>9 DEF PopErase
<1>10. ASSUME NEW c \in Consumers, PopUnlock(c) PROVE PushedOnce'
  BY <1>10 DEF PopUnlock, Unlock
<1>11. ASSUME NEW c \in Consumers, Consume(c) PROVE PushedOnce'
  BY <1>11 DEF Consume
<1>12. CASE UNCHANGED vars
  BY <1>12 DEF vars
<1> QED
  BY <1>1, <1>2, <1>3, <1>4, <1>5, <1>6, <1>7, <1>8, <1>9, <1>10, <1>11, <1>12
  DEF Next, Push, ConsumeForever

(* The std::queue is touched by the owner of the mutex only.               *)
LEMMA MutexStep == TypeOK /\ MutualExclusion /\ [Next]_vars => MutualExclusion'
<1> SUFFICES ASSUME TypeOK, MutualExclusion, [Next]_vars
             PROVE  MutualExclusion'
  OBVIOUS
<1> USE QueueAssumption DEF TypeOK, MutualExclusion, Critical, Threads, Step
<1>1. ASSUME NEW p \in Producers, Produce(p) PROVE MutualExclusion'
  BY <1>1 DEF Produce
<1>2. ASSUME NEW p \in Producers, PushLock(p) PROVE MutualExclusion'
  BY <1>2 DEF PushLock, Lock
<1>3. ASSUME NEW p \in Producers, PushItem(p) PROVE MutualExclusion'
  BY <1>3 DEF PushItem
<1>4. ASSUME NEW p \in Producers, PushUnlock(p) PROVE MutualExclusion'
  BY <1>4 DEF PushUnlock, Unlock
<1>5. ASSUME NEW p \in Producers, PushSignal(p) PROVE MutualExclusion'
  BY <1>5 DEF PushSignal, SemSignal
<1>6. ASSUME NEW c \in Consumers, PopWait(c) PROVE MutualExclusion'
  BY <1>6 DEF PopWait, SemWait
<1>7. ASSUME NEW c \in Consumers, PopLock(c) PROVE MutualExclusion'
  BY <1>7 DEF PopLock, Lock
<1>8. ASSUME NEW c \in Consumers, PopFront(c) PROVE MutualExclusion'
  BY <1>8 DEF PopFront
<1>9. ASSUME NEW c \in Consumers, PopErase(c) PROVE MutualExclusion'
  BY <1>9 DEF PopErase
<1>10. ASSUME NEW c \in Consumers, PopUnlock(c) PROVE MutualExclusion'
  BY <1>10 DEF PopUnlock, Unlock
<1>11. ASSUME NEW c \in Consumers, Consume(c) PROVE MutualExclusion'
  BY <1>11 DEF Consume
<1>12. CASE UNCHANGED vars
  BY <1>12 DEF vars
<1> QED
  BY <1>1, <1>2, <1>3, <1>4, <1>5, <1>6, <1>7, <1>8, <1>9, <1>10, <1>11, <1>12
  DEF Next, Push, ConsumeForever

-----------------------------------------------------------------------------
(* The tokens of the semaphore.                                            *)
Owing == {"pushUnlock", "pushSignal", "popLock", "popFront", "popErase"}

LEMMA OwedFinite == IsFiniteSet(Owed) /\ Cardinality(Owed) \in Nat
<1>1. IsFiniteSet(Threads)
  BY QueueAssumption, FS_Union DEF Threads
<1>2. Owed \in SUBSET Threads
  BY DEF Owed
<1> QED
  BY <1>1, <1>2, FS_Subset, FS_CardinalityType

(* One thread's step adds it to Owed, removes it, or leaves Owed alone.    *)
LEMMA OwedChange ==
  ASSUME TypeOK, NEW t \in Threads, NEW from, NEW to, Step(t, from, to)
  PROVE  /\ (from \in Owing <=> to \in Owing) => Owed' = Owed
         /\ (from \notin Owing /\ to \in Owing) =>
              Cardinality(Owed') = Cardinality(Owed) + 1
         /\ (from \in Owing /\ to \notin Owing) =>
              Cardinality(Owed') = Cardinality(Owed) - 1
<1> USE DEF Owing, Owed, Step, TypeOK
<1>1. ASSUME from \in Owing <=> to \in Owing PROVE Owed' = Owed
  BY <1>1
<1>2. ASSUME from \notin Owing, to \in Owing
      PROVE  Cardinality(Owed') = Cardinality(Owed) + 1
  <2>1. Owed' = Owed \cup {t} /\ t \notin Owed
    BY <1>2
  <2> HIDE DEF Owed
  <2> QED
    BY <2>1, OwedFinite, FS_AddElement
<1>3. ASSUME from \in Owing, to \notin Owing
      PROVE  Cardinality(Owed') = Cardinality(Owed) - 1
  <2>1. Owed' = Owed \ {t} /\ t \in Owed
    BY <1>3
  <2> HIDE DEF Owed
  <2> QED
    BY <2>1, OwedFinite, FS_RemoveElement
<1> QED
  BY <1>1, <1>2, <1>3

(* A consumer that was let in finds an element.                            *)
LEMMA OwedFront ==
  ASSUME TypeOK, TokensMatchQueue, NEW c \in Consumers,
         pc[c] \in {"popLock", "popFront", "popErase"}
  PROVE  queue # <<>>
<1>1. c \in Owed
  BY DEF Owed, Threads
<1>2. Cardinality(Owed) # 0
  BY <1>1, OwedFinite, FS_EmptySet
<1>3. Len(queue) # 0
  BY <1>2, OwedFinite DEF TypeOK, TokensMatchQueue
<1> QED
  BY <1>3

LEMMA TokensStep ==
  TypeOK /\ HandsMatchPC /\ TokensMatchQueue /\ [Next]_vars => TokensMatchQueue'
<1> SUFFICES ASSUME TypeOK, HandsMatchPC, TokensMatchQueue, [Next]_vars
             PROVE  TokensMatchQueue'
  OBVIOUS
<1> USE DEF TokensMatchQueue, Owing
<1>1. ASSUME NEW p \in Producers, Produce(p) PROVE TokensMatchQueue'
  <2>1. Owed' = Owed
    BY <1>1, OwedChange DEF Produce, Threads
  <2> QED
    BY <1>1, <2>1 DEF Produce
<1>2. ASSUME NEW p \in Producers, PushLock(p) PROVE TokensMatchQueue'
  <2>1. Owed' = Owed
    BY <1>2, OwedChange DEF PushLock, Threads
  <2> QED
    BY <1>2, <2>1 DEF PushLock, Lock
<1>3. ASSUME NEW p \in Producers, PushItem(p) PROVE TokensMatchQueue'
  <2>1. Cardinality(Owed') = Cardinality(Owed) + 1
    BY <1>3, OwedChange DEF PushItem, Threads
  <2>2. hand[p] \in Items
    BY <1>3 DEF PushItem, HandsMatchPC, Step
  <2>3. Len(queue') = Len(queue) + 1
    BY <1>3, <2>2, AppendProperties DEF PushItem, TypeOK
  <2> QED
    BY <1>3, <2>1, <2>3, OwedFinite DEF PushItem, TypeOK
<1>4. ASSUME NEW p \in Producers, PushUnlock(p) PROVE TokensMatchQueue'
  <2>1. Owed' = Owed
    BY <1>4, OwedChange DEF PushUnlock, Threads
  <2> QED
    BY <1>4, <2>1 DEF PushUnlock, Unlock
<1>5. ASSUME NEW p \in Producers, PushSignal(p) PROVE TokensMatchQueue'
  <2>1. Cardinality(Owed') = Cardinality(Owed) - 1
    BY <1>5, OwedChange DEF PushSignal, Threads
  <2> QED
    BY <1>5, <2>1, OwedFinite DEF PushSignal, SemSignal, TypeOK
<1>6. ASSUME NEW c \in Consumers, PopWait(c) PROVE TokensMatchQueue'
  <2>1. Cardinality(Owed') = Cardinality(Owed) + 1
    BY <1>6, OwedChange DEF PopWait, Threads
  <2> QED
    BY <1>6, <2>1, OwedFinite DEF PopWait, SemWait, TypeOK
<1>7. ASSUME NEW c \in Consumers, PopLock(c) PROVE TokensMatchQueue'
  <2>1. Owed' = Owed
    BY <1>7, OwedChange DEF PopLock, Threads
  <2> QED
    BY <1>7, <2>1 DEF PopLock, Lock
<1>8. ASSUME NEW c \in Consumers, PopFront(c) PROVE TokensMatchQueue'
  <2>1. Owed' = Owed
    BY <1>8, OwedChange DEF PopFront, Threads
  <2> QED
    BY <1>8, <2>1 DEF PopFront
<1>9. ASSUME NEW c \in Consumers, PopErase(c) PROVE TokensMatchQueue'
  <2>1. Cardinality(Owed') = Cardinality(Owed) - 1
    BY <1>9, OwedChange DEF PopErase, Threads
  <2>2. queue # <<>>
    BY <1>9, OwedFront DEF PopErase, Step
  <2>3. Len(queue') = Len(queue) - 1
    BY <1>9, <2>2, HeadTailProperties DEF PopErase, TypeOK
  <2> QED
    BY <1>9, <2>1, <2>3, OwedFinite DEF PopErase, TypeOK
<1>10. ASSUME NEW c \in Consumers, PopUnlock(c) PROVE TokensMatchQueue'
  <2>1. Owed' = Owed
    BY <1>10, OwedChange DEF PopUnlock, Threads
  <2> QED
    BY <1>10, <2>1 DEF PopUnlock, Unlock
<1>11. ASSUME NEW c \in Consumers, Consume(c) PROVE TokensMatchQueue'
  <2>1. Owed' = Owed
    <3>1. CASE hand[c] \in StopItems
      BY <1>11, <3>1, OwedChange DEF Consume, Threads
    <3>2. CASE hand[c] \notin StopItems
      BY <1>11, <3>2, OwedChange DEF Consume, Threads
    <3> QED
      BY <3>1, <3>2
  <2> QED
    BY <1>11, <2>1 DEF Consume
<1>12. CASE UNCHANGED vars
  BY <1>12 DEF vars, Owed
<1> QED
  BY <1>1, <1>2, <1>3, <1>4, <1>5, <1>6, <1>7, <1>8, <1>9, <1>10, <1>11, <1>12
  DEF Next, Push, ConsumeForever

(* The element a consumer is about to erase is the one it returns.         *)
LEMMA HoldsFrontStep ==
  TypeOK /\ HandsMatchPC /\ MutualExclusion /\ TokensMatchQueue /\ HoldsFront
    /\ [Next]_vars => HoldsFront'
<1> SUFFICES ASSUME TypeOK, HandsMatchPC, MutualExclusion, TokensMatchQueue,
                    HoldsFront, [Next]_vars
             PROVE  HoldsFront'
  OBVIOUS
<1> USE QueueAssumption DEF HoldsFront, TypeOK, Threads, Step
<1>1. ASSUME NEW p \in Producers, Produce(p) PROVE HoldsFront'
  BY <1>1 DEF Produce
<1>2. ASSUME NEW p \in Producers, PushLock(p) PROVE HoldsFront'
  BY <1>2 DEF PushLock, Lock
<1>3. ASSUME NEW p \in Producers, PushItem(p) PROVE HoldsFront'
  <2> SUFFICES ASSUME NEW c \in Consumers, pc'[c] = "popErase"
               PROVE  hand'[c] = Head(queue')
    OBVIOUS
  <2>1. pc[c] = "popErase" /\ hand'[c] = Head(queue)
    BY <1>3 DEF PushItem
  <2> QED
    BY <2>1, <1>3 DEF PushItem, MutualExclusion, Critical
<1>4. ASSUME NEW p \in Producers, PushUnlock(p) PROVE HoldsFront'
  BY <1>4 DEF PushUnlock, Unlock
<1>5. ASSUME NEW p \in Producers, PushSignal(p) PROVE HoldsFront'
  BY <1>5 DEF PushSignal, SemSignal
<1>6. ASSUME NEW c \in Consumers, PopWait(c) PROVE HoldsFront'
  BY <1>6 DEF PopWait, SemWait
<1>7. ASSUME NEW c \in Consumers, PopLock(c) PROVE HoldsFront'
  BY <1>7 DEF PopLock, Lock
<1>8. ASSUME NEW c \in Consumers, PopFront(c) PROVE HoldsFront'
  BY <1>8, OwedFront DEF PopFront
<1>9. ASSUME NEW c \in Consumers, PopErase(c) PROVE HoldsFront'
  BY <1>9 DEF PopErase, MutualExclusion, Critical
<1>10. ASSUME NEW c \in Consumers, PopUnlock(c) PROVE HoldsFront'
  BY <1>10 DEF PopUnlock, Unlock
<1>11. ASSUME NEW c \in Consumers, Consume(c) PROVE HoldsFront'
  BY <1>11 DEF Consume
<1>12. CASE UNCHANGED vars
  BY <1>12 DEF vars
<1> QED
  BY <1>1, <1>2, <1>3, <1>4, <1>5, <1>6, <1>7, <1>8, <1>9, <1>10, <1>11, <1>12
  DEF Next, Push, ConsumeForever

-----------------------------------------------------------------------------
(* The inductive invariant and what follows from it.                       *)
LEMMA InvInit == Init => IInv
<1> SUFFICES ASSUME Init PROVE IInv
  OBVIOUS
<1> USE QueueAssumption DEF Init, Threads
<1>1. TypeOK
  BY DEF TypeOK, ProducerPC, ConsumerPC
<1>2. HandsMatchPC /\ PushedOnce /\ HoldsFront
  BY DEF HandsMatchPC, PushedOnce, HoldsFront
<1>3. MutualExclusion
  BY DEF MutualExclusion, Critical
<1>4. TokensMatchQueue
  <2>1. Owed = {}
    BY DEF Owed
  <2> QED
    BY <2>1, FS_EmptySet DEF TokensMatchQueue
<1> QED
  BY <1>1, <1>2, <1>3, <1>4 DEF IInv

LEMMA InvStep == IInv /\ [Next]_vars => IInv'
  BY TypeStep, HandsStep, PushedOnceStep, MutexStep, TokensStep, HoldsFrontStep
  DEF IInv

LEMMA InvHolds == Spec => []IInv
  BY InvInit, InvStep, PTL DEF Spec

(* Every variable of SemQueue has its type.                                *)
THEOREM TypeCorrect == Spec => []TypeOK
  BY InvHolds, PTL DEF IInv

(* Only the owner of Queue::mutex reads or writes the std::queue.          *)
THEOREM MutexCorrect == Spec => []MutualExclusion
  BY InvHolds, PTL DEF IInv

(* The semaphore counts the elements, but for the operations in progress.  *)
THEOREM TokensCorrect == Spec => []TokensMatchQueue
  BY InvHolds, PTL DEF IInv

(* pop never reads the front of an empty queue, and erases what it returns. *)
THEOREM FrontCorrect == Spec => []FrontIsDefined
<1>1. IInv => FrontIsDefined
  BY OwedFront DEF IInv, FrontIsDefined, HoldsFront
<1> QED
  BY <1>1, InvHolds, PTL

(* No element is left in the queue when every consumer sleeps.             *)
THEOREM NoLostWakeup == Spec => []NoStrandedItem
<1>1. IInv => NoStrandedItem
  <2> SUFFICES ASSUME IInv, canConsume = 0,
                      \A p \in Producers : pc[p] = "idle",
                      \A c \in Consumers : pc[c] \in {"popWait", "stopped"}
               PROVE  queue = <<>>
    BY DEF NoStrandedItem
  <2>1. Owed = {}
    BY DEF Owed, Threads
  <2>2. Len(queue) = 0
    BY <2>1, FS_EmptySet DEF IInv, TokensMatchQueue
  <2> QED
    BY <2>2, EmptySeq DEF IInv, TypeOK
<1> QED
  BY <1>1, InvHolds, PTL

-----------------------------------------------------------------------------
(* One consumer leaves per stop condition.  Every element is in one place: *)
(* fresh, in one thread's hand, or once in the queue; only the consumer    *)
(* that is about to erase the front has what is still in the queue.        *)
InOnePlace ==
  /\ \A i \in 1..Len(queue) :
       /\ queue[i] \notin fresh
       /\ \A p \in Producers : hand[p] # queue[i]
       /\ \A j \in 1..Len(queue) : queue[i] = queue[j] => i = j
  /\ \A c \in Consumers :
       /\ hand[c] \notin fresh
       /\ \A t \in Threads : hand[c] = hand[t] => c = t \/ hand[c] = NoItem
       /\ pc[c] \in {"popUnlock", "consume"} =>
            \A i \in 1..Len(queue) : queue[i] # hand[c]

StopsMatch == IsFiniteSet(Used \cap StopItems) /\ OneStopPerItem

LEMMA InOnePlaceStep == IInv /\ InOnePlace /\ [Next]_vars => InOnePlace'
<1> SUFFICES ASSUME IInv, InOnePlace, [Next]_vars PROVE InOnePlace'
  OBVIOUS
<1> USE QueueAssumption DEF IInv, TypeOK, InOnePlace, HandsMatchPC, Threads, Step
<1>1. ASSUME NEW p \in Producers, Produce(p) PROVE InOnePlace'
  BY <1>1 DEF Produce
<1>2. ASSUME NEW p \in Producers, PushLock(p) PROVE InOnePlace'
  BY <1>2 DEF PushLock
<1>3. ASSUME NEW p \in Producers, PushItem(p) PROVE InOnePlace'
  <2>1. /\ hand[p] \in Items /\ Len(queue') = Len(queue) + 1
        /\ queue'[Len(queue')] = hand[p]
        /\ \A i \in 1..Len(queue) : queue'[i] = queue[i]
    BY <1>3, AppendProperties DEF PushItem
  <2> QED
    BY <1>3, <2>1 DEF PushItem, PushedOnce
<1>4. ASSUME NEW p \in Producers, PushUnlock(p) PROVE InOnePlace'
  BY <1>4 DEF PushUnlock
<1>5. ASSUME NEW p \in Producers, PushSignal(p) PROVE InOnePlace'
  BY <1>5 DEF PushSignal
<1>6. ASSUME NEW c \in Consumers, PopWait(c) PROVE InOnePlace'
  BY <1>6 DEF PopWait
<1>7. ASSUME NEW c \in Consumers, PopLock(c) PROVE InOnePlace'
  BY <1>7 DEF PopLock
<1>8. ASSUME NEW c \in Consumers, PopFront(c) PROVE InOnePlace'
  <2>1. queue # <<>> /\ hand'[c] = queue[1] /\ 1 \in 1..Len(queue)
    BY <1>8, OwedFront DEF PopFront
  <2>2. \A d \in Consumers \ {c} : hand[d] # queue[1]
    BY <1>8, <2>1 DEF PopFront, MutualExclusion, Critical
  <2> QED
    BY <1>8, <2>1, <2>2 DEF PopFront
<1>9. ASSUME NEW c \in Consumers, PopErase(c) PROVE InOnePlace'
  <2>1. queue # <<>> /\ hand[c] = queue[1]
    BY <1>9, OwedFront DEF PopErase, HoldsFront
  <2>2. Len(queue') = Len(queue) - 1 /\ \A i \in 1..Len(queue') : queue'[i] = queue[i + 1]
    BY <1>9, <2>1, HeadTailProperties DEF PopErase
  <2> QED
    BY <1>9, <2>1, <2>2 DEF PopErase
<1>10. ASSUME NEW c \in Consumers, PopUnlock(c) PROVE InOnePlace'
  BY <1>10 DEF PopUnlock
<1>11. ASSUME NEW c \in Consumers, Consume(c) PROVE InOnePlace'
  BY <1>11 DEF Consume
<1>12. CASE UNCHANGED vars
  BY <1>12 DEF vars
<1> QED
  BY <1>1, <1>2, <1>3, <1>4, <1>5, <1>6, <1>7, <1>8, <1>9, <1>10, <1>11, <1>12
  DEF Next, Push, ConsumeForever

(* What is neither fresh nor in a hand nor queued has been consumed.       *)
LEMMA UsedIs ==
  ASSUME TypeOK
  PROVE  Used = {x \in Items : /\ x \notin fresh
                               /\ \A t \in Threads : hand[t] # x
                               /\ \A i \in 1..Len(queue) : queue[i] # x}
<1>1. Range(hand) = {hand[t] : t \in Threads}
  BY DEF TypeOK, Range
<1>2. Range(queue) = {queue[i] : i \in 1..Len(queue)}
  BY RangeEquality DEF TypeOK
<1> QED
  BY <1>1, <1>2 DEF Used

(* A step that takes no element from a consumer's hand consumes none.      *)
LEMMA SameStops ==
  ASSUME TypeOK, TypeOK', StopsMatch, Stopped' = Stopped,
         \A x \in Items :
           (x \in fresh \/ (\E t \in Threads : hand[t] = x)
                       \/ (\E i \in 1..Len(queue) : queue[i] = x))
           <=> (x \in fresh' \/ (\E t \in Threads : hand'[t] = x)
                             \/ (\E i \in 1..Len(queue') : queue'[i] = x))
  PROVE  StopsMatch'
<1>1. /\ Range(hand') = {hand'[t] : t \in Threads}
      /\ Range(queue') = {queue'[i] : i \in 1..Len(queue')}
  BY RangeEquality DEF TypeOK, Range
<1>2. Used' = Used
  BY <1>1, UsedIs DEF Used
<1> QED
  BY <1>2 DEF StopsMatch, OneStopPerItem, Stopped

LEMMA StopsStep ==
  IInv /\ InOnePlace /\ StopsMatch /\ [Next]_vars => StopsMatch'
<1> SUFFICES ASSUME IInv, InOnePlace, StopsMatch, [Next]_vars PROVE StopsMatch'
  OBVIOUS
<1>0. TypeOK /\ TypeOK'
  BY TypeStep DEF IInv
<1> USE QueueAssumption DEF Threads, Step
<1>1. ASSUME NEW p \in Producers, Produce(p) PROVE StopsMatch'
  <2>1. hand[p] = NoItem /\ Stopped' = Stopped
    BY <1>0, <1>1 DEF Produce, IInv, HandsMatchPC, TypeOK, Stopped
  <2> QED
    BY <1>0, <1>1, <2>1, SameStops DEF Produce, TypeOK
<1>2. ASSUME NEW p \in Producers, PushLock(p) PROVE StopsMatch'
  BY <1>0, <1>2, SameStops DEF PushLock, TypeOK, Stopped
<1>3. ASSUME NEW p \in Producers, PushItem(p) PROVE StopsMatch'
  <2>1. /\ hand[p] \in Items /\ Len(queue') = Len(queue) + 1
        /\ queue'[Len(queue')] = hand[p]
        /\ \A i \in 1..Len(queue) : queue'[i] = queue[i]
    BY <1>3, AppendProperties DEF PushItem, IInv, TypeOK, HandsMatchPC
  <2>2. Stopped' = Stopped
    BY <1>0, <1>3 DEF PushItem, TypeOK, Stopped
  <2>3. \A x \in Items :
          (\E i \in 1..Len(queue') : queue'[i] = x)
          <=> x = hand[p] \/ \E i \in 1..Len(queue) : queue[i] = x
    BY <1>0, <2>1 DEF TypeOK
  <2>4. \A x \in Items :
          (\E t \in Threads : hand[t] = x)
          <=> x = hand[p] \/ \E t \in Threads : hand'[t] = x
    BY <1>0, <1>3 DEF PushItem, TypeOK
  <2> QED
    BY <1>0, <1>3, <2>2, <2>3, <2>4, SameStops DEF PushItem
<1>4. ASSUME NEW p \in Producers, PushUnlock(p) PROVE StopsMatch'
  BY <1>0, <1>4, SameStops DEF PushUnlock, TypeOK, Stopped
<1>5. ASSUME NEW p \in Producers, PushSignal(p) PROVE StopsMatch'
  BY <1>0, <1>5, SameStops DEF PushSignal, TypeOK, Stopped
<1>6. ASSUME NEW c \in Consumers, PopWait(c) PROVE StopsMatch'
  BY <1>0, <1>6, SameStops DEF PopWait, TypeOK, Stopped
<1>7. ASSUME NEW c \in Consumers, PopLock(c) PROVE StopsMatch'
  BY <1>0, <1>7, SameStops DEF PopLock, TypeOK, Stopped
<1>8. ASSUME NEW c \in Consumers, PopFront(c) PROVE StopsMatch'
  <2>1. /\ hand[c] = NoItem /\ Stopped' = Stopped
        /\ queue # <<>> /\ hand' = [hand EXCEPT ![c] = queue[1]]
    <3>1. queue # <<>>
      BY <1>8, OwedFront DEF PopFront, IInv
    <3>2. hand[c] = NoItem /\ Stopped' = Stopped
      BY <1>8 DEF PopFront, IInv, HandsMatchPC, TypeOK, Stopped
    <3> QED
      <4>1. hand' = [hand EXCEPT ![c] = Head(queue)]
        BY <1>8, <3>1 DEF PopFront
      <4>2. Head(queue) = queue[1]
        BY <1>0, <3>1 DEF TypeOK
      <4> QED
        BY <3>1, <3>2, <4>1, <4>2
  <2>2. 1 \in 1..Len(queue)
    BY <1>0, <2>1 DEF TypeOK
  <2>3. \A x \in Items : (\E t \in Threads : hand'[t] = x)
                       <=> x = queue[1] \/ \E t \in Threads : hand[t] = x
    BY <1>0, <2>1 DEF TypeOK
  <2> QED
    BY <1>0, <1>8, <2>1, <2>2, <2>3, SameStops DEF PopFront
<1>9. ASSUME NEW c \in Consumers, PopErase(c) PROVE StopsMatch'
  <2>1. queue # <<>> /\ hand[c] = queue[1] /\ Stopped' = Stopped
    BY <1>9, OwedFront DEF PopErase, IInv, HoldsFront, TypeOK, Stopped
  <2>2. Len(queue') = Len(queue) - 1 /\ \A i \in 1..Len(queue') : queue'[i] = queue[i + 1]
    BY <1>0, <1>9, <2>1, HeadTailProperties DEF PopErase, TypeOK
  <2>3. \A i \in 1..Len(queue) : i = 1 \/ (i - 1 \in 1..Len(queue') /\ queue'[i - 1] = queue[i])
    BY <1>0, <2>2 DEF TypeOK
  <2>4. \A i \in 1..Len(queue') : i + 1 \in 1..Len(queue)
    BY <1>0, <2>2 DEF TypeOK
  <2>5. \A x \in Items :
          x = hand[c] \/ ((\E i \in 1..Len(queue) : queue[i] = x)
                          <=> \E i \in 1..Len(queue') : queue'[i] = x)
    BY <2>1, <2>2, <2>3, <2>4
  <2> QED
    BY <1>0, <1>9, <2>1, <2>5, SameStops DEF PopErase
<1>10. ASSUME NEW c \in Consumers, PopUnlock(c) PROVE StopsMatch'
  BY <1>0, <1>10, SameStops DEF PopUnlock, TypeOK, Stopped
<1>11. ASSUME NEW c \in Consumers, Consume(c) PROVE StopsMatch'
  <2>1. /\ hand[c] \in Items /\ hand[c] \notin fresh
        /\ \A t \in Threads : hand[t] = hand[c] => t = c
        /\ \A i \in 1..Len(queue) : queue[i] # hand[c]
    BY <1>11 DEF Consume, IInv, HandsMatchPC, InOnePlace
  <2>2. \A x \in Items : (\E t \in Threads : hand[t] = x)
                       <=> x = hand[c] \/ \E t \in Threads : hand'[t] = x
    BY <1>0, <1>11 DEF Consume, TypeOK
  <2>3. /\ Range(hand') = {hand'[t] : t \in Threads}
        /\ Range(queue') = {queue[i] : i \in 1..Len(queue)}
    BY <1>0, <1>11, RangeEquality DEF Consume, TypeOK, Range
  <2>4. \A t \in Threads : hand'[t] # hand[c]
    BY <1>0, <1>11, <2>1 DEF Consume, TypeOK
  <2>5. Used' = Used \cup {hand[c]} /\ hand[c] \notin Used
    <3>1. Used' = {x \in Items : /\ x \notin fresh
                                 /\ \A t \in Threads : hand'[t] # x
                                 /\ \A i \in 1..Len(queue) : queue[i] # x}
      BY <1>11, <2>3 DEF Consume, Used
    <3>2. c \in Threads
      OBVIOUS
    <3> HIDE DEF Threads
    <3> QED
      BY <1>0, <2>1, <2>2, <2>4, <3>1, <3>2, UsedIs
  <2>6. CASE hand[c] \in StopItems
    <3>1. Stopped' = Stopped \cup {c} /\ c \notin Stopped
      BY <1>0, <1>11, <2>6 DEF Consume, TypeOK, Stopped
    <3>2. (Used \cap StopItems)' = (Used \cap StopItems) \cup {hand[c]}
      BY <2>5, <2>6
    <3>3. IsFiniteSet(Stopped)
      BY FS_Subset DEF Stopped
    <3>4. /\ IsFiniteSet((Used \cap StopItems)')
          /\ Cardinality((Used \cap StopItems)') = Cardinality(Used \cap StopItems) + 1
      <4>1. IsFiniteSet(Used \cap StopItems) /\ hand[c] \notin Used \cap StopItems
        BY <2>5 DEF StopsMatch
      <4> QED
        BY <3>2, <4>1, FS_AddElement
    <3>5. Cardinality(Stopped') = Cardinality(Stopped) + 1
      BY <3>1, <3>3, FS_AddElement
    <3> QED
      BY <3>4, <3>5 DEF StopsMatch, OneStopPerItem, Stopped
  <2>7. CASE hand[c] \notin StopItems
    <3>1. Stopped' = Stopped
      BY <1>0, <1>11, <2>7 DEF Consume, TypeOK, Stopped
    <3>2. (Used \cap StopItems)' = Used \cap StopItems
      BY <2>5, <2>7
    <3> QED
      BY <3>1, <3>2 DEF StopsMatch, OneStopPerItem, Stopped
  <2> QED
    BY <2>6, <2>7
<1>12. CASE UNCHANGED vars
  BY <1>12 DEF vars, StopsMatch, OneStopPerItem, Used
<1> QED
  BY <1>1, <1>2, <1>3, <1>4, <1>5, <1>6, <1>7, <1>8, <1>9, <1>10, <1>11, <1>12
  DEF Next, Push, ConsumeForever

LEMMA StopsInit == Init => InOnePlace /\ StopsMatch
<1> SUFFICES ASSUME Init PROVE InOnePlace /\ StopsMatch
  OBVIOUS
<1> USE QueueAssumption DEF Init, Threads
<1>1. InOnePlace
  BY DEF InOnePlace
<1>2. Used \cap StopItems = {} /\ Stopped = {}
  BY DEF Used, Stopped
<1>3. StopsMatch
  BY <1>2, FS_EmptySet DEF StopsMatch, OneStopPerItem, Stopped
<1> QED
  BY <1>1, <1>3

(* As many consumers have left their loops as stop conditions were         *)
(* consumed: none is consumed twice, and none goes astray.                 *)
THEOREM StopsCorrect == Spec => []OneStopPerItem
<1>1. StopsMatch => OneStopPerItem
  BY DEF StopsMatch
<1> QED
  BY <1>1, StopsInit, InOnePlaceStep, StopsStep, InvHolds, PTL DEF Spec

-----------------------------------------------------------------------------
(* Refinement.                                                             *)
LEMMA RefinesInit == Init => FQ!Init
  BY QueueAssumption
  DEF Init, FQ!Init, Unpushed, Returned, Stopped, Threads

LEMMA RefinesStep == IInv /\ [Next]_vars => [FQ!Next]_(FQ!vars)
<1> SUFFICES ASSUME IInv, [Next]_vars PROVE FQ!Next \/ UNCHANGED FQ!vars
  OBVIOUS
<1> USE QueueAssumption DEF IInv, TypeOK, HandsMatchPC, Threads, Step
<1>1. ASSUME NEW p \in Producers, Produce(p) PROVE FQ!Next \/ UNCHANGED FQ!vars
  <2>1. UNCHANGED <<Unpushed, queue, Returned, Stopped>>
    BY <1>1 DEF Produce, Unpushed, Returned, Stopped
  <2> QED
    BY <2>1 DEF FQ!vars
<1>2. ASSUME NEW p \in Producers, PushLock(p) PROVE FQ!Next \/ UNCHANGED FQ!vars
  <2>1. UNCHANGED <<Unpushed, queue, Returned, Stopped>>
    BY <1>2 DEF PushLock, Lock, Unpushed, Returned, Stopped
  <2> QED
    BY <2>1 DEF FQ!vars
<1>3. ASSUME NEW p \in Producers, PushItem(p) PROVE FQ!Next \/ UNCHANGED FQ!vars
  <2>1. hand[p] \in Items /\ hand[p] \in Unpushed
    BY <1>3 DEF PushItem, HandsMatchPC, Unpushed
  <2>2. Unpushed' = Unpushed \ {hand[p]}
    BY <1>3, <2>1 DEF PushItem, PushedOnce, Unpushed
  <2>3. UNCHANGED <<Returned, Stopped>>
    BY <1>3 DEF PushItem, Returned, Stopped
  <2>4. FQ!Put(hand[p])
    BY <1>3, <2>1, <2>2, <2>3 DEF PushItem, FQ!Put
  <2> QED
    BY <2>1, <2>4 DEF FQ!Next
<1>4. ASSUME NEW p \in Producers, PushUnlock(p) PROVE FQ!Next \/ UNCHANGED FQ!vars
  <2>1. UNCHANGED <<Unpushed, queue, Returned, Stopped>>
    BY <1>4 DEF PushUnlock, Unlock, Unpushed, Returned, Stopped
  <2> QED
    BY <2>1 DEF FQ!vars
<1>5. ASSUME NEW p \in Producers, PushSignal(p) PROVE FQ!Next \/ UNCHANGED FQ!vars
  <2>1. UNCHANGED <<Unpushed, queue, Returned, Stopped>>
    BY <1>5 DEF PushSignal, SemSignal, Unpushed, Returned, Stopped
  <2> QED
    BY <2>1 DEF FQ!vars
<1>6. ASSUME NEW c \in Consumers, PopWait(c) PROVE FQ!Next \/ UNCHANGED FQ!vars
  <2>1. UNCHANGED <<Unpushed, queue, Returned, Stopped>>
    BY <1>6 DEF PopWait, SemWait, Unpushed, Returned, Stopped
  <2> QED
    BY <2>1 DEF FQ!vars
<1>7. ASSUME NEW c \in Consumers, PopLock(c) PROVE FQ!Next \/ UNCHANGED FQ!vars
  <2>1. UNCHANGED <<Unpushed, queue, Returned, Stopped>>
    BY <1>7 DEF PopLock, Lock, Unpushed, Returned, Stopped
  <2> QED
    BY <2>1 DEF FQ!vars
<1>8. ASSUME NEW c \in Consumers, PopFront(c) PROVE FQ!Next \/ UNCHANGED FQ!vars
  <2>1. UNCHANGED <<Unpushed, queue, Returned, Stopped>>
    BY <1>8 DEF PopFront, Unpushed, Returned, Stopped
  <2> QED
    BY <2>1 DEF FQ!vars
<1>9. ASSUME NEW c \in Consumers, PopErase(c) PROVE FQ!Next \/ UNCHANGED FQ!vars
  <2>1. queue # <<>> /\ hand[c] = Head(queue)
    BY <1>9, OwedFront DEF PopErase, HoldsFront
  <2>2. Returned[c] = NoItem /\ c \notin Stopped
    BY <1>9 DEF PopErase, Returned, Stopped
  <2>3. Returned' = [Returned EXCEPT ![c] = Head(queue)]
    BY <1>9, <2>1 DEF PopErase, Returned
  <2>4. UNCHANGED <<Unpushed, Stopped>>
    BY <1>9 DEF PopErase, Unpushed, Stopped
  <2>5. FQ!Get(c)
    BY <1>9, <2>1, <2>2, <2>3, <2>4 DEF PopErase, FQ!Get
  <2> QED
    BY <2>5 DEF FQ!Next
<1>10. ASSUME NEW c \in Consumers, PopUnlock(c) PROVE FQ!Next \/ UNCHANGED FQ!vars
  <2>1. UNCHANGED <<Unpushed, queue, Returned, Stopped>>
    BY <1>10 DEF PopUnlock, Unlock, Unpushed, Returned, Stopped
  <2> QED
    BY <2>1 DEF FQ!vars
<1>11. ASSUME NEW c \in Consumers, Consume(c) PROVE FQ!Next \/ UNCHANGED FQ!vars
  <2>1. hand[c] \in Items /\ Returned[c] = hand[c]
    BY <1>11 DEF Consume, HandsMatchPC, Returned
  <2>2. Returned' = [Returned EXCEPT ![c] = NoItem]
    BY <1>11 DEF Consume, Returned
  <2>3. Stopped' = IF hand[c] \in StopItems THEN Stopped \cup {c} ELSE Stopped
    BY <1>11 DEF Consume, Stopped
  <2>4. UNCHANGED <<Unpushed, queue>>
    BY <1>11 DEF Consume, Unpushed
  <2>5. FQ!Finish(c)
    BY <2>1, <2>2, <2>3, <2>4 DEF FQ!Finish
  <2> QED
    BY <2>5 DEF FQ!Next
<1>12. CASE UNCHANGED vars
  <2>1. UNCHANGED <<Unpushed, queue, Returned, Stopped>>
    BY <1>12 DEF vars, Unpushed, Returned, Stopped
  <2> QED
    BY <2>1 DEF FQ!vars
<1> QED
  BY <1>1, <1>2, <1>3, <1>4, <1>5, <1>6, <1>7, <1>8, <1>9, <1>10, <1>11, <1>12
  DEF Next, Push, ConsumeForever

(* Queue<DataType> with its locks and semaphore implements the atomic FIFO *)
(* with stop conditions that FifoQueue specifies.                          *)
THEOREM QueueImplementsFifo == Spec => ImplementsFifo
  BY RefinesInit, RefinesStep, InvHolds, PTL DEF Spec, ImplementsFifo, FQ!Spec
=============================================================================
