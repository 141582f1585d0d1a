------------------------------ MODULE SemQueue ------------------------------
(***************************************************************************)
(* The blocking queue of prodcons/: Queue<DataType> built from a           *)
(* std::mutex, a counting Semaphore and a std::queue, with the threads     *)
(* that call it: producers (Producer::produce, HttpServer::                *)
(* handleClientConnection) and consumers (Consumer::consumeForever).       *)
(*                                                                         *)
(* One action per statement of push and pop that another thread can        *)
(* observe.  The element's type is abstract: an element is a model value,  *)
(* and StopItems are those for which `data == stopCondition' holds.        *)
(***************************************************************************)
EXTENDS Integers, Sequences, FiniteSets, Functions

CONSTANTS
  Producers,   (* threads that push                                        *)
  Consumers,   (* threads that run consumeForever                          *)
  Items,       (* elements pushed over the run, each once: bounds the run  *)
  StopItems,   (* elements equal to the consumers' stopCondition           *)
  NoItem,      (* no element in a thread's hand                            *)
  NoThread     (* the mutex is free                                        *)

ASSUME QueueAssumption ==
  /\ IsFiniteSet(Producers)
  /\ IsFiniteSet(Consumers)
  /\ Producers \cap Consumers = {}
  /\ StopItems \subseteq Items
  /\ NoItem \notin Items
  /\ NoThread \notin Producers \cup Consumers

VARIABLES
  fresh,       (* elements no producer has called push with yet            *)
  mutex,       (* Queue::mutex: its owner                                  *)
  canConsume,  (* Queue::canConsume: the semaphore's value                 *)
  queue,       (* Queue::queue                                             *)
  hand,        (* hand[t]: push's argument, pop's result                   *)
  pc           (* pc[t]: the statement thread t executes next              *)

vars == <<fresh, mutex, canConsume, queue, hand, pc>>

Threads == Producers \cup Consumers

ProducerPC == {"idle", "pushLock", "pushItem", "pushUnlock", "pushSignal"}
ConsumerPC == {"popWait", "popLock", "popFront", "popErase", "popUnlock",
               "consume", "stopped"}

Init ==
  /\ fresh = Items
  /\ mutex = NoThread
  /\ canConsume = 0
  /\ queue = <<>>
  /\ hand = [t \in Threads |-> NoItem]
  /\ pc = [t \in Threads |-> IF t \in Producers THEN "idle" ELSE "popWait"]

-----------------------------------------------------------------------------
(* Thread t moves from one statement to the next.                          *)
Step(t, from, to) == pc[t] = from /\ pc' = [pc EXCEPT ![t] = to]

(* std::mutex::lock and unlock.                                            *)
Lock(t) == mutex = NoThread /\ mutex' = t
Unlock  == mutex' = NoThread

(* Mutant of SemWait: it does not block.                                   *)
SemTryWait == canConsume' = canConsume - 1

(* Semaphore::wait and signal (sem_wait, sem_post).                        *)
SemWait   == canConsume > 0 /\ canConsume' = canConsume - 1
SemSignal == canConsume' = canConsume + 1

-----------------------------------------------------------------------------
(* Producer::produce: push is called with an element.                      *)
Produce(p) ==
  /\ Step(p, "idle", "pushLock")
  /\ \E x \in fresh : fresh' = fresh \ {x} /\ hand' = [hand EXCEPT ![p] = x]
  /\ UNCHANGED <<mutex, canConsume, queue>>

PushLock(p) ==
  /\ Step(p, "pushLock", "pushItem")
  /\ Lock(p)
  /\ UNCHANGED <<fresh, canConsume, queue, hand>>

PushItem(p) ==
  /\ Step(p, "pushItem", "pushUnlock")
  /\ queue' = Append(queue, hand[p])
  /\ hand' = [hand EXCEPT ![p] = NoItem]
  /\ UNCHANGED <<fresh, mutex, canConsume>>

PushUnlock(p) ==
  /\ Step(p, "pushUnlock", "pushSignal")
  /\ Unlock
  /\ UNCHANGED <<fresh, canConsume, queue, hand>>

(* Mutant of PushSignal: the call of signal is forgotten.                  *)
PushNoSignal(p) ==
  /\ Step(p, "pushSignal", "idle")
  /\ UNCHANGED <<fresh, mutex, canConsume, queue, hand>>

PushSignal(p) ==
  /\ Step(p, "pushSignal", "idle")
  /\ SemSignal
  /\ UNCHANGED <<fresh, mutex, queue, hand>>

-----------------------------------------------------------------------------
(* Mutant of PopWait: the semaphore is tested and not decremented.         *)
PopPeek(c) ==
  /\ Step(c, "popWait", "popLock")
  /\ canConsume > 0
  /\ UNCHANGED <<fresh, mutex, canConsume, queue, hand>>

PopWait(c) ==
  /\ Step(c, "popWait", "popLock")
  /\ SemWait
  /\ UNCHANGED <<fresh, mutex, queue, hand>>

(* Mutant of PopLock: the queue is used without the mutex.                 *)
PopNoLock(c) ==
  /\ Step(c, "popLock", "popFront")
  /\ UNCHANGED <<fresh, mutex, canConsume, queue, hand>>

PopLock(c) ==
  /\ Step(c, "popLock", "popFront")
  /\ Lock(c)
  /\ UNCHANGED <<fresh, canConsume, queue, hand>>

(* queue.front(): on an empty std::queue the value read is undefined.      *)
PopFront(c) ==
  /\ Step(c, "popFront", "popErase")
  /\ \E x \in IF queue = <<>> THEN Items ELSE {Head(queue)} :
       hand' = [hand EXCEPT ![c] = x]
  /\ UNCHANGED <<fresh, mutex, canConsume, queue>>

(* Mutant of PopErase: front() is returned and stays in the queue.         *)
PopKeep(c) ==
  /\ Step(c, "popErase", "popUnlock")
  /\ UNCHANGED <<fresh, mutex, canConsume, queue, hand>>

(* queue.pop(): undefined on an empty queue too; here it then does nothing. *)
PopErase(c) ==
  /\ Step(c, "popErase", "popUnlock")
  /\ queue' = IF queue = <<>> THEN queue ELSE Tail(queue)
  /\ UNCHANGED <<fresh, mutex, canConsume, hand>>

PopUnlock(c) ==
  /\ Step(c, "popUnlock", "consume")
  /\ Unlock
  /\ UNCHANGED <<fresh, canConsume, queue, hand>>

(* The rest of consumeForever's loop body: leave on the stop condition,    *)
(* else consume(data) and go round.                                        *)
Consume(c) ==
  /\ IF hand[c] \in StopItems
       THEN Step(c, "consume", "stopped")
       ELSE Step(c, "consume", "popWait")
  /\ hand' = [hand EXCEPT ![c] = NoItem]
  /\ UNCHANGED <<fresh, mutex, canConsume, queue>>

-----------------------------------------------------------------------------
Push(p) == PushLock(p) \/ PushItem(p) \/ PushUnlock(p) \/ PushSignal(p)

ConsumeForever(c) ==
  \/ PopWait(c) \/ PopLock(c) \/ PopFront(c) \/ PopErase(c) \/ PopUnlock(c)
  \/ Consume(c)

Next ==
  \/ \E p \in Producers : Produce(p) \/ Push(p)
  \/ \E c \in Consumers : ConsumeForever(c)

Spec == Init /\ [][Next]_vars

(* A thread that can run does; nobody has to produce.  Nothing in the code *)
(* makes sem_wait or lock fair among threads, so only weak fairness is     *)
(* assumed.                                                                *)
FairSpec ==
  /\ Spec
  /\ \A p \in Producers : WF_vars(Push(p))
  /\ \A c \in Consumers : WF_vars(ConsumeForever(c))

-----------------------------------------------------------------------------
(* Every variable has its type.                                            *)
TypeOK ==
  /\ fresh \subseteq Items
  /\ mutex \in Threads \cup {NoThread}
  /\ canConsume \in Nat
  /\ queue \in Seq(Items)
  /\ hand \in [Threads -> Items \cup {NoItem}]
  /\ pc \in [Threads -> ProducerPC \cup ConsumerPC]
  /\ \A p \in Producers : pc[p] \in ProducerPC
  /\ \A c \in Consumers : pc[c] \in ConsumerPC

(* The statements between lock() and unlock().                             *)
Critical == {"pushItem", "pushUnlock", "popFront", "popErase", "popUnlock"}

(* "All read or write operations are mutually exclusive" (Queue.hpp): the  *)
(* std::queue is touched by the owner of the mutex only, so by one thread  *)
(* at a time.                                                              *)
MutualExclusion == \A t \in Threads : pc[t] \in Critical <=> mutex = t

(* Threads between the two halves of an operation: producers that have     *)
(* enqueued and not signalled, consumers that were let in and have not     *)
(* dequeued.                                                               *)
Owed ==
  {t \in Threads : pc[t] \in {"pushUnlock", "pushSignal",
                              "popLock", "popFront", "popErase"}}

(* The semaphore never promises an element that is not there, and never    *)
(* forgets one: its value and the elements that operations in progress     *)
(* account for are exactly the elements in the queue.                      *)
TokensMatchQueue == Len(queue) = canConsume + Cardinality(Owed)

(* pop() never calls front() or pop() on an empty std::queue, and the      *)
(* element it removes is the one it returns.                               *)
FrontIsDefined ==
  \A c \in Consumers :
    /\ pc[c] \in {"popFront", "popErase"} => queue # <<>>
    /\ pc[c] = "popErase" => hand[c] = Head(queue)

(* No lost wakeup: when every producer has returned and every consumer     *)
(* that has not left is blocked in sem_wait, no element is left behind.    *)
NoStrandedItem ==
  /\ canConsume = 0
  /\ \A p \in Producers : pc[p] = "idle"
  /\ \A c \in Consumers : pc[c] \in {"popWait", "stopped"}
  => queue = <<>>

(* The stop condition stops exactly one consumer per element pushed with   *)
(* that value: none is consumed twice and none is lost.                    *)
Used == Items \ (fresh \cup Range(hand) \cup Range(queue))
OneStopPerItem ==
  Cardinality({c \in Consumers : pc[c] = "stopped"}) =
    Cardinality(Used \cap StopItems)

-----------------------------------------------------------------------------
(* A queued element is in the end popped, unless all consumers have left.  *)
QueuedIsPopped ==
  \A x \in Items :
    x \in Range(queue) ~>
      \/ \E c \in Consumers : hand[c] = x
      \/ \A c \in Consumers : pc[c] = "stopped"

(* SemQueue implements FifoQueue.  push takes effect at queue.push and pop *)
(* at queue.pop: until then its element still heads the queue.             *)
Unpushed == {x \in Items : x \in fresh \/ \E p \in Producers : hand[p] = x}
Returned == [c \in Consumers |-> IF pc[c] = "popErase" THEN NoItem ELSE hand[c]]
Stopped  == {c \in Consumers : pc[c] = "stopped"}

FQ == INSTANCE FifoQueue
        WITH fresh <- Unpushed, fifo <- queue, got <- Returned,
             stopped <- Stopped

(* The queue is linearizable: every step is one atomic FIFO operation or   *)
(* invisible to its users.                                                 *)
ImplementsFifo == FQ!Spec
=============================================================================
