----------------------------- MODULE FifoQueue -----------------------------
(***************************************************************************)
(* What Queue<DataType> (prodcons/Queue.hpp) promises its users: an        *)
(* unbounded first-in first-out queue whose push and pop are atomic, with  *)
(* pop blocking on an empty queue, and the consumers of Consumer.hpp that  *)
(* leave when the element they took is the stop condition.                 *)
(*                                                                         *)
(* There are no locks, counters or program counters here: SemQueue models  *)
(* the implementation and is shown to implement this module.               *)
(***************************************************************************)
EXTENDS Sequences

CONSTANTS
  Consumers,   (* the threads that run consumeForever                      *)
  Items,       (* the elements that producers ever push, each at most once *)
  StopItems,   (* the elements that compare equal to the stop condition    *)
  NoItem       (* what a consumer holds between two elements               *)

VARIABLES
  fresh,       (* the elements not pushed yet                              *)
  fifo,        (* the contents of the queue, oldest first                  *)
  got,         (* got[c]: the element consumer c is working on             *)
  stopped      (* the consumers that left their loop                       *)

vars == <<fresh, fifo, got, stopped>>

Init ==
  /\ fresh = Items
  /\ fifo = <<>>
  /\ got = [c \in Consumers |-> NoItem]
  /\ stopped = {}

(* push returns: its element is at the tail.                               *)
Put(x) ==
  /\ x \in fresh
  /\ fresh' = fresh \ {x}
  /\ fifo' = Append(fifo, x)
  /\ UNCHANGED <<got, stopped>>

(* pop takes effect: the consumer gets the oldest element, and nobody else *)
(* ever does.                                                              *)
Get(c) ==
  /\ c \notin stopped
  /\ got[c] = NoItem
  /\ fifo # <<>>
  /\ got' = [got EXCEPT ![c] = Head(fifo)]
  /\ fifo' = Tail(fifo)
  /\ UNCHANGED <<fresh, stopped>>

(* The consumer is done with its element: it asks for another one, or it   *)
(* leaves when the element was the stop condition.                         *)
Finish(c) ==
  /\ got[c] # NoItem
  /\ got' = [got EXCEPT ![c] = NoItem]
  /\ stopped' = IF got[c] \in StopItems THEN stopped \cup {c} ELSE stopped
  /\ UNCHANGED <<fresh, fifo>>

Next ==
  \/ \E x \in Items : Put(x)
  \/ \E c \in Consumers : Get(c) \/ Finish(c)

Spec == Init /\ [][Next]_vars
=============================================================================
