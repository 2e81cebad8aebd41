------------------------------ MODULE RunQueue ------------------------------
(***************************************************************************)
(* The doubly linked queue of mypthread.c and Queue.c with its pointers: a *)
(* queue is a head and a rear cell, which hold no thread, and the nodes    *)
(* between them.  An operation is a sequence of assignments that nothing   *)
(* interrupts (the queue lock is held), so it is one action, in which a    *)
(* later assignment reads what an earlier one has written.  The library    *)
(* moves a node from queue to queue; it never adds one that is in a queue  *)
(* and never removes from an empty queue, and so does Next.                *)
(***************************************************************************)
EXTENDS Integers, Sequences, FiniteSets, SequencesExt

CONSTANTS
  Queue,    \* the queues
  Node,     \* the nodes
  NULL,
  MaxTime   \* bound on the waiting times that are compared

head(q) == <<"head", q>>
rear(q) == <<"rear", q>>
Cell == Node \cup {head(q) : q \in Queue} \cup {rear(q) : q \in Queue}

ASSUME RunQueueAssumption ==
  /\ IsFiniteSet(Node) /\ MaxTime \in Nat
  /\ NULL \notin Cell
  /\ \A q \in Queue : head(q) \notin Node /\ rear(q) \notin Node

VARIABLES
  next, prev,    \* the pointers of the cells
  size,          \* queue->size
  waiting_time,  \* tcb->waiting_time of a node's thread
  answer         \* what the latest call returned

vars == <<next, prev, size, waiting_time, answer>>

---------------------------------------------------------------------------
(* What the pointers say. *)

(* Where k pointers lead to from a cell.                                      *)
Follow(pointer, from) ==
  LET Cells[k \in 0 .. Cardinality(Node) + 1] ==
        IF k = 0 THEN from
        ELSE LET c == Cells[k - 1] IN IF c \in Cell THEN pointer[c] ELSE NULL
  IN  Cells

(* The nodes met on the way to the other end.                                 *)
Walk(pointer, from) ==
  LET cells == Follow(pointer, from)
      met == {k \in 1 .. Cardinality(Node) + 1 : \A i \in 1 .. k : cells[i] \in Node}
  IN  [k \in 1 .. Cardinality(met) |-> cells[k]]

Contents(q) == Walk(next, head(q))

Free(n) == \A q \in Queue : ~Contains(Contents(q), n)

---------------------------------------------------------------------------
(* The operations. *)

(* initQueue() for every queue.  The pointers of a new node are not set: it   *)
(* may hold those of a freed one.                                             *)
initQueue ==
  /\ \E garbage \in {NULL} \cup {rear(q) : q \in Queue} :
       /\ next = [c \in Cell |-> IF c \in Node THEN garbage
                                 ELSE IF c[1] = "head" THEN rear(c[2]) ELSE NULL]
       /\ prev = [c \in Cell |-> IF c \in Node THEN garbage
                                 ELSE IF c[1] = "rear" THEN head(c[2]) ELSE NULL]
  /\ size = [q \in Queue |-> 0]

isEmpty(q) ==
  /\ answer' = (size[q] = 0)
  /\ UNCHANGED <<next, prev, size, waiting_time>>

(* The operation and its caller both count the node. *)
Grows_Twice(q) ==
  /\ size' = [size EXCEPT ![q] = @ + 2]
  /\ answer' = NULL
  /\ UNCHANGED waiting_time

Grows(q) ==
  /\ size' = [size EXCEPT ![q] = @ + 1]
  /\ answer' = NULL
  /\ UNCHANGED waiting_time

(* The old first node still points back to the head. *)
addFront_OneWay(q, n) ==
  /\ Free(n)
  /\ next' = [next EXCEPT ![n] = next[head(q)], ![head(q)] = n]
  /\ prev' = [prev EXCEPT ![n] = head(q)]
  /\ Grows(q)

addFront(q, n) ==
  /\ Free(n)
  /\ next' = [next EXCEPT ![n] = next[head(q)], ![head(q)] = n]
  /\ prev' = [prev EXCEPT ![next[head(q)]] = n, ![n] = head(q)]
  /\ Grows(q)

(* rear->prev is overwritten before it is read. *)
addBack_Swapped(q, n) ==
  /\ Free(n)
  /\ prev' = [prev EXCEPT ![rear(q)] = n, ![n] = n]
  /\ next' = [next EXCEPT ![n] = n]
  /\ Grows(q)

addBack(q, n) ==
  /\ Free(n)
  /\ prev' = [prev EXCEPT ![n] = prev[rear(q)], ![rear(q)] = n]
  /\ next' = [next EXCEPT ![n] = rear(q), ![prev[rear(q)]] = n]
  /\ Grows(q)

removeNode(q, n) ==
  /\ Contains(Contents(q), n)
  /\ next' = [next EXCEPT ![prev[n]] = next[n], ![n] = NULL]
  /\ prev' = [prev EXCEPT ![next[n]] = prev[n], ![n] = NULL]
  /\ size' = [size EXCEPT ![q] = @ - 1]
  /\ answer' = NULL
  /\ UNCHANGED waiting_time

insertBefore(q, n, pivot) ==
  /\ Free(n) /\ Contains(Contents(q), pivot)
  /\ prev' = [prev EXCEPT ![n] = prev[pivot], ![pivot] = n]
  /\ next' = [next EXCEPT ![n] = pivot, ![prev[pivot]] = n]
  /\ Grows(q)

(* The loop stops at the first node that has waited for less, or at the rear. *)
add_to_run_queue_waiting_time_based(q, n) ==
  LET less == SelectInSeq(Contents(q), LAMBDA s : waiting_time[n] > waiting_time[s])
      ptr == IF less = 0 THEN rear(q) ELSE Contents(q)[less]
  IN  /\ Free(n)
      /\ prev' = [prev EXCEPT ![n] = prev[ptr], ![ptr] = n]
      /\ next' = [next EXCEPT ![n] = ptr, ![prev[ptr]] = n]
      /\ Grows(q)

removeFront(q) ==
  /\ size[q] > 0
  /\ LET ret == next[head(q)]
     IN  /\ next' = [next EXCEPT ![head(q)] = next[ret], ![ret] = NULL]
         /\ prev' = [prev EXCEPT ![next[ret]] = head(q), ![ret] = NULL]
         /\ answer' = ret
  /\ size' = [size EXCEPT ![q] = @ - 1]
  /\ UNCHANGED waiting_time

removeBack(q) ==
  /\ size[q] > 0
  /\ LET ret == prev[rear(q)]
     IN  /\ prev' = [prev EXCEPT ![rear(q)] = prev[ret], ![ret] = NULL]
         /\ next' = [next EXCEPT ![prev[ret]] = rear(q), ![ret] = NULL]
         /\ answer' = ret
  /\ size' = [size EXCEPT ![q] = @ - 1]
  /\ UNCHANGED waiting_time

---------------------------------------------------------------------------

Init ==
  /\ initQueue
  /\ waiting_time \in [Node -> 0 .. MaxTime]
  /\ answer = NULL

Next ==
  \E q \in Queue :
    \/ isEmpty(q) \/ removeFront(q) \/ removeBack(q)
    \/ \E n \in Node :
         \/ addFront(q, n) \/ addBack(q, n) \/ removeNode(q, n)
         \/ add_to_run_queue_waiting_time_based(q, n)
         \/ \E pivot \in Node : insertBefore(q, n, pivot)

Spec == Init /\ [][Next]_vars

---------------------------------------------------------------------------
(* Properties. *)

(* The types of the variables; a queue counts no more nodes than there are.   *)
TypeOK ==
  /\ next \in [Cell -> Cell \cup {NULL}]
  /\ prev \in [Cell -> Cell \cup {NULL}]
  /\ size \in [Queue -> 0 .. Cardinality(Node)]
  /\ waiting_time \in [Node -> 0 .. MaxTime]
  /\ answer \in Node \cup {NULL} \cup BOOLEAN

(* Both ends reach each other over the same nodes, forward and backward: the  *)
(* library unlinks with prev, and searches and takes the front with next, and *)
(* a node that has been in one queue is put into another with its pointers.   *)
LinksAgree ==
  \A q \in Queue :
    LET nodes == Contents(q)
    IN  /\ Walk(prev, rear(q)) = Reverse(nodes)
        /\ Follow(next, head(q))[Len(nodes) + 1] = rear(q)
        /\ Follow(prev, rear(q))[Len(nodes) + 1] = head(q)

AsSequences == INSTANCE Queues WITH
  Nothing <- NULL, contents <- [q \in Queue |-> Contents(q)]

(* The pointers and the counter implement sequences of nodes.                 *)
ImplementsQueues == AsSequences!Spec
=============================================================================
