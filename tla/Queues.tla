------------------------------- MODULE Queues -------------------------------
(***************************************************************************)
(* What a run queue promises: it is a sequence of nodes, and a node is in  *)
(* one queue at a time.  This is what Mlfq and Schedulers take it to be.   *)
(***************************************************************************)
EXTENDS Integers, SequencesExt

CONSTANTS
  Queue, Node,
  Nothing       \* the answer of a call that returns no node

VARIABLES
  contents,     \* the sequence of nodes of each queue
  waiting_time, \* the time by which the sorted queue is ordered
  answer        \* what the latest call returned

Queued(n) == \E q \in Queue : Contains(contents[q], n)

Becomes(q, seq) == contents' = [contents EXCEPT ![q] = seq] /\ UNCHANGED waiting_time

AddFront(q, n) == ~Queued(n) /\ Becomes(q, <<n>> \o contents[q]) /\ answer' = Nothing

AddBack(q, n) == ~Queued(n) /\ Becomes(q, Append(contents[q], n)) /\ answer' = Nothing

RemoveNode(q, n) ==
  /\ \E i \in 1 .. Len(contents[q]) :
       contents[q][i] = n /\ Becomes(q, RemoveAt(contents[q], i))
  /\ answer' = Nothing

InsertBefore(q, n, pivot) ==
  /\ ~Queued(n)
  /\ \E i \in 1 .. Len(contents[q]) :
       contents[q][i] = pivot /\ Becomes(q, InsertAt(contents[q], i, n))
  /\ answer' = Nothing

(* Before the first node that has waited for less, or at the end.             *)
InsertByTime(q, n) ==
  LET i == SelectInSeq(contents[q], LAMBDA s : waiting_time[n] > waiting_time[s])
  IN  /\ ~Queued(n)
      /\ Becomes(q, InsertAt(contents[q], IF i = 0 THEN Len(contents[q]) + 1 ELSE i, n))
      /\ answer' = Nothing

RemoveFront(q) ==
  /\ contents[q] # << >>
  /\ Becomes(q, Tail(contents[q])) /\ answer' = Head(contents[q])

RemoveBack(q) ==
  /\ contents[q] # << >>
  /\ Becomes(q, Front(contents[q])) /\ answer' = Last(contents[q])

IsEmpty(q) ==
  /\ answer' = (contents[q] = << >>)
  /\ UNCHANGED <<contents, waiting_time>>

Init ==
  /\ contents = [q \in Queue |-> << >>]
  /\ waiting_time \in [Node -> Nat]
  /\ answer = Nothing

Next ==
  \E q \in Queue :
    \/ RemoveFront(q) \/ RemoveBack(q) \/ IsEmpty(q)
    \/ \E n \in Node :
         \/ AddFront(q, n) \/ AddBack(q, n) \/ RemoveNode(q, n) \/ InsertByTime(q, n)
         \/ \E pivot \in Node : InsertBefore(q, n, pivot)

Spec == Init /\ [][Next]_<<contents, waiting_time, answer>>
=============================================================================
