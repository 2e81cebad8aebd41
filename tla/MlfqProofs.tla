---------------------------- MODULE MlfqProofs ----------------------------
(***************************************************************************)
(* Proofs about Mlfq for any number of threads, any priorities and any     *)
(* program (any set of joins and exits).  The steps of its scheduler that  *)
(* the other schedulers take in a different way are proved about in a form *)
(* that covers them all.                                                   *)
(***************************************************************************)
EXTENDS Mlfq, FiniteSetTheorems, WellFoundedInduction, TLAPS

(* Only a thread between its call of join and its scheduling is marked.       *)
BlockedIsCurrent ==
  \A t \in Tid : yield_purpose[t] = Block =>
    \/ Executing(t) /\ pc[t] = "join_yield"
    \/ phase = "handle" /\ ptr = t

(* In the scheduler, ptr is the thread whose stack it runs on; until it is    *)
(* handled it is in no run queue, and in the join list only if it blocks.     *)
PtrTakenOff ==
  /\ phase \in {"handle", "dispatch"} => ptr = cpu
  /\ phase = "handle" =>
       /\ ~InRunQueue(ptr)
       /\ Waiting(ptr) => yield_purpose[ptr] = Block
       /\ ptr \notin exit_thread_list

(* The tids in use are below thread_number; a thread being created, which is  *)
(* the last of them, is nowhere yet.                                          *)
Known(t) ==
  /\ t < thread_number
  /\ pc[Main] = "create_add" => t # thread_number - 1

OnlyKnown ==
  /\ \A t \in Tid : InRunQueue(t) \/ Waiting(t) \/ t \in exit_thread_list => Known(t)
  /\ phase = "handle" => Known(ptr)
  /\ pc[Main] = "create_add" => thread_number > 0

ExitedNotWaiting == \A t \in exit_thread_list : ~Waiting(t)

(* The inductive invariant. *)
IInv ==
  /\ TypeOK
  /\ CurrentIsExecuting
  /\ NoDuplicates
  /\ ExitedAreGone
  /\ run_queue[3] = << >>
  /\ BlockedIsCurrent
  /\ PtrTakenOff
  /\ OnlyKnown
  /\ ExitedNotWaiting
---------------------------------------------------------------------------
(* Lemmas: what the operations on the lists do to their members. *)

RunQueueType == run_queue \in [1 .. 3 -> Seq(Tid)]

(* Appending a thread adds it as a member and leaves every head as it was.    *)
LEMMA AddMember ==
  ASSUME RunQueueType, NEW num \in 1 .. 3, NEW t \in Tid,
         run_queue' = add_to_run_queue(num, t)
  PROVE  /\ RunQueueType'
         /\ run_queue'[3] = run_queue[3]
         /\ \A s \in Tid : InRunQueue(s)' <=> InRunQueue(s) \/ s = t
         /\ \A k \in 1 .. 3 : run_queue[k] # << >> =>
              run_queue'[k] # << >> /\ Head(run_queue'[k]) = Head(run_queue[k])
         /\ UniqueInRunQueues /\ ~InRunQueue(t) => UniqueInRunQueues'
<1> DEFINE m == IF num = 1 THEN 1 ELSE 2
<1>1. /\ m \in 1 .. 3 /\ m # 3
      /\ run_queue' = [run_queue EXCEPT ![m] = Append(run_queue[m], t)]
  BY DEF add_to_run_queue
<1> HIDE DEF m
<1>2. /\ run_queue'[m] = Append(run_queue[m], t)
      /\ \A k \in 1 .. 3 : k # m => run_queue'[k] = run_queue[k]
      /\ \A k \in 1 .. 3 : run_queue[k] \in Seq(Tid)
  BY <1>1 DEF RunQueueType
<1>3. /\ Len(run_queue'[m]) = Len(run_queue[m]) + 1
      /\ Len(run_queue[m]) \in Nat
      /\ \A i \in 1 .. Len(run_queue[m]) : run_queue'[m][i] = run_queue[m][i]
      /\ run_queue'[m][Len(run_queue[m]) + 1] = t
  BY <1>1, <1>2
<1>4. RunQueueType'
  BY <1>1, <1>2 DEF RunQueueType
<1>5. ASSUME NEW s \in Tid
      PROVE  InRunQueue(s)' <=> InRunQueue(s) \/ s = t
  <2>1. \A k \in 1 .. 3 : k # m => (InQueue(s, k)' <=> InQueue(s, k))
    BY <1>2 DEF InQueue
  <2>2. InQueue(s, m)' => InQueue(s, m) \/ s = t
    <3> SUFFICES ASSUME NEW i \in 1 .. Len(run_queue'[m]), run_queue'[m][i] = s
                 PROVE  InQueue(s, m) \/ s = t
      BY DEF InQueue
    <3>1. CASE i \in 1 .. Len(run_queue[m])
      BY <1>3, <3>1 DEF InQueue
    <3>2. CASE i = Len(run_queue[m]) + 1
      BY <1>3, <3>2
    <3> QED  BY <1>3, <3>1, <3>2
  <2>3. InQueue(s, m) => InQueue(s, m)'
    <3> SUFFICES ASSUME NEW i \in 1 .. Len(run_queue[m]), run_queue[m][i] = s
                 PROVE  InQueue(s, m)'
      BY DEF InQueue
    <3>1. i \in 1 .. Len(run_queue'[m]) /\ run_queue'[m][i] = s
      BY <1>3
    <3> QED  BY <3>1 DEF InQueue
  <2>4. s = t => InQueue(s, m)'
    <3>1. Len(run_queue[m]) + 1 \in 1 .. Len(run_queue'[m])
      BY <1>3
    <3> QED  BY <1>3, <3>1 DEF InQueue
  <2> QED  BY <1>1, <2>1, <2>2, <2>3, <2>4 DEF InRunQueue
<1>6. ASSUME NEW k \in 1 .. 3, run_queue[k] # << >>
      PROVE  run_queue'[k] # << >> /\ Head(run_queue'[k]) = Head(run_queue[k])
  BY <1>1, <1>2, <1>6
<1>7. ASSUME UniqueInRunQueues, ~InRunQueue(t)
      PROVE  UniqueInRunQueues'
  <2> SUFFICES ASSUME NEW k \in 1 .. 3, NEW l \in 1 .. 3,
                      NEW i \in 1 .. Len(run_queue'[k]),
                      NEW j \in 1 .. Len(run_queue'[l]),
                      run_queue'[k][i] = run_queue'[l][j]
               PROVE  k = l /\ i = j
    BY DEF UniqueInRunQueues
  <2> DEFINE New(q, n) == q = m /\ n = Len(run_queue[m]) + 1
  <2>1. ASSUME NEW q \in 1 .. 3, NEW n \in 1 .. Len(run_queue'[q])
        PROVE  \/ New(q, n) /\ run_queue'[q][n] = t
               \/ ~New(q, n) /\ n \in 1 .. Len(run_queue[q])
                    /\ run_queue'[q][n] = run_queue[q][n]
                    /\ run_queue'[q][n] # t
    <3>1. \A p \in 1 .. 3 : \A o \in 1 .. Len(run_queue[p]) : run_queue[p][o] # t
      BY <1>7 DEF InRunQueue, InQueue
    <3>2. CASE New(q, n)
      BY <3>2, <1>3
    <3>3. CASE q = m /\ ~New(q, n)
      <4>1. n \in 1 .. Len(run_queue[m])
        BY <3>3, <1>3
      <4> QED  BY <4>1, <3>1, <3>3, <1>1, <1>3
    <3>4. CASE q # m
      BY <3>4, <3>1, <1>2
    <3> QED  BY <3>2, <3>3, <3>4
  <2>2. CASE New(k, i) /\ New(l, j)
    BY <2>2
  <2>3. CASE ~New(k, i) /\ ~New(l, j)
    <3>1. /\ i \in 1 .. Len(run_queue[k]) /\ j \in 1 .. Len(run_queue[l])
          /\ run_queue[k][i] = run_queue[l][j]
      BY <2>1, <2>3
    <3> QED  BY <3>1, UniqueInRunQueues DEF UniqueInRunQueues
  <2>4. New(k, i) <=> New(l, j)
    <3>1. New(k, i) => New(l, j)
      BY <2>1
    <3>2. New(l, j) => New(k, i)
      BY <2>1
    <3> QED  BY <3>1, <3>2
  <2> HIDE DEF New
  <2> QED  BY <2>2, <2>3, <2>4
<1>8. run_queue'[3] = run_queue[3]
  BY <1>1, <1>2
<1> QED  BY <1>4, <1>5, <1>6, <1>7, <1>8

(* Taking the first thread off its queue removes that member and no other.    *)
LEMMA RemoveMember ==
  ASSUME RunQueueType, UniqueInRunQueues,
         NEW m \in 1 .. 3, run_queue[m] # << >>,
         run_queue' = [run_queue EXCEPT ![m] = Tail(@)]
  PROVE  /\ RunQueueType'
         /\ Head(run_queue[m]) \in Tid
         /\ InRunQueue(Head(run_queue[m]))
         /\ \A s \in Tid :
              InRunQueue(s)' <=> InRunQueue(s) /\ s # Head(run_queue[m])
         /\ run_queue[3] = << >> => run_queue'[3] = << >>
         /\ UniqueInRunQueues'
<1>1. /\ run_queue'[m] = Tail(run_queue[m])
      /\ \A k \in 1 .. 3 : k # m => run_queue'[k] = run_queue[k]
      /\ \A k \in 1 .. 3 : run_queue[k] \in Seq(Tid)
  BY DEF RunQueueType
<1>2. /\ Len(run_queue[m]) \in Nat /\ Len(run_queue[m]) >= 1
      /\ Len(run_queue'[m]) = Len(run_queue[m]) - 1
      /\ \A i \in 1 .. Len(run_queue'[m]) : run_queue'[m][i] = run_queue[m][i + 1]
      /\ Head(run_queue[m]) = run_queue[m][1]
      /\ Head(run_queue[m]) \in Tid
  <2>1. PICK q \in Seq(Tid) : q = run_queue[m] /\ q # << >>
    BY <1>1
  <2>2. /\ Len(q) \in Nat /\ Len(q) >= 1
        /\ Len(Tail(q)) = Len(q) - 1
        /\ Head(q) = q[1] /\ q[1] \in Tid
        /\ \A i \in 1 .. Len(Tail(q)) : Tail(q)[i] = q[i + 1]
    <3>1. \A r \in Seq(Tid) : r # << >> =>
            /\ Len(r) \in Nat /\ Len(r) >= 1
            /\ Len(Tail(r)) = Len(r) - 1
            /\ Head(r) = r[1] /\ r[1] \in Tid
            /\ \A i \in 1 .. Len(Tail(r)) : Tail(r)[i] = r[i + 1]
      OBVIOUS
    <3> QED  BY <2>1, <3>1, Zenon
  <2> QED  BY <1>1, <2>1, <2>2
<1>3. RunQueueType'
  BY <1>1 DEF RunQueueType
<1>4. InRunQueue(Head(run_queue[m]))
  BY <1>2 DEF InRunQueue, InQueue
<1>5. ASSUME NEW k \in 1 .. 3, NEW i \in 1 .. Len(run_queue[k]),
             run_queue[k][i] = Head(run_queue[m])
      PROVE  k = m /\ i = 1
  BY <1>2, <1>5 DEF UniqueInRunQueues
<1>6. ASSUME NEW s \in Tid
      PROVE  InRunQueue(s)' <=> InRunQueue(s) /\ s # Head(run_queue[m])
  <2>1. \A k \in 1 .. 3 : k # m =>
          (InQueue(s, k)' <=> InQueue(s, k) /\ s # Head(run_queue[m]))
    BY <1>1, <1>5 DEF InQueue
  <2>2. InQueue(s, m)' => InQueue(s, m) /\ s # Head(run_queue[m])
    <3> SUFFICES ASSUME NEW i \in 1 .. Len(run_queue'[m]), run_queue'[m][i] = s
                 PROVE  InQueue(s, m) /\ s # Head(run_queue[m])
      BY DEF InQueue
    <3>1. i + 1 \in 1 .. Len(run_queue[m]) /\ run_queue[m][i + 1] = s /\ i + 1 # 1
      BY <1>2
    <3> QED  BY <3>1, <1>5 DEF InQueue
  <2>3. InQueue(s, m) /\ s # Head(run_queue[m]) => InQueue(s, m)'
    <3> SUFFICES ASSUME NEW i \in 1 .. Len(run_queue[m]), run_queue[m][i] = s,
                        s # Head(run_queue[m])
                 PROVE  InQueue(s, m)'
      BY DEF InQueue
    <3>1. i - 1 \in 1 .. Len(run_queue'[m]) /\ run_queue'[m][i - 1] = s
      BY <1>2
    <3> QED  BY <3>1 DEF InQueue
  <2> QED  BY <2>1, <2>2, <2>3 DEF InRunQueue
<1>7. UniqueInRunQueues'
  <2> SUFFICES ASSUME NEW k \in 1 .. 3, NEW l \in 1 .. 3,
                      NEW i \in 1 .. Len(run_queue'[k]),
                      NEW j \in 1 .. Len(run_queue'[l]),
                      run_queue'[k][i] = run_queue'[l][j]
               PROVE  k = l /\ i = j
    BY DEF UniqueInRunQueues
  <2> DEFINE Old(q, n) == IF q = m THEN n + 1 ELSE n
  <2>1. ASSUME NEW q \in 1 .. 3, NEW n \in 1 .. Len(run_queue'[q])
        PROVE  /\ Old(q, n) \in 1 .. Len(run_queue[q])
               /\ run_queue'[q][n] = run_queue[q][Old(q, n)]
    <3>1. CASE q = m
      BY <3>1, <1>2
    <3>2. CASE q # m
      BY <3>2, <1>1
    <3> QED  BY <3>1, <3>2
  <2>2. k = l /\ Old(k, i) = Old(l, j)
    <3>1. run_queue[k][Old(k, i)] = run_queue[l][Old(l, j)]
      BY <2>1
    <3>2. /\ Old(k, i) \in 1 .. Len(run_queue[k])
          /\ Old(l, j) \in 1 .. Len(run_queue[l])
      BY <2>1
    <3>3. ASSUME NEW a \in 1 .. Len(run_queue[k]), NEW b \in 1 .. Len(run_queue[l]),
                 run_queue[k][a] = run_queue[l][b]
          PROVE  k = l /\ a = b
      BY <3>3, UniqueInRunQueues DEF UniqueInRunQueues
    <3> HIDE DEF Old
    <3> QED  BY <3>1, <3>2, <3>3
  <2>3. i \in Int /\ j \in Int
    BY <1>1
  <2> QED  BY <2>2, <2>3
<1>8. run_queue[3] = << >> => run_queue'[3] = << >>
  BY <1>1
<1> QED  BY <1>2, <1>3, <1>4, <1>6, <1>7, <1>8
(* A new waiting join is the last one of the list.                            *)
LEMMA AddJoin ==
  ASSUME join_waiting_queue \in Seq(Waiter), NEW t \in Tid, NEW u \in Tid,
         join_waiting_queue' = Append(join_waiting_queue, [tcb |-> t, tid |-> u])
  PROVE  /\ join_waiting_queue' \in Seq(Waiter)
         /\ Len(join_waiting_queue') = Len(join_waiting_queue) + 1
         /\ \A s \in Tid : Waiting(s)' <=> Waiting(s) \/ s = t
         /\ UniqueInJoinQueue /\ ~Waiting(t) => UniqueInJoinQueue'
<1> DEFINE w == [tcb |-> t, tid |-> u]
<1>1. w \in Waiter /\ w.tcb = t
  BY DEF Waiter
<1> HIDE DEF w
<1>2. /\ join_waiting_queue' \in Seq(Waiter)
      /\ Len(join_waiting_queue) \in Nat
      /\ Len(join_waiting_queue') = Len(join_waiting_queue) + 1
      /\ \A i \in 1 .. Len(join_waiting_queue) :
           join_waiting_queue'[i] = join_waiting_queue[i]
      /\ join_waiting_queue'[Len(join_waiting_queue) + 1] = w
  BY <1>1 DEF w
<1>3. ASSUME NEW s \in Tid
      PROVE  Waiting(s)' <=> Waiting(s) \/ s = t
  <2>1. Waiting(s)' => Waiting(s) \/ s = t
    <3> SUFFICES ASSUME NEW i \in 1 .. Len(join_waiting_queue'),
                        join_waiting_queue'[i].tcb = s
                 PROVE  Waiting(s) \/ s = t
      BY DEF Waiting
    <3>1. CASE i \in 1 .. Len(join_waiting_queue)
      BY <3>1, <1>2 DEF Waiting
    <3>2. CASE i = Len(join_waiting_queue) + 1
      BY <3>2, <1>1, <1>2
    <3> QED  BY <1>2, <3>1, <3>2
  <2>2. Waiting(s) => Waiting(s)'
    <3> SUFFICES ASSUME NEW i \in 1 .. Len(join_waiting_queue),
                        join_waiting_queue[i].tcb = s
                 PROVE  Waiting(s)'
      BY DEF Waiting
    <3>1. i \in 1 .. Len(join_waiting_queue') /\ join_waiting_queue'[i].tcb = s
      BY <1>2
    <3> QED  BY <3>1 DEF Waiting
  <2>3. s = t => Waiting(s)'
    <3>1. Len(join_waiting_queue) + 1 \in 1 .. Len(join_waiting_queue')
      BY <1>2
    <3> QED  BY <1>1, <1>2, <3>1 DEF Waiting
  <2> QED  BY <2>1, <2>2, <2>3
<1>4. ASSUME UniqueInJoinQueue, ~Waiting(t)
      PROVE  UniqueInJoinQueue'
  <2> SUFFICES ASSUME NEW i \in 1 .. Len(join_waiting_queue'),
                      NEW j \in 1 .. Len(join_waiting_queue'),
                      join_waiting_queue'[i].tcb = join_waiting_queue'[j].tcb
               PROVE  i = j
    BY DEF UniqueInJoinQueue
  <2>1. ASSUME NEW a \in 1 .. Len(join_waiting_queue')
        PROVE  \/ a = Len(join_waiting_queue) + 1 /\ join_waiting_queue'[a].tcb = t
               \/ /\ a \in 1 .. Len(join_waiting_queue)
                  /\ join_waiting_queue'[a] = join_waiting_queue[a]
                  /\ join_waiting_queue'[a].tcb # t
    BY <1>1, <1>2, <1>4 DEF Waiting
  <2>2. ASSUME NEW a \in 1 .. Len(join_waiting_queue),
               NEW b \in 1 .. Len(join_waiting_queue),
               join_waiting_queue[a].tcb = join_waiting_queue[b].tcb
        PROVE  a = b
    BY <2>2, UniqueInJoinQueue DEF UniqueInJoinQueue
  <2> QED  BY <2>1, <2>2
<1> QED  BY <1>2, <1>3, <1>4

(* Unlinking a join leaves some of the other joins.                           *)
LEMMA RemoveJoin ==
  ASSUME join_waiting_queue \in Seq(Waiter), UniqueInJoinQueue,
         NEW n \in 1 .. Len(join_waiting_queue),
         join_waiting_queue' = UnlinkJoin(n)
  PROVE  /\ join_waiting_queue' \in Seq(Waiter)
         /\ \A s \in Tid :
              Waiting(s)' => Waiting(s) /\ s # join_waiting_queue[n].tcb
         /\ UniqueInJoinQueue'
<1>1. /\ join_waiting_queue' \in Seq(Waiter)
      /\ Len(join_waiting_queue) \in Nat
      /\ Len(join_waiting_queue') = Len(join_waiting_queue) - n
      /\ \A i \in 1 .. Len(join_waiting_queue') :
           join_waiting_queue'[i] = join_waiting_queue[i + n]
  BY DEF UnlinkJoin
<1>2. ASSUME NEW a \in 1 .. Len(join_waiting_queue),
             NEW b \in 1 .. Len(join_waiting_queue),
             join_waiting_queue[a].tcb = join_waiting_queue[b].tcb
      PROVE  a = b
  BY <1>2, UniqueInJoinQueue DEF UniqueInJoinQueue
<1>3. \A i \in 1 .. Len(join_waiting_queue') :
        i + n \in 1 .. Len(join_waiting_queue) /\ i + n # n
  BY <1>1
<1>4. ASSUME NEW s \in Tid, Waiting(s)'
      PROVE  Waiting(s) /\ s # join_waiting_queue[n].tcb
  <2>1. PICK i \in 1 .. Len(join_waiting_queue') : join_waiting_queue'[i].tcb = s
    BY <1>4 DEF Waiting
  <2>2. i + n \in 1 .. Len(join_waiting_queue) /\ join_waiting_queue[i + n].tcb = s
    BY <2>1, <1>1, <1>3
  <2> QED  BY <2>2, <1>2, <1>3 DEF Waiting
<1>5. UniqueInJoinQueue'
  <2> SUFFICES ASSUME NEW i \in 1 .. Len(join_waiting_queue'),
                      NEW j \in 1 .. Len(join_waiting_queue'),
                      join_waiting_queue'[i].tcb = join_waiting_queue'[j].tcb
               PROVE  i = j
    BY DEF UniqueInJoinQueue
  <2>1. i + n = j + n
    BY <1>1, <1>2, <1>3
  <2> QED  BY <2>1, <1>1
<1> QED  BY <1>1, <1>4, <1>5

(* Lists that do not change keep their members.                               *)
LEMMA SameRunQueue ==
  ASSUME run_queue' = run_queue
  PROVE  /\ UniqueInRunQueues' <=> UniqueInRunQueues
         /\ \A s \in Tid : InRunQueue(s)' <=> InRunQueue(s)
BY DEF UniqueInRunQueues, InRunQueue, InQueue

LEMMA SameJoinQueue ==
  ASSUME join_waiting_queue' = join_waiting_queue
  PROVE  /\ UniqueInJoinQueue' <=> UniqueInJoinQueue
         /\ \A s \in Tid : Waiting(s)' <=> Waiting(s)
BY DEF UniqueInJoinQueue, Waiting

(* A set of natural numbers has a least one.                                  *)
LEMMA LeastNumber ==
  ASSUME NEW I \in SUBSET Nat, I # {}
  PROVE  \E x \in I : \A y \in I : x <= y
<1> DEFINE R == OpToRel(<, Nat)
<1>0. IsWellFoundedOn(R, Nat)
  BY NatLessThanWellFounded
<1>1. PICK x \in I : \A y \in I : <<y, x>> \notin R
  <2> HIDE DEF R
  <2> QED  BY <1>0, WFMin, Zenon
<1>2. \A y \in I : x <= y
  <2> TAKE y \in I
  <2>1. <<y, x>> \in R <=> y < x
    BY DEF OpToRel
  <2> HIDE DEF R
  <2> QED  BY <2>1, <1>1
<1> QED  BY <1>2

(* A queue has finitely many nodes of a thread, so ages are natural numbers.   *)
LEMMA NodesType == ASSUME NEW q \in Seq(Tid), NEW t PROVE Nodes(q, t) \in Nat
<1> DEFINE N == {i \in 1 .. Len(q) : q[i] = t}
<1>1. IsFiniteSet(1 .. Len(q)) /\ N \in SUBSET (1 .. Len(q))
  BY FS_Interval
<1> HIDE DEF N
<1>2. IsFiniteSet(N)
  BY <1>1, FS_Subset
<1>3. Cardinality(N) \in Nat
  BY <1>2, FS_CardinalityType
<1> QED  BY <1>3 DEF Nodes, N

LEMMA AgeType ==
  ASSUME NEW queues \in [1 .. 3 -> Seq(Tid)], priority \in [Tid -> Nat \ {0}]
  PROVE  age(queues) \in [Tid -> Nat \ {0}]
<1> SUFFICES ASSUME NEW t \in Tid
             PROVE  priority[t] + Nodes(queues[1], t) + Nodes(queues[2], t)
                      + Nodes(queues[3], t) \in Nat \ {0}
  BY DEF age
<1>1. /\ Nodes(queues[1], t) \in Nat /\ Nodes(queues[2], t) \in Nat
      /\ Nodes(queues[3], t) \in Nat
  BY NodesType
<1> QED  BY <1>1

(* A thread that is in no queue twice ages by one if it is in a queue.        *)
LEMMA AgesOnce ==
  ASSUME RunQueueType', UniqueInRunQueues', priority \in [Tid -> Nat \ {0}],
         priority' = age(run_queue'), NEW t \in Tid
  PROVE  /\ InRunQueue(t)' => priority'[t] = priority[t] + 1
         /\ ~InRunQueue(t)' => priority'[t] = priority[t]
<1> DEFINE N(k) == {i \in 1 .. Len(run_queue'[k]) : run_queue'[k][i] = t}
<1>1. priority'[t] = priority[t] + Cardinality(N(1)) + Cardinality(N(2))
                       + Cardinality(N(3))
  BY DEF age, Nodes
<1>2. ASSUME NEW k \in 1 .. 3, ~InQueue(t, k)'
      PROVE  Cardinality(N(k)) = 0
  <2>1. N(k) = {}
    BY <1>2 DEF InQueue
  <2> QED  BY <2>1, FS_EmptySet
<1>3. ASSUME NEW k \in 1 .. 3, InQueue(t, k)'
      PROVE  /\ Cardinality(N(k)) = 1
             /\ \A l \in 1 .. 3 : l # k => ~InQueue(t, l)'
  <2>1. PICK i \in 1 .. Len(run_queue'[k]) : run_queue'[k][i] = t
    BY <1>3 DEF InQueue
  <2>2. N(k) = {i}
    BY <2>1 DEF UniqueInRunQueues
  <2>3. \A l \in 1 .. 3 : l # k => ~InQueue(t, l)'
    BY <2>1 DEF UniqueInRunQueues, InQueue
  <2> QED  BY <2>2, <2>3, FS_Singleton
<1>4. priority[t] \in Nat
  OBVIOUS
<1> HIDE DEF N
<1>5. ASSUME InRunQueue(t)' PROVE priority'[t] = priority[t] + 1
  <2>1. PICK k \in 1 .. 3 : InQueue(t, k)'
    BY <1>5 DEF InRunQueue
  <2>2. Cardinality(N(k)) = 1 /\ \A l \in 1 .. 3 : l # k => Cardinality(N(l)) = 0
    BY <1>2, <1>3, <2>1
  <2> QED  BY <1>1, <1>4, <2>1, <2>2
<1>6. ASSUME ~InRunQueue(t)' PROVE priority'[t] = priority[t]
  <2>1. \A k \in 1 .. 3 : Cardinality(N(k)) = 0
    BY <1>2, <1>6 DEF InRunQueue
  <2> QED  BY <1>1, <1>4, <2>1
<1> QED  BY <1>5, <1>6

LEMMA MainIsThread == Main \in Tid /\ Tid \subseteq Nat
BY MlfqAssumption DEF Main, Tid
---------------------------------------------------------------------------
(* Each action keeps the invariant. *)

LEMMA CreateFirstKeeps == ASSUME IInv, CreateFirst PROVE IInv'
<1> USE MainIsThread
<1>1. /\ TypeOK /\ OnlyKnown /\ BlockedIsCurrent /\ RunQueueType
      /\ Executing(Main) /\ thread_number = 0 /\ run_queue[3] = << >>
  BY DEF IInv, CreateFirst, TypeOK, QueueTypeOK, RunQueueType
<1>2. \A t \in Tid : ~InRunQueue(t) /\ ~Waiting(t) /\ t \notin exit_thread_list
  <2>1. \A t \in Tid : ~Known(t)
    BY <1>1, MlfqAssumption DEF Known, Tid
  <2> QED  BY <1>1, <2>1 DEF OnlyKnown
<1>3. run_queue[1] = << >>
  <2>1. run_queue[1] \in Seq(Tid)
    BY <1>1 DEF RunQueueType
  <2>2. ASSUME run_queue[1] # << >> PROVE FALSE
    <3>1. 1 \in 1 .. Len(run_queue[1]) /\ run_queue[1][1] \in Tid
      BY <2>1, <2>2
    <3>2. InQueue(run_queue[1][1], 1)
      BY <3>1 DEF InQueue
    <3>3. 1 \in 1 .. 3
      OBVIOUS
    <3>4. InRunQueue(run_queue[1][1])
      BY <3>2, <3>3 DEF InRunQueue
    <3> QED  BY <3>1, <3>4, <1>2
  <2> QED  BY <2>2
<1>4. run_queue' = add_to_run_queue(1, Main)
  BY DEF CreateFirst
<1>5. /\ RunQueueType' /\ run_queue'[3] = << >>
      /\ \A t \in Tid : InRunQueue(t)' <=> t = Main
      /\ UniqueInRunQueues'
  <2>1. UniqueInRunQueues
    BY DEF IInv, NoDuplicates
  <2> QED  BY <1>1, <1>2, <1>4, <2>1, AddMember
<1>6. /\ run_queue'[1] = Append(run_queue[1], Main)
      /\ run_queue'[1] # << >> /\ Head(run_queue'[1]) = Main
  <2>1. run_queue'[1] = Append(run_queue[1], Main)
    BY <1>1, <1>4 DEF add_to_run_queue, RunQueueType
  <2> QED  BY <2>1, <1>3
<1>7. /\ join_waiting_queue' = join_waiting_queue /\ exit_thread_list' = exit_thread_list
      /\ yield_purpose' = [yield_purpose EXCEPT ![Main] = Timeout]
      /\ pc' = [pc EXCEPT ![Main] = "create"]
      /\ phase' = phase /\ cpu' = cpu /\ ptr' = ptr /\ wait_ptr' = wait_ptr
      /\ thread_number' = 1 /\ current_queue_number' = 1
  BY DEF CreateFirst, joinVars, schedVars
<1>8. TypeOK'
  <2>1. QueueTypeOK'
    BY <1>1, <1>5, <1>7, MlfqAssumption
       DEF TypeOK, QueueTypeOK, RunQueueType, CreateFirst
  <2>2. ThreadTypeOK'
    BY <1>1, <1>7, MlfqAssumption DEF TypeOK, ThreadTypeOK, CreateFirst, PC
  <2>3. JoinTypeOK' /\ SchedTypeOK'
    BY <1>1, <1>7 DEF TypeOK, JoinTypeOK, SchedTypeOK, CreateFirst, joinVars
  <2> QED  BY <2>1, <2>2, <2>3 DEF TypeOK
<1>9. CurrentIsExecuting'
  BY <1>1, <1>6, <1>7 DEF CurrentIsExecuting, get_current_thread, Executing
<1>10. NoDuplicates'
  <2>1. UniqueInJoinQueue' /\ \A t \in Tid : ~Waiting(t)'
    BY <1>2, <1>7, SameJoinQueue DEF IInv, NoDuplicates
  <2> QED  BY <1>5, <2>1 DEF NoDuplicates
<1>11. ExitedAreGone' /\ ExitedNotWaiting'
  BY <1>1, <1>2, <1>7 DEF TypeOK, JoinTypeOK, ExitedAreGone, ExitedNotWaiting
<1>12. BlockedIsCurrent'
  BY <1>1, <1>7 DEF BlockedIsCurrent, Executing, TypeOK, ThreadTypeOK, Timeout, Block
<1>13. PtrTakenOff'
  BY <1>1, <1>7 DEF PtrTakenOff, Executing
<1>14. OnlyKnown'
  <2>1. \A t \in Tid : ~Waiting(t)'
    BY <1>2, <1>7, SameJoinQueue
  <2>2. pc'[Main] = "create" /\ phase' = "thread"
    BY <1>1, <1>7 DEF TypeOK, ThreadTypeOK, Executing
  <2>3. Known(Main)'
    BY <1>7, <2>2 DEF Known, Main
  <2> QED  BY <1>1, <1>2, <1>5, <1>7, <2>1, <2>2, <2>3 DEF OnlyKnown, TypeOK, JoinTypeOK
<1> QED  BY <1>5, <1>8, <1>9, <1>10, <1>11, <1>12, <1>13, <1>14 DEF IInv

(* While code of a thread executes, no thread is both ready and waiting       *)
(* unless it is the executing one and about to yield in mypthread_join.       *)
LEMMA ReadyAndWaiting ==
  ASSUME IInv, NEW t \in Tid, InRunQueue(t), Waiting(t)
  PROVE  Executing(t) /\ pc[t] = "join_yield" /\ yield_purpose[t] = Block
<1>1. Executing(t) /\ yield_purpose[t] = Block
  BY DEF IInv, NoDuplicates
<1> QED  BY <1>1 DEF IInv, BlockedIsCurrent, Executing

LEMMA CreateThreadKeeps == ASSUME IInv, CreateThread PROVE IInv'
<1> USE MainIsThread
<1>1. /\ TypeOK /\ OnlyKnown /\ BlockedIsCurrent /\ run_queue[3] = << >>
      /\ Executing(Main) /\ pc[Main] \in {"create", "user"}
      /\ thread_number \in 1 .. MaxThreads - 1 /\ thread_number \in Tid
  BY MlfqAssumption DEF IInv, CreateThread, Tid
<1>2. /\ join_waiting_queue' = join_waiting_queue /\ exit_thread_list' = exit_thread_list
      /\ run_queue' = run_queue /\ current_queue_number' = current_queue_number
      /\ yield_purpose' = [yield_purpose EXCEPT ![thread_number] = Timeout]
      /\ pc' = [pc EXCEPT ![Main] = "create_add"]
      /\ phase' = phase /\ cpu' = cpu /\ ptr' = ptr /\ wait_ptr' = wait_ptr
      /\ thread_number' = thread_number + 1
  BY DEF CreateThread, joinVars, schedVars
<1>3. TypeOK'
  <2>1. QueueTypeOK'
    BY <1>1, <1>2, MlfqAssumption DEF TypeOK, QueueTypeOK, CreateThread
  <2>2. ThreadTypeOK'
    BY <1>1, <1>2, MlfqAssumption DEF TypeOK, ThreadTypeOK, CreateThread, PC
  <2>3. JoinTypeOK' /\ SchedTypeOK'
    BY <1>1, <1>2 DEF TypeOK, JoinTypeOK, SchedTypeOK, CreateThread, joinVars
  <2> QED  BY <2>1, <2>2, <2>3 DEF TypeOK
<1>4. CurrentIsExecuting'
  BY <1>1, <1>2 DEF IInv, CurrentIsExecuting, get_current_thread
<1>5. NoDuplicates'
  BY <1>1, <1>2, SameRunQueue, SameJoinQueue, ReadyAndWaiting
     DEF IInv, NoDuplicates, Executing
<1>6. ExitedAreGone' /\ ExitedNotWaiting'
  BY <1>1, <1>2, SameRunQueue, SameJoinQueue
     DEF IInv, TypeOK, JoinTypeOK, ExitedAreGone, ExitedNotWaiting
<1>7. BlockedIsCurrent'
  BY <1>1, <1>2 DEF BlockedIsCurrent, Executing, TypeOK, ThreadTypeOK, Timeout, Block
<1>8. PtrTakenOff'
  BY <1>1, <1>2 DEF PtrTakenOff, Executing
<1>9. OnlyKnown'
  <2>1. pc'[Main] = "create_add" /\ phase' = "thread"
    BY <1>1, <1>2 DEF TypeOK, ThreadTypeOK, Executing
  <2>2. \A t \in Tid : Known(t) => Known(t)'
    BY <1>1, <1>2, <2>1 DEF Known, Tid
  <2> QED  BY <1>1, <1>2, <2>1, <2>2, SameRunQueue, SameJoinQueue
           DEF OnlyKnown, TypeOK, JoinTypeOK
<1> QED  BY <1>1, <1>2, <1>3, <1>4, <1>5, <1>6, <1>7, <1>8, <1>9 DEF IInv

LEMMA CreateAddKeeps == ASSUME IInv, CreateAdd PROVE IInv'
<1> USE MainIsThread
<1> DEFINE n == thread_number - 1
<1>1. /\ TypeOK /\ RunQueueType /\ OnlyKnown /\ BlockedIsCurrent
      /\ run_queue[3] = << >> /\ Executing(Main) /\ pc[Main] = "create_add"
  BY DEF IInv, CreateAdd, TypeOK, QueueTypeOK, RunQueueType
<1>2. n \in Tid /\ ~InRunQueue(n) /\ ~Waiting(n) /\ n \notin exit_thread_list
  <2>1. n \in Tid
    BY <1>1, MlfqAssumption DEF OnlyKnown, TypeOK, ThreadTypeOK, Tid
  <2>2. ~Known(n)
    BY <1>1 DEF Known
  <2> QED  BY <1>1, <2>1, <2>2 DEF OnlyKnown
<1>3. /\ join_waiting_queue' = join_waiting_queue /\ exit_thread_list' = exit_thread_list
      /\ run_queue' = add_to_run_queue(1, n)
      /\ current_queue_number' = current_queue_number
      /\ yield_purpose' = yield_purpose /\ thread_number' = thread_number
      /\ pc' = [pc EXCEPT ![Main] = "user"]
      /\ phase' = phase /\ cpu' = cpu /\ ptr' = ptr /\ wait_ptr' = wait_ptr
  BY DEF CreateAdd, joinVars, schedVars, threadVars
<1> HIDE DEF n
<1>4. /\ RunQueueType' /\ run_queue'[3] = << >>
      /\ \A s \in Tid : InRunQueue(s)' <=> InRunQueue(s) \/ s = n
      /\ \A k \in 1 .. 3 : run_queue[k] # << >> =>
           run_queue'[k] # << >> /\ Head(run_queue'[k]) = Head(run_queue[k])
      /\ UniqueInRunQueues'
  <2>1. UniqueInRunQueues
    BY DEF IInv, NoDuplicates
  <2> QED  BY <1>1, <1>2, <1>3, <2>1, AddMember
<1>5. TypeOK'
  <2>1. QueueTypeOK'
    BY <1>1, <1>3, <1>4 DEF TypeOK, QueueTypeOK, RunQueueType, CreateAdd
  <2>2. ThreadTypeOK'
    BY <1>1, <1>3 DEF TypeOK, ThreadTypeOK, CreateAdd, threadVars, PC
  <2>3. JoinTypeOK' /\ SchedTypeOK'
    BY <1>1, <1>3 DEF TypeOK, JoinTypeOK, SchedTypeOK, CreateAdd, joinVars
  <2> QED  BY <2>1, <2>2, <2>3 DEF TypeOK
<1>6. CurrentIsExecuting'
  BY <1>1, <1>3, <1>4 DEF IInv, TypeOK, QueueTypeOK, CurrentIsExecuting, get_current_thread
<1>7. NoDuplicates'
  <2>1. UniqueInJoinQueue' /\ \A t \in Tid : Waiting(t)' <=> Waiting(t)
    BY <1>3, SameJoinQueue DEF IInv, NoDuplicates
  <2>2. \A t \in Tid : ~(InRunQueue(t)' /\ Waiting(t)')
    BY <1>1, <1>2, <1>4, <2>1, ReadyAndWaiting DEF Executing
  <2> QED  BY <1>4, <2>1, <2>2 DEF NoDuplicates
<1>8. ExitedAreGone' /\ ExitedNotWaiting'
  BY <1>1, <1>2, <1>3, <1>4, SameJoinQueue
     DEF IInv, TypeOK, JoinTypeOK, ExitedAreGone, ExitedNotWaiting
<1>9. BlockedIsCurrent'
  BY <1>1, <1>3 DEF BlockedIsCurrent, Executing, TypeOK, ThreadTypeOK
<1>10. PtrTakenOff'
  BY <1>1, <1>3 DEF PtrTakenOff, Executing
<1>11. OnlyKnown'
  <2>1. pc'[Main] = "user" /\ phase' = "thread"
    BY <1>1, <1>3 DEF TypeOK, ThreadTypeOK, Executing
  <2>2. \A t \in Tid : Known(t) \/ t = n => Known(t)'
    BY <1>1, <1>3, <2>1 DEF Known, TypeOK, ThreadTypeOK, n
  <2> QED  BY <1>1, <1>2, <1>3, <1>4, <2>1, <2>2, SameJoinQueue
           DEF OnlyKnown, TypeOK, JoinTypeOK
<1> QED  BY <1>4, <1>5, <1>6, <1>7, <1>8, <1>9, <1>10, <1>11 DEF IInv
(* The library calls keep the run queues.  The thread that makes one is the   *)
(* head of the current queue, and it does not wait.                           *)
LEMMA CallerIsHead ==
  ASSUME IInv, NEW t \in Tid, Executing(t), thread_number > 0
  PROVE  /\ run_queue[current_queue_number] # << >>
         /\ get_current_thread = t
         /\ InRunQueue(t)
         /\ cpu = t /\ phase = "thread" /\ t \notin exit_thread_list
<1>1. /\ run_queue[current_queue_number] # << >>
      /\ get_current_thread = t /\ cpu = t /\ phase = "thread"
  BY DEF IInv, CurrentIsExecuting, Executing
<1>2. /\ current_queue_number \in 1 .. 3
      /\ run_queue[current_queue_number] \in Seq(Tid)
  BY DEF IInv, TypeOK, QueueTypeOK
<1>3. /\ 1 \in 1 .. Len(run_queue[current_queue_number])
      /\ run_queue[current_queue_number][1] = t
  BY <1>1, <1>2 DEF get_current_thread
<1>4. InRunQueue(t)
  BY <1>2, <1>3 DEF InRunQueue, InQueue
<1>5. t \notin exit_thread_list
  BY <1>1 DEF IInv, ExitedAreGone
<1> QED  BY <1>1, <1>4, <1>5

LEMMA JoinExitedKeeps ==
  ASSUME IInv, NEW t \in Tid, NEW u \in Tid, JoinExited(t, u) PROVE IInv'
<1>1. /\ join_waiting_queue' = join_waiting_queue /\ exit_thread_list' = exit_thread_list
      /\ run_queue' = run_queue /\ current_queue_number' = current_queue_number
      /\ yield_purpose' = yield_purpose /\ thread_number' = thread_number /\ pc' = pc
      /\ phase' = phase /\ cpu' = cpu /\ ptr' = ptr /\ wait_ptr' = wait_ptr
      /\ phase \in {"thread", "stalled"} /\ cpu = t
  BY DEF JoinExited, OnProcessor, queueVars, threadVars, schedVars
<1>2. TypeOK'
  <2>1. QueueTypeOK' /\ ThreadTypeOK'
    BY <1>1 DEF IInv, TypeOK, QueueTypeOK, ThreadTypeOK, JoinExited, queueVars, threadVars
  <2>2. JoinTypeOK' /\ SchedTypeOK'
    BY <1>1 DEF IInv, TypeOK, JoinTypeOK, SchedTypeOK, JoinExited
  <2> QED  BY <2>1, <2>2 DEF TypeOK
<1>3. CurrentIsExecuting' /\ BlockedIsCurrent'
  BY <1>1 DEF IInv, CurrentIsExecuting, get_current_thread, BlockedIsCurrent, Executing
<1>4. NoDuplicates' /\ ExitedAreGone' /\ ExitedNotWaiting'
  BY <1>1, SameRunQueue, SameJoinQueue
     DEF IInv, TypeOK, JoinTypeOK, NoDuplicates, ExitedAreGone, ExitedNotWaiting, Executing
<1>5. PtrTakenOff'
  BY <1>1 DEF PtrTakenOff, Executing
<1>6. OnlyKnown'
  BY <1>1, SameRunQueue, SameJoinQueue DEF IInv, OnlyKnown, Known, Executing
<1> QED  BY <1>1, <1>2, <1>3, <1>4, <1>5, <1>6 DEF IInv

LEMMA JoinReturnKeeps ==
  ASSUME IInv, NEW t \in Tid, JoinReturn(t) PROVE IInv'
<1>1. /\ join_waiting_queue' = join_waiting_queue /\ exit_thread_list' = exit_thread_list
      /\ run_queue' = run_queue /\ current_queue_number' = current_queue_number
      /\ yield_purpose' = yield_purpose /\ thread_number' = thread_number
      /\ pc' = [pc EXCEPT ![t] = "user"] /\ pc[t] = "join_return"
      /\ phase' = phase /\ cpu' = cpu /\ ptr' = ptr /\ wait_ptr' = wait_ptr
      /\ phase \in {"thread", "stalled"} /\ cpu = t
  BY DEF JoinReturn, OnProcessor, queueVars, threadVars, schedVars
<1>2. TypeOK'
  <2>1. QueueTypeOK' /\ ThreadTypeOK'
    BY <1>1 DEF IInv, TypeOK, QueueTypeOK, ThreadTypeOK, JoinReturn, PC,
                queueVars, threadVars
  <2>2. JoinTypeOK' /\ SchedTypeOK'
    BY <1>1 DEF IInv, TypeOK, JoinTypeOK, SchedTypeOK, JoinReturn
  <2> QED  BY <2>1, <2>2 DEF TypeOK
<1>3. CurrentIsExecuting'
  BY <1>1 DEF IInv, CurrentIsExecuting, get_current_thread
<1>4. BlockedIsCurrent'
  BY <1>1 DEF IInv, TypeOK, ThreadTypeOK, BlockedIsCurrent, Executing
<1>5. NoDuplicates' /\ ExitedAreGone' /\ ExitedNotWaiting'
  BY <1>1, SameRunQueue, SameJoinQueue
     DEF IInv, TypeOK, JoinTypeOK, NoDuplicates, ExitedAreGone, ExitedNotWaiting, Executing
<1>6. PtrTakenOff'
  BY <1>1 DEF PtrTakenOff, Executing
<1>7. OnlyKnown'
  <2>1. pc'[Main] = "create_add" => pc[Main] = "create_add"
    BY <1>1, MainIsThread DEF IInv, TypeOK, ThreadTypeOK
  <2>2. \A s \in Tid : Known(s) => Known(s)'
    BY <1>1, <2>1 DEF Known
  <2> QED  BY <1>1, <2>1, <2>2, SameRunQueue, SameJoinQueue
           DEF IInv, TypeOK, JoinTypeOK, OnlyKnown, Executing
<1> QED  BY <1>1, <1>2, <1>3, <1>4, <1>5, <1>6, <1>7 DEF IInv

LEMMA ExitReturnKeeps ==
  ASSUME IInv, NEW t \in Tid, ExitReturn(t) PROVE IInv'
<1>1. /\ join_waiting_queue' = join_waiting_queue /\ exit_thread_list' = exit_thread_list
      /\ run_queue' = run_queue /\ current_queue_number' = current_queue_number
      /\ yield_purpose' = yield_purpose /\ thread_number' = thread_number
      /\ pc' = [pc EXCEPT ![t] = "user"] /\ pc[t] = "exited"
      /\ phase' = phase /\ cpu' = cpu /\ ptr' = ptr /\ wait_ptr' = wait_ptr
      /\ phase = "stalled" /\ cpu = t
  BY DEF ExitReturn, joinVars, queueVars, threadVars, schedVars
<1>2. TypeOK'
  <2>1. QueueTypeOK' /\ ThreadTypeOK'
    BY <1>1 DEF IInv, TypeOK, QueueTypeOK, ThreadTypeOK, ExitReturn, PC,
                queueVars, threadVars
  <2>2. JoinTypeOK' /\ SchedTypeOK'
    BY <1>1 DEF IInv, TypeOK, JoinTypeOK, SchedTypeOK, ExitReturn, joinVars
  <2> QED  BY <2>1, <2>2 DEF TypeOK
<1>3. CurrentIsExecuting'
  BY <1>1 DEF IInv, CurrentIsExecuting, get_current_thread
<1>4. BlockedIsCurrent'
  BY <1>1 DEF IInv, TypeOK, ThreadTypeOK, BlockedIsCurrent, Executing
<1>5. NoDuplicates' /\ ExitedAreGone' /\ ExitedNotWaiting'
  BY <1>1, SameRunQueue, SameJoinQueue
     DEF IInv, TypeOK, JoinTypeOK, NoDuplicates, ExitedAreGone, ExitedNotWaiting, Executing
<1>6. PtrTakenOff'
  BY <1>1 DEF PtrTakenOff, Executing
<1>7. OnlyKnown'
  <2>1. pc'[Main] = "create_add" => pc[Main] = "create_add"
    BY <1>1, MainIsThread DEF IInv, TypeOK, ThreadTypeOK
  <2>2. \A s \in Tid : Known(s) => Known(s)'
    BY <1>1, <2>1 DEF Known
  <2> QED  BY <1>1, <2>1, <2>2, SameRunQueue, SameJoinQueue
           DEF IInv, TypeOK, JoinTypeOK, OnlyKnown, Executing
<1> QED  BY <1>1, <1>2, <1>3, <1>4, <1>5, <1>6, <1>7 DEF IInv

LEMMA JoinWaitKeeps ==
  ASSUME IInv, NEW t \in Tid, NEW u \in Tid, JoinWait(t, u) PROVE IInv'
<1>1. /\ exit_thread_list' = exit_thread_list
      /\ run_queue' = run_queue /\ current_queue_number' = current_queue_number
      /\ priority' = priority
      /\ thread_number' = thread_number /\ current_thread' = current_thread
      /\ pc' = [pc EXCEPT ![t] = "join_yield"] /\ pc[t] = "user"
      /\ phase' = phase /\ cpu' = cpu /\ ptr' = ptr /\ wait_ptr' = wait_ptr
      /\ Executing(t) /\ u < thread_number
  BY DEF JoinWait, queueVars, schedVars
<1>2. thread_number > 0
  BY <1>1, MainIsThread DEF IInv, TypeOK, ThreadTypeOK
<1>3. InRunQueue(t) /\ get_current_thread = t /\ cpu = t /\ phase = "thread"
      /\ t \notin exit_thread_list
  BY <1>1, <1>2, CallerIsHead
<1>4. ~Waiting(t)
  BY <1>1, <1>3, ReadyAndWaiting
<1>5. /\ yield_purpose' = [yield_purpose EXCEPT ![t] = Block]
      /\ join_waiting_queue' = Append(join_waiting_queue, [tcb |-> t, tid |-> u])
  BY <1>3 DEF JoinWait
<1>6. /\ join_waiting_queue' \in Seq(Waiter)
      /\ Len(join_waiting_queue') = Len(join_waiting_queue) + 1
      /\ \A s \in Tid : Waiting(s)' <=> Waiting(s) \/ s = t
      /\ UniqueInJoinQueue'
  BY <1>4, <1>5, AddJoin DEF IInv, TypeOK, JoinTypeOK, NoDuplicates
<1>7. TypeOK'
  <2>1. QueueTypeOK'
    BY <1>1 DEF IInv, TypeOK, QueueTypeOK
  <2>2. ThreadTypeOK'
    BY <1>1, <1>5 DEF IInv, TypeOK, ThreadTypeOK, PC
  <2>3. JoinTypeOK'
    BY <1>1, <1>6 DEF IInv, TypeOK, JoinTypeOK, JoinWait
  <2>4. SchedTypeOK'
    BY <1>1, <1>6 DEF IInv, TypeOK, JoinTypeOK, SchedTypeOK
  <2> QED  BY <2>1, <2>2, <2>3, <2>4 DEF TypeOK
<1>8. CurrentIsExecuting'
  BY <1>1 DEF IInv, CurrentIsExecuting, get_current_thread
<1>9. BlockedIsCurrent'
  BY <1>1, <1>3, <1>5 DEF IInv, TypeOK, ThreadTypeOK, BlockedIsCurrent, Executing
<1>10. NoDuplicates'
  <2>1. UniqueInRunQueues' /\ \A s \in Tid : InRunQueue(s)' <=> InRunQueue(s)
    BY <1>1, SameRunQueue DEF IInv, NoDuplicates
  <2>2. ASSUME NEW s \in Tid, InRunQueue(s), Waiting(s)
        PROVE  FALSE
    BY <2>2, <1>1, <1>3, <1>4, ReadyAndWaiting DEF Executing
  <2>3. Executing(t)' /\ yield_purpose'[t] = Block
    BY <1>1, <1>3, <1>5 DEF IInv, TypeOK, ThreadTypeOK, Executing
  <2> QED  BY <1>6, <2>1, <2>2, <2>3 DEF NoDuplicates
<1>11. ExitedAreGone' /\ ExitedNotWaiting'
  BY <1>1, <1>3, <1>6, SameRunQueue
     DEF IInv, TypeOK, JoinTypeOK, ExitedAreGone, ExitedNotWaiting
<1>12. PtrTakenOff'
  BY <1>1, <1>3 DEF PtrTakenOff
<1>13. OnlyKnown'
  <2>1. pc'[Main] = "create_add" => pc[Main] = "create_add"
    BY <1>1, MainIsThread DEF IInv, TypeOK, ThreadTypeOK
  <2>2. \A s \in Tid : Known(s) => Known(s)'
    BY <1>1, <2>1 DEF Known
  <2> QED  BY <1>1, <1>3, <1>6, <2>1, <2>2, SameRunQueue
           DEF IInv, TypeOK, JoinTypeOK, OnlyKnown
<1> QED  BY <1>1, <1>7, <1>8, <1>9, <1>10, <1>11, <1>12, <1>13 DEF IInv

LEMMA ExitStartKeeps ==
  ASSUME IInv, NEW t \in Tid, ExitStart(t) PROVE IInv'
<1>1. /\ join_waiting_queue' = join_waiting_queue /\ exit_thread_list' = exit_thread_list
      /\ join_target' = join_target /\ join_ret' = join_ret
      /\ run_queue' = run_queue /\ current_queue_number' = current_queue_number
      /\ priority' = priority
      /\ thread_number' = thread_number /\ current_thread' = current_thread
      /\ pc' = [pc EXCEPT ![t] = "exit_yield"] /\ pc[t] = "user"
      /\ phase' = phase /\ cpu' = cpu /\ ptr' = ptr /\ wait_ptr' = wait_ptr
      /\ Executing(t) /\ thread_number > 0
  BY DEF ExitStart, queueVars, schedVars
<1>2. get_current_thread = t /\ cpu = t /\ phase = "thread"
  BY <1>1, CallerIsHead
<1>3. yield_purpose' = [yield_purpose EXCEPT ![t] = Exit]
  BY <1>2 DEF ExitStart
<1>4. TypeOK'
  <2>1. QueueTypeOK' /\ SchedTypeOK'
    BY <1>1 DEF IInv, TypeOK, QueueTypeOK, SchedTypeOK
  <2>2. ThreadTypeOK'
    BY <1>1, <1>3 DEF IInv, TypeOK, ThreadTypeOK, PC
  <2>3. slot' \in [Tid -> Tid \cup {NoSlot, Unset}]
    BY DEF IInv, TypeOK, JoinTypeOK, ExitStart
  <2>4. JoinTypeOK'
    BY <1>1, <2>3 DEF IInv, TypeOK, JoinTypeOK
  <2> QED  BY <2>1, <2>2, <2>4 DEF TypeOK
<1>5. CurrentIsExecuting'
  BY <1>1 DEF IInv, CurrentIsExecuting, get_current_thread
<1>6. BlockedIsCurrent'
  BY <1>1, <1>2, <1>3
     DEF IInv, TypeOK, ThreadTypeOK, BlockedIsCurrent, Executing, Exit, Block
<1>7. NoDuplicates'
  <2>1. UniqueInRunQueues' /\ UniqueInJoinQueue'
    BY <1>1, SameRunQueue, SameJoinQueue DEF IInv, NoDuplicates
  <2>2. ASSUME NEW s \in Tid, InRunQueue(s), Waiting(s)
        PROVE  FALSE
    BY <2>2, <1>1, <1>2, ReadyAndWaiting DEF Executing
  <2> QED  BY <1>1, <2>1, <2>2, SameRunQueue, SameJoinQueue DEF NoDuplicates
<1>8. ExitedAreGone' /\ ExitedNotWaiting'
  BY <1>1, SameRunQueue, SameJoinQueue
     DEF IInv, TypeOK, JoinTypeOK, ExitedAreGone, ExitedNotWaiting
<1>9. PtrTakenOff'
  BY <1>1, <1>2 DEF PtrTakenOff
<1>10. OnlyKnown'
  <2>1. pc'[Main] = "create_add" => pc[Main] = "create_add"
    BY <1>1, MainIsThread DEF IInv, TypeOK, ThreadTypeOK
  <2>2. \A s \in Tid : Known(s) => Known(s)'
    BY <1>1, <2>1 DEF Known
  <2> QED  BY <1>1, <1>2, <2>1, <2>2, SameRunQueue, SameJoinQueue
           DEF IInv, TypeOK, JoinTypeOK, OnlyKnown
<1> QED  BY <1>1, <1>4, <1>5, <1>6, <1>7, <1>8, <1>9, <1>10 DEF IInv

---------------------------------------------------------------------------
(* The schedulers.  They take the running thread off the current queue, ...   *)
TakenOff ==
  /\ ptr' = get_current_thread
  /\ run_queue' = [run_queue EXCEPT ![current_queue_number] = Tail(@)]
  /\ priority' \in [Tid -> Nat \ {0}]
  /\ phase' = "handle"
  /\ wait_ptr' = 1
  /\ UNCHANGED <<current_queue_number, threadVars, joinVars>>

(* ... put a thread somewhere into one of the first two queues, ...           *)
QueueGains(t) ==
  /\ RunQueueType' /\ run_queue'[3] = run_queue[3]
  /\ \A s \in Tid : InRunQueue(s)' <=> InRunQueue(s) \/ s = t
  /\ UniqueInRunQueues /\ ~InRunQueue(t) => UniqueInRunQueues'

(* ... namely the one whose quantum is over, or one whose join is, ...        *)
Requeued ==
  /\ phase = "handle" /\ yield_purpose[ptr] = Timeout
  /\ QueueGains(ptr)
  /\ priority' \in [Tid -> Nat \ {0}]
  /\ phase' = "dispatch"
  /\ UNCHANGED <<threadVars, joinVars, pc, current_queue_number, ptr, wait_ptr>>

(* ... and unlink the node of that join, maybe with others, and go on from    *)
(* where they are in the list or from its beginning.                          *)
ListLoses(n) ==
  /\ join_waiting_queue' \in Seq(Waiter)
  /\ \A i \in 1 .. Len(join_waiting_queue') :
       \E k \in 1 .. Len(join_waiting_queue) \ {n} :
         join_waiting_queue'[i] = join_waiting_queue[k]
  /\ UniqueInJoinQueue => UniqueInJoinQueue'
  /\ wait_ptr' \in 1 .. Len(join_waiting_queue') + 1
  /\ \A i \in 1 .. wait_ptr' - 1 :
       i < wait_ptr /\ join_waiting_queue'[i] = join_waiting_queue[i]

Woken ==
  /\ Exits /\ wait_ptr <= Len(join_waiting_queue)
  /\ join_waiting_queue[wait_ptr].tid = ptr
  /\ QueueGains(join_waiting_queue[wait_ptr].tcb)
  /\ priority' \in [Tid -> Nat \ {0}]
  /\ ListLoses(wait_ptr)
  /\ UNCHANGED <<threadVars, pc, current_queue_number, exit_thread_list,
                 join_target, join_ret, slot, phase, ptr>>

(* Tick and Yield: the thread is taken off the processor and its queue.       *)
LEMMA TakenOffKeeps ==
  ASSUME IInv, NEW t \in Tid, Executing(t), thread_number > 0, TakenOff,
         pc' \in [Tid -> PC], pc'[Main] = "create_add" <=> pc[Main] = "create_add"
  PROVE  IInv'
<1>1. /\ ptr' = get_current_thread
      /\ run_queue' = [run_queue EXCEPT ![current_queue_number] = Tail(@)]
      /\ priority' \in [Tid -> Nat \ {0}] /\ phase' = "handle" /\ wait_ptr' = 1
      /\ current_queue_number' = current_queue_number
      /\ yield_purpose' = yield_purpose /\ thread_number' = thread_number
      /\ current_thread' = current_thread /\ cpu' = cpu
      /\ join_waiting_queue' = join_waiting_queue /\ exit_thread_list' = exit_thread_list
      /\ join_target' = join_target /\ join_ret' = join_ret /\ slot' = slot
  BY DEF TakenOff, threadVars, joinVars
<1>2. /\ run_queue[current_queue_number] # << >> /\ current_queue_number \in 1 .. 3
      /\ Head(run_queue[current_queue_number]) = t
      /\ cpu = t /\ ptr' = t /\ phase = "thread" /\ t \notin exit_thread_list
  BY <1>1, CallerIsHead DEF IInv, TypeOK, QueueTypeOK, get_current_thread
<1>3. /\ RunQueueType' /\ run_queue'[3] = << >>
      /\ InRunQueue(t)
      /\ \A s \in Tid : InRunQueue(s)' <=> InRunQueue(s) /\ s # t
      /\ UniqueInRunQueues'
  BY <1>1, <1>2, RemoveMember
     DEF IInv, TypeOK, QueueTypeOK, RunQueueType, NoDuplicates
<1>4. UniqueInJoinQueue' /\ \A s \in Tid : Waiting(s)' <=> Waiting(s)
  BY <1>1, SameJoinQueue DEF IInv, NoDuplicates
<1>5. TypeOK'
  <2>2. QueueTypeOK'
    BY <1>1, <1>2, <1>3 DEF QueueTypeOK, RunQueueType
  <2>3. ThreadTypeOK'
    BY <1>1 DEF IInv, TypeOK, ThreadTypeOK
  <2>4. JoinTypeOK' /\ SchedTypeOK'
    BY <1>1, <1>2 DEF IInv, TypeOK, JoinTypeOK, SchedTypeOK
  <2> QED  BY <2>2, <2>3, <2>4 DEF TypeOK
<1>6. CurrentIsExecuting' /\ ExitedAreGone' /\ ExitedNotWaiting'
  BY <1>1, <1>3, <1>4
     DEF IInv, TypeOK, JoinTypeOK, CurrentIsExecuting, ExitedAreGone, ExitedNotWaiting
<1>7. BlockedIsCurrent'
  BY <1>1, <1>2 DEF IInv, BlockedIsCurrent, Executing
<1>8. NoDuplicates'
  <2>1. ASSUME NEW s \in Tid, InRunQueue(s)', Waiting(s)'
        PROVE  FALSE
    BY <2>1, <1>2, <1>3, <1>4, ReadyAndWaiting DEF Executing
  <2> QED  BY <1>3, <1>4, <2>1 DEF NoDuplicates
<1>9. PtrTakenOff'
  <2>1. Waiting(t) => yield_purpose[t] = Block
    BY <1>3, ReadyAndWaiting
  <2> QED  BY <1>1, <1>2, <1>3, <1>4, <2>1 DEF PtrTakenOff
<1>10. OnlyKnown'
  <2>1. \A s \in Tid : Known(s) <=> Known(s)'
    BY <1>1 DEF Known
  <2>2. Known(t)'
    BY <1>3, <2>1 DEF IInv, OnlyKnown
  <2> QED  BY <1>1, <1>2, <1>3, <1>4, <2>1, <2>2
           DEF IInv, TypeOK, JoinTypeOK, OnlyKnown
<1> QED  BY <1>3, <1>5, <1>6, <1>7, <1>8, <1>9, <1>10 DEF IInv

(* The two ways into the scheduler.                                           *)
Interrupted(t) == Executing(t) /\ thread_number > 0 /\ TakenOff /\ UNCHANGED pc

Yielded(t) ==
  /\ Executing(t) /\ thread_number > 0 /\ TakenOff
  /\ pc[t] \in {"user", "join_yield", "exit_yield"}
  /\ pc' = [pc EXCEPT ![t] = CASE @ = "user" -> "user"
                               [] @ = "join_yield" -> "join_return"
                               [] @ = "exit_yield" -> "exited"]

LEMMA InterruptedKeeps == ASSUME IInv, NEW t \in Tid, Interrupted(t) PROVE IInv'
<1>1. /\ Executing(t) /\ thread_number > 0 /\ TakenOff /\ pc' = pc
  BY DEF Interrupted
<1>2. pc' \in [Tid -> PC]
  BY <1>1 DEF IInv, TypeOK, ThreadTypeOK
<1> QED  BY <1>1, <1>2, TakenOffKeeps

LEMMA YieldedKeeps == ASSUME IInv, NEW t \in Tid, Yielded(t) PROVE IInv'
<1>1. /\ Executing(t) /\ thread_number > 0 /\ TakenOff
      /\ pc[t] \in {"user", "join_yield", "exit_yield"} /\ pc \in [Tid -> PC]
  BY DEF Yielded, IInv, TypeOK, ThreadTypeOK
<1>2. PICK c \in {"user", "join_return", "exited"} : pc' = [pc EXCEPT ![t] = c]
  <2>1. CASE pc[t] = "user"
    BY <2>1, <1>1 DEF Yielded
  <2>2. CASE pc[t] = "join_yield"
    BY <2>2, <1>1 DEF Yielded
  <2>3. CASE pc[t] = "exit_yield"
    BY <2>3, <1>1 DEF Yielded
  <2> QED  BY <1>1, <2>1, <2>2, <2>3
<1>3. pc' \in [Tid -> PC]
  BY <1>1, <1>2 DEF PC
<1>4. pc'[Main] = "create_add" <=> pc[Main] = "create_add"
  BY <1>1, <1>2, MainIsThread
<1> QED  BY <1>1, <1>3, <1>4, TakenOffKeeps

(* In the scheduler no thread is both ready and waiting, and ptr is nowhere.  *)
LEMMA InHandle ==
  ASSUME IInv, phase = "handle"
  PROVE  /\ ptr \in Tid /\ ~InRunQueue(ptr) /\ ptr \notin exit_thread_list /\ ptr = cpu
         /\ yield_purpose[ptr] # Block => ~Waiting(ptr)
         /\ \A s \in Tid : ~(InRunQueue(s) /\ Waiting(s))
         /\ \A s \in Tid : yield_purpose[s] = Block => s = ptr
         /\ Known(ptr)
<1>1. \A s \in Tid : ~Executing(s)
  BY DEF Executing
<1>2. \A s \in Tid : ~(InRunQueue(s) /\ Waiting(s))
  BY <1>1, ReadyAndWaiting
<1>3. \A s \in Tid : yield_purpose[s] = Block => s = ptr
  BY <1>1 DEF IInv, BlockedIsCurrent
<1> QED  BY <1>2, <1>3 DEF IInv, TypeOK, SchedTypeOK, PtrTakenOff, OnlyKnown

LEMMA RequeuedKeeps == ASSUME IInv, Requeued PROVE IInv'
<1>1. /\ phase = "handle" /\ phase' = "dispatch" /\ yield_purpose[ptr] = Timeout
      /\ join_waiting_queue' = join_waiting_queue /\ exit_thread_list' = exit_thread_list
      /\ current_queue_number' = current_queue_number /\ thread_number' = thread_number
      /\ yield_purpose' = yield_purpose /\ pc' = pc /\ cpu' = cpu /\ ptr' = ptr
      /\ wait_ptr' = wait_ptr
  BY DEF Requeued, threadVars, joinVars
<1>3. /\ RunQueueType' /\ run_queue'[3] = << >>
      /\ \A s \in Tid : InRunQueue(s)' <=> InRunQueue(s) \/ s = ptr
      /\ UniqueInRunQueues'
  BY <1>1, InHandle DEF Requeued, QueueGains, IInv, NoDuplicates
<1>4. UniqueInJoinQueue' /\ \A s \in Tid : Waiting(s)' <=> Waiting(s)
  BY <1>1, SameJoinQueue DEF IInv, NoDuplicates
<1>5. TypeOK'
  <2>1. QueueTypeOK'
    BY <1>1, <1>3 DEF Requeued, IInv, TypeOK, QueueTypeOK, RunQueueType
  <2>2. ThreadTypeOK'
    BY DEF Requeued, threadVars, IInv, TypeOK, ThreadTypeOK
  <2>3. JoinTypeOK' /\ SchedTypeOK'
    BY <1>1 DEF Requeued, joinVars, IInv, TypeOK, JoinTypeOK, SchedTypeOK
  <2> QED  BY <2>1, <2>2, <2>3 DEF TypeOK
<1>6. CurrentIsExecuting' /\ ExitedAreGone' /\ ExitedNotWaiting'
  BY <1>1, <1>3, <1>4, InHandle
     DEF IInv, TypeOK, JoinTypeOK, CurrentIsExecuting, ExitedAreGone, ExitedNotWaiting
<1>7. BlockedIsCurrent'
  BY <1>1, InHandle DEF BlockedIsCurrent, Timeout, Block
<1>8. NoDuplicates'
  BY <1>1, <1>3, <1>4, InHandle DEF NoDuplicates, Timeout, Block
<1>9. PtrTakenOff'
  BY <1>1, InHandle DEF PtrTakenOff
<1>10. OnlyKnown'
  <2>1. \A s \in Tid : Known(s) <=> Known(s)'
    BY <1>1 DEF Known
  <2> QED  BY <1>1, <1>3, <1>4, <2>1, InHandle
           DEF IInv, TypeOK, JoinTypeOK, OnlyKnown
<1> QED  BY <1>3, <1>5, <1>6, <1>7, <1>8, <1>9, <1>10 DEF IInv

LEMMA HandleBlockKeeps == ASSUME IInv, HandleBlock PROVE IInv'
<1>1. /\ phase = "handle" /\ phase' = "dispatch"
      /\ join_waiting_queue' = join_waiting_queue /\ exit_thread_list' = exit_thread_list
      /\ run_queue' = run_queue
      /\ current_queue_number' = current_queue_number /\ thread_number' = thread_number
      /\ yield_purpose' = [yield_purpose EXCEPT ![ptr] = Timeout]
      /\ pc' = pc /\ cpu' = cpu /\ ptr' = ptr /\ wait_ptr' = wait_ptr
  BY DEF HandleBlock, queueVars, joinVars
<1>2. TypeOK'
  <2>1. QueueTypeOK'
    BY DEF HandleBlock, queueVars, IInv, TypeOK, QueueTypeOK
  <2>2. ThreadTypeOK'
    BY DEF HandleBlock, IInv, TypeOK, ThreadTypeOK
  <2>3. JoinTypeOK' /\ SchedTypeOK'
    BY <1>1 DEF HandleBlock, joinVars, IInv, TypeOK, JoinTypeOK, SchedTypeOK
  <2> QED  BY <2>1, <2>2, <2>3 DEF TypeOK
<1>3. CurrentIsExecuting' /\ ExitedAreGone' /\ ExitedNotWaiting'
  BY <1>1, SameRunQueue, SameJoinQueue
     DEF IInv, TypeOK, JoinTypeOK, CurrentIsExecuting, ExitedAreGone, ExitedNotWaiting
<1>4. BlockedIsCurrent'
  BY <1>1, InHandle
     DEF IInv, TypeOK, ThreadTypeOK, BlockedIsCurrent, Timeout, Block
<1>5. NoDuplicates'
  BY <1>1, InHandle, SameRunQueue, SameJoinQueue DEF IInv, NoDuplicates
<1>6. PtrTakenOff'
  BY <1>1, InHandle DEF PtrTakenOff
<1>7. OnlyKnown'
  BY <1>1, SameRunQueue, SameJoinQueue
     DEF IInv, TypeOK, JoinTypeOK, OnlyKnown, Known
<1> QED  BY <1>1, <1>2, <1>3, <1>4, <1>5, <1>6, <1>7 DEF IInv

LEMMA WokenKeeps == ASSUME IInv, Woken PROVE IInv'
<1> DEFINE j == join_waiting_queue[wait_ptr].tcb
<1>1. /\ phase = "handle" /\ phase' = "handle" /\ yield_purpose[ptr] = Exit
      /\ wait_ptr <= Len(join_waiting_queue)
      /\ ListLoses(wait_ptr) /\ QueueGains(j) /\ priority' \in [Tid -> Nat \ {0}]
      /\ exit_thread_list' = exit_thread_list /\ current_queue_number' = current_queue_number
      /\ yield_purpose' = yield_purpose /\ thread_number' = thread_number
      /\ pc' = pc /\ cpu' = cpu /\ ptr' = ptr
      /\ join_target' = join_target /\ join_ret' = join_ret /\ slot' = slot
  BY DEF Woken, Exits, threadVars
<1>2. wait_ptr \in 1 .. Len(join_waiting_queue)
  BY <1>1 DEF IInv, TypeOK, SchedTypeOK, JoinTypeOK
<1>3. j \in Tid /\ Waiting(j)
  <2>1. join_waiting_queue[wait_ptr] \in Waiter
    BY <1>2 DEF IInv, TypeOK, JoinTypeOK
  <2> QED  BY <1>2, <2>1 DEF Waiter, Waiting
<1>4. j # ptr /\ ~InRunQueue(j) /\ j \notin exit_thread_list /\ Known(j)
  <2>1. ~Waiting(ptr)
    BY <1>1, InHandle DEF Exit, Block
  <2> QED  BY <1>1, <1>3, <2>1, InHandle DEF IInv, ExitedNotWaiting, OnlyKnown
<1>5. /\ join_waiting_queue' \in Seq(Waiter)
      /\ \A s \in Tid : Waiting(s)' => Waiting(s) /\ s # j
      /\ UniqueInJoinQueue'
  <2>1. UniqueInJoinQueue'
    BY <1>1 DEF ListLoses, IInv, NoDuplicates
  <2>2. ASSUME NEW s \in Tid, Waiting(s)' PROVE Waiting(s) /\ s # j
    <3>1. PICK i \in 1 .. Len(join_waiting_queue') : join_waiting_queue'[i].tcb = s
      BY <2>2 DEF Waiting
    <3>2. PICK k \in 1 .. Len(join_waiting_queue) \ {wait_ptr} :
            join_waiting_queue[k].tcb = s
      BY <1>1, <3>1 DEF ListLoses
    <3> QED  BY <1>2, <3>2 DEF Waiting, IInv, NoDuplicates, UniqueInJoinQueue
  <2> QED  BY <1>1, <2>1, <2>2 DEF ListLoses
<1> HIDE DEF j
<1>6. /\ RunQueueType' /\ run_queue'[3] = << >>
      /\ \A s \in Tid : InRunQueue(s)' <=> InRunQueue(s) \/ s = j
      /\ UniqueInRunQueues'
  BY <1>1, <1>4 DEF QueueGains, IInv, NoDuplicates
<1>7. TypeOK'
  <2>1. QueueTypeOK'
    BY <1>1, <1>6 DEF IInv, TypeOK, QueueTypeOK, RunQueueType
  <2>2. ThreadTypeOK'
    BY DEF Woken, threadVars, IInv, TypeOK, ThreadTypeOK
  <2>3. JoinTypeOK'
    BY <1>1, <1>5 DEF IInv, TypeOK, JoinTypeOK
  <2>4. SchedTypeOK'
    BY <1>1 DEF ListLoses, IInv, TypeOK, SchedTypeOK
  <2> QED  BY <2>1, <2>2, <2>3, <2>4 DEF TypeOK
<1>8. CurrentIsExecuting' /\ ExitedAreGone' /\ ExitedNotWaiting'
  BY <1>1, <1>4, <1>5, <1>6
     DEF IInv, TypeOK, JoinTypeOK, CurrentIsExecuting, ExitedAreGone, ExitedNotWaiting
<1>9. BlockedIsCurrent'
  BY <1>1, InHandle DEF BlockedIsCurrent
<1>10. NoDuplicates'
  BY <1>1, <1>5, <1>6, InHandle DEF NoDuplicates
<1>11. PtrTakenOff'
  BY <1>1, <1>4, <1>5, <1>6, InHandle DEF PtrTakenOff
<1>12. OnlyKnown'
  <2>1. \A s \in Tid : Known(s) <=> Known(s)'
    BY <1>1 DEF Known
  <2> QED  BY <1>1, <1>4, <1>5, <1>6, <2>1, InHandle
           DEF IInv, TypeOK, JoinTypeOK, OnlyKnown
<1> QED  BY <1>6, <1>7, <1>8, <1>9, <1>10, <1>11, <1>12 DEF IInv

LEMMA HandleExitSkipKeeps == ASSUME IInv, HandleExitSkip PROVE IInv'
<1>1. /\ UNCHANGED <<queueVars, threadVars, joinVars, pc, phase, ptr>>
      /\ wait_ptr' = wait_ptr + 1 /\ wait_ptr <= Len(join_waiting_queue)
  BY DEF HandleExitSkip
<1>2. TypeOK'
  <2>1. QueueTypeOK' /\ ThreadTypeOK'
    BY <1>1 DEF IInv, TypeOK, QueueTypeOK, ThreadTypeOK, queueVars, threadVars
  <2>2. JoinTypeOK' /\ SchedTypeOK'
    BY <1>1 DEF IInv, TypeOK, JoinTypeOK, SchedTypeOK, joinVars
  <2> QED  BY <2>1, <2>2 DEF TypeOK
<1>3. /\ CurrentIsExecuting' /\ NoDuplicates' /\ ExitedAreGone'
      /\ run_queue'[3] = << >> /\ BlockedIsCurrent' /\ PtrTakenOff'
      /\ OnlyKnown' /\ ExitedNotWaiting'
  BY <1>1 DEF IInv, CurrentIsExecuting, get_current_thread, NoDuplicates,
              UniqueInRunQueues, UniqueInJoinQueue, InRunQueue, InQueue, Waiting,
              ExitedAreGone, BlockedIsCurrent, Executing, PtrTakenOff, OnlyKnown,
              Known, ExitedNotWaiting, queueVars, threadVars, joinVars
<1> QED  BY <1>2, <1>3 DEF IInv

LEMMA HandleExitDoneKeeps == ASSUME IInv, HandleExitDone PROVE IInv'
<1>1. /\ phase = "handle" /\ phase' = "dispatch" /\ yield_purpose[ptr] = Exit
      /\ exit_thread_list' = exit_thread_list \cup {ptr} /\ wait_ptr' = 1
      /\ join_waiting_queue' = join_waiting_queue
      /\ join_target' = join_target /\ join_ret' = join_ret /\ slot' = slot
      /\ run_queue' = run_queue /\ current_queue_number' = current_queue_number
      /\ yield_purpose' = yield_purpose /\ thread_number' = thread_number
      /\ pc' = pc /\ cpu' = cpu /\ ptr' = ptr
  BY DEF HandleExitDone, Exits, queueVars, threadVars
<1>2. ~Waiting(ptr)
  BY <1>1, InHandle DEF Exit, Block
<1>3. TypeOK'
  <2>1. QueueTypeOK' /\ ThreadTypeOK'
    BY DEF HandleExitDone, queueVars, threadVars, IInv, TypeOK, QueueTypeOK,
           ThreadTypeOK
  <2>2. JoinTypeOK' /\ SchedTypeOK'
    BY <1>1 DEF IInv, TypeOK, JoinTypeOK, SchedTypeOK
  <2> QED  BY <2>1, <2>2 DEF TypeOK
<1>4. CurrentIsExecuting' /\ ExitedAreGone' /\ ExitedNotWaiting'
  BY <1>1, <1>2, InHandle, SameRunQueue, SameJoinQueue
     DEF IInv, TypeOK, JoinTypeOK, CurrentIsExecuting, ExitedAreGone, ExitedNotWaiting
<1>5. BlockedIsCurrent'
  BY <1>1, InHandle DEF BlockedIsCurrent, Exit, Block
<1>6. NoDuplicates'
  BY <1>1, InHandle, SameRunQueue, SameJoinQueue DEF IInv, NoDuplicates
<1>7. PtrTakenOff'
  BY <1>1, InHandle DEF PtrTakenOff
<1>8. OnlyKnown'
  <2>1. \A s \in Tid : Known(s) <=> Known(s)'
    BY <1>1 DEF Known
  <2> QED  BY <1>1, <2>1, InHandle, SameRunQueue, SameJoinQueue
           DEF IInv, TypeOK, JoinTypeOK, OnlyKnown
<1> QED  BY <1>1, <1>3, <1>4, <1>5, <1>6, <1>7, <1>8 DEF IInv

(* The chosen queue has a thread, and it is the first or the second one.      *)
LEMMA HighestIsReady ==
  ASSUME IInv, get_highest_priority # 0
  PROVE  /\ get_highest_priority \in {1, 2}
         /\ run_queue[get_highest_priority] # << >>
BY DEF get_highest_priority, IInv

LEMMA DispatchKeeps == ASSUME IInv, Dispatch PROVE IInv'
<1> DEFINE k == get_highest_priority
           next == Head(run_queue[k])
<1>1. /\ phase = "dispatch" /\ k \in {1, 2} /\ run_queue[k] # << >> /\ ptr = cpu
  BY HighestIsReady DEF Dispatch, IInv, PtrTakenOff
<1>2. next \in Tid /\ InRunQueue(next)
  <2>1. run_queue[k] \in Seq(Tid)
    BY <1>1 DEF IInv, TypeOK, QueueTypeOK
  <2>2. 1 \in 1 .. Len(run_queue[k]) /\ run_queue[k][1] = next /\ next \in Tid
    BY <1>1, <2>1
  <2> QED  BY <1>1, <2>2 DEF InRunQueue, InQueue
<1>3. /\ phase' = "thread" /\ current_queue_number' = k
      /\ cpu' = next /\ current_thread' \in {current_thread, next}
      /\ join_waiting_queue' = join_waiting_queue /\ exit_thread_list' = exit_thread_list
      /\ join_target' = join_target /\ join_ret' = join_ret /\ slot' = slot
      /\ run_queue' = run_queue /\ priority' = priority
      /\ yield_purpose' = yield_purpose /\ thread_number' = thread_number
      /\ pc' = pc /\ ptr' = ptr /\ wait_ptr' = wait_ptr
  BY <1>1 DEF Dispatch, joinVars
<1> HIDE DEF k
<1>4. TypeOK'
  <2>1. QueueTypeOK'
    BY <1>1, <1>3 DEF IInv, TypeOK, QueueTypeOK
  <2>2. ThreadTypeOK'
    BY <1>2, <1>3 DEF IInv, TypeOK, ThreadTypeOK
  <2>3. JoinTypeOK' /\ SchedTypeOK'
    BY <1>3 DEF IInv, TypeOK, JoinTypeOK, SchedTypeOK
  <2> QED  BY <2>1, <2>2, <2>3 DEF TypeOK
<1>5. CurrentIsExecuting'
  BY <1>1, <1>3 DEF CurrentIsExecuting, get_current_thread
<1>6. ExitedAreGone' /\ ExitedNotWaiting'
  BY <1>2, <1>3, SameRunQueue, SameJoinQueue
     DEF IInv, TypeOK, JoinTypeOK, ExitedAreGone, ExitedNotWaiting
<1>7. NoDuplicates'
  <2>1. \A s \in Tid : ~(InRunQueue(s) /\ Waiting(s))
    BY <1>1, ReadyAndWaiting DEF Executing
  <2> QED  BY <1>3, <2>1, SameRunQueue, SameJoinQueue DEF IInv, NoDuplicates
<1>8. BlockedIsCurrent'
  BY <1>1, <1>3 DEF IInv, BlockedIsCurrent, Executing
<1>9. PtrTakenOff'
  BY <1>3 DEF PtrTakenOff
<1>10. OnlyKnown'
  BY <1>3, SameRunQueue, SameJoinQueue
     DEF IInv, TypeOK, JoinTypeOK, OnlyKnown, Known
<1> QED  BY <1>3, <1>4, <1>5, <1>6, <1>7, <1>8, <1>9, <1>10 DEF IInv

(* A pass that reaches no thread: the queue is empty, or a signal has come    *)
(* before the switch.                                                         *)
Ends ==
  /\ phase = "dispatch"
  /\ \/ phase' = "sentinel" /\ get_highest_priority = 0
     \/ phase' = "crossed"
  /\ UNCHANGED <<queueVars, threadVars, joinVars, pc, ptr, wait_ptr>>

LEMMA StallKeeps == ASSUME IInv, Stall \/ Ends PROVE IInv'
<1>1. /\ UNCHANGED <<queueVars, threadVars, joinVars, pc, ptr, wait_ptr>>
      /\ phase = "dispatch" /\ phase' \in {"stalled", "sentinel", "crossed"}
  BY DEF Stall, Ends
<1>2. TypeOK'
  <2>1. QueueTypeOK' /\ ThreadTypeOK'
    BY <1>1 DEF IInv, TypeOK, QueueTypeOK, ThreadTypeOK, queueVars, threadVars
  <2>2. JoinTypeOK' /\ SchedTypeOK'
    BY <1>1 DEF IInv, TypeOK, JoinTypeOK, SchedTypeOK, joinVars
  <2> QED  BY <2>1, <2>2 DEF TypeOK
<1>3. /\ CurrentIsExecuting' /\ NoDuplicates' /\ ExitedAreGone'
      /\ run_queue'[3] = << >> /\ BlockedIsCurrent' /\ PtrTakenOff'
      /\ OnlyKnown' /\ ExitedNotWaiting'
  BY <1>1 DEF IInv, CurrentIsExecuting, get_current_thread, NoDuplicates,
              UniqueInRunQueues, UniqueInJoinQueue, InRunQueue, InQueue, Waiting,
              ExitedAreGone, BlockedIsCurrent, Executing, PtrTakenOff, OnlyKnown,
              Known, ExitedNotWaiting, queueVars, threadVars, joinVars
<1> QED  BY <1>2, <1>3 DEF IInv

LEMMA StutterKeeps == ASSUME IInv, UNCHANGED vars PROVE IInv'
<1>1. TypeOK'
  BY DEF IInv, TypeOK, QueueTypeOK, ThreadTypeOK, JoinTypeOK, SchedTypeOK,
         vars, queueVars, threadVars, joinVars, schedVars
<1>2. /\ CurrentIsExecuting' /\ NoDuplicates' /\ ExitedAreGone'
      /\ run_queue'[3] = << >> /\ BlockedIsCurrent' /\ PtrTakenOff'
      /\ OnlyKnown' /\ ExitedNotWaiting'
  BY DEF IInv, CurrentIsExecuting, get_current_thread, NoDuplicates,
         UniqueInRunQueues, UniqueInJoinQueue, InRunQueue, InQueue, Waiting,
         ExitedAreGone, BlockedIsCurrent, Executing, PtrTakenOff, OnlyKnown,
         Known, ExitedNotWaiting, vars, queueVars, threadVars, joinVars, schedVars
<1> QED  BY <1>1, <1>2 DEF IInv

LEMMA InitInv == ASSUME Init PROVE IInv
<1> USE MainIsThread
<1>1. TypeOK
  <2>1. QueueTypeOK /\ ThreadTypeOK
    BY MlfqAssumption DEF Init, QueueTypeOK, ThreadTypeOK, PC
  <2>2. JoinTypeOK /\ SchedTypeOK
    BY DEF Init, JoinTypeOK, SchedTypeOK
  <2> QED  BY <2>1, <2>2 DEF TypeOK
<1>2. \A t \in Tid : ~InRunQueue(t) /\ ~Waiting(t)
  BY DEF Init, InRunQueue, InQueue, Waiting
<1>3. NoDuplicates
  BY <1>2 DEF Init, NoDuplicates, UniqueInRunQueues, UniqueInJoinQueue
<1>4. CurrentIsExecuting /\ ExitedAreGone /\ ExitedNotWaiting /\ run_queue[3] = << >>
  BY DEF Init, CurrentIsExecuting, ExitedAreGone, ExitedNotWaiting
<1>5. BlockedIsCurrent /\ PtrTakenOff /\ OnlyKnown
  BY <1>2 DEF Init, BlockedIsCurrent, PtrTakenOff, OnlyKnown, Timeout, Block
<1> QED  BY <1>1, <1>3, <1>4, <1>5 DEF IInv

---------------------------------------------------------------------------
(* The steps of any of the schedulers. *)

AnyThreadStep(t) ==
  \/ \E u \in Tid : JoinExited(t, u) \/ JoinWait(t, u)
  \/ JoinReturn(t)
  \/ ExitStart(t) \/ ExitReturn(t)
  \/ Yielded(t)
  \/ Interrupted(t)

AnySchedStep ==
  \/ Requeued \/ HandleBlock
  \/ Woken \/ HandleExitSkip \/ HandleExitDone
  \/ Dispatch \/ Stall \/ Ends

AnyNext == Create \/ (\E t \in Tid : AnyThreadStep(t)) \/ AnySchedStep

LEMMA AnyStepKeepsInv == ASSUME IInv, [AnyNext]_vars PROVE IInv'
<1>1. CASE Create
  BY <1>1, CreateFirstKeeps, CreateThreadKeeps, CreateAddKeeps DEF Create
<1>2. ASSUME NEW t \in Tid, AnyThreadStep(t) PROVE IInv'
  BY <1>2, JoinExitedKeeps, JoinWaitKeeps, JoinReturnKeeps, ExitStartKeeps,
     ExitReturnKeeps, YieldedKeeps, InterruptedKeeps DEF AnyThreadStep
<1>3. CASE AnySchedStep
  BY <1>3, RequeuedKeeps, HandleBlockKeeps, WokenKeeps,
     HandleExitSkipKeeps, HandleExitDoneKeeps, DispatchKeeps, StallKeeps
     DEF AnySchedStep
<1>4. CASE UNCHANGED vars
  BY <1>4, StutterKeeps
<1> QED  BY <1>1, <1>2, <1>3, <1>4 DEF AnyNext

(* Those of Mlfq are among them.                                              *)
LEMMA PrioritiesPositive == {PriorityT1, PriorityT2, PriorityT3} \subseteq Nat \ {0}
BY MlfqAssumption

LEMMA DescheduleTakesOff ==
  ASSUME IInv, Deschedule, run_queue[current_queue_number] # << >> PROVE TakenOff
<1>1. RunQueueType'
  BY RemoveMember DEF IInv, NoDuplicates, TypeOK, QueueTypeOK, RunQueueType, Deschedule
<1>2. priority' \in [Tid -> Nat \ {0}]
  BY <1>1, AgeType DEF IInv, TypeOK, QueueTypeOK, RunQueueType, Deschedule
<1> QED  BY <1>2 DEF Deschedule, TakenOff

LEMMA DescheduleAges ==
  ASSUME IInv, Deschedule, run_queue[current_queue_number] # << >>, NEW t \in Tid
  PROVE  /\ InRunQueue(t)' => priority'[t] = priority[t] + 1
         /\ ~InRunQueue(t)' => priority'[t] = priority[t]
<1>1. RunQueueType' /\ UniqueInRunQueues'
  BY RemoveMember DEF IInv, NoDuplicates, TypeOK, QueueTypeOK, RunQueueType, Deschedule
<1> QED  BY <1>1, AgesOnce DEF IInv, TypeOK, QueueTypeOK, Deschedule

LEMMA HandleTimeoutRequeues == ASSUME IInv, HandleTimeout PROVE Requeued
<1>1. PICK num \in 1 .. 3, p \in {PriorityT2, PriorityT3} :
        run_queue' = add_to_run_queue(num, ptr) /\ priority' = [priority EXCEPT ![ptr] = p]
  BY DEF HandleTimeout
<1>2. QueueGains(ptr)
  BY <1>1, AddMember DEF QueueGains, IInv, TypeOK, QueueTypeOK, SchedTypeOK, RunQueueType
<1>3. priority' \in [Tid -> Nat \ {0}]
  BY <1>1, PrioritiesPositive DEF IInv, TypeOK, QueueTypeOK
<1> QED  BY <1>2, <1>3 DEF HandleTimeout, Requeued

LEMMA UnlinkLoses ==
  ASSUME join_waiting_queue \in Seq(Waiter), NEW n \in 1 .. Len(join_waiting_queue),
         join_waiting_queue' = UnlinkJoin(n), wait_ptr' = 1
  PROVE  ListLoses(n)
<1>1. /\ join_waiting_queue' \in Seq(Waiter)
      /\ Len(join_waiting_queue) \in Nat
      /\ Len(join_waiting_queue') = Len(join_waiting_queue) - n
      /\ \A i \in 1 .. Len(join_waiting_queue') :
           join_waiting_queue'[i] = join_waiting_queue[i + n]
  BY DEF UnlinkJoin
<1>2. ASSUME NEW i \in 1 .. Len(join_waiting_queue')
      PROVE  \E k \in 1 .. Len(join_waiting_queue) \ {n} :
               join_waiting_queue'[i] = join_waiting_queue[k]
  <2>1. i + n \in 1 .. Len(join_waiting_queue) \ {n}
    BY <1>1
  <2> QED  BY <1>1, <2>1
<1>3. UniqueInJoinQueue => UniqueInJoinQueue'
  BY RemoveJoin
<1>4. wait_ptr' \in 1 .. Len(join_waiting_queue') + 1
  BY <1>1
<1> QED  BY <1>1, <1>2, <1>3, <1>4 DEF ListLoses

LEMMA HandleExitWakeWakes == ASSUME IInv, HandleExitWake PROVE Woken
<1> DEFINE j == join_waiting_queue[wait_ptr].tcb
<1>1. /\ wait_ptr <= Len(join_waiting_queue)
      /\ join_waiting_queue' = UnlinkJoin(wait_ptr) /\ wait_ptr' = 1
      /\ priority' = [priority EXCEPT ![j] = PriorityT1]
      /\ run_queue' = add_to_run_queue(1, j)
  BY DEF HandleExitWake
<1>2. /\ wait_ptr \in 1 .. Len(join_waiting_queue)
      /\ join_waiting_queue \in Seq(Waiter)
  BY <1>1 DEF IInv, TypeOK, SchedTypeOK, JoinTypeOK
<1>3. j \in Tid
  <2>1. join_waiting_queue[wait_ptr] \in Waiter
    BY <1>2
  <2> QED  BY <2>1 DEF Waiter
<1> HIDE DEF j
<1>4. QueueGains(j)
  BY <1>1, <1>3, AddMember DEF QueueGains, IInv, TypeOK, QueueTypeOK, RunQueueType
<1>5. priority' \in [Tid -> Nat \ {0}]
  BY <1>1, PrioritiesPositive DEF IInv, TypeOK, QueueTypeOK
<1>6. ListLoses(wait_ptr)
  BY <1>1, <1>2, UnlinkLoses
<1> QED  BY <1>4, <1>5, <1>6 DEF HandleExitWake, Woken, j

LEMMA StepIsAny == ASSUME IInv, [Next]_vars PROVE [AnyNext]_vars
<1>1. ASSUME NEW t \in Tid, ThreadStep(t) PROVE AnyThreadStep(t)
  BY <1>1, DescheduleTakesOff, CallerIsHead
     DEF ThreadStep, AnyThreadStep, Tick, Yield, Interrupted, Yielded
<1>2. SchedStep => AnySchedStep
  BY HandleTimeoutRequeues, HandleExitWakeWakes DEF SchedStep, AnySchedStep
<1> QED  BY <1>1, <1>2 DEF Next, AnyNext

LEMMA StepKeepsInv == ASSUME IInv, [Next]_vars PROVE IInv'
BY StepIsAny, AnyStepKeepsInv

(* IInv holds in every reachable state: the calls, the signal at any place,   *)
(* and the scheduler keep where the executing, the marked, the blocked and    *)
(* the exited threads may be.                                                 *)
THEOREM InductiveInvariant == Spec => []IInv
<1>1. Init => IInv
  BY InitInv
<1>2. IInv /\ [Next]_vars => IInv'
  BY StepKeepsInv
<1> QED  BY <1>1, <1>2, PTL DEF Spec

---------------------------------------------------------------------------
(* What follows from it. *)

(* The variables keep their types.                                            *)
THEOREM TypeCorrect == Spec => []TypeOK
BY InductiveInvariant, PTL DEF IInv

(* The library calls, which all ask get_current_thread() who the caller is,   *)
(* are always answered with the thread that executes, whichever calls, ticks  *)
(* and switches led there.                                                    *)
THEOREM CurrentCorrect == Spec => []CurrentIsExecuting
BY InductiveInvariant, PTL DEF IInv

(* No thread is ever in two places of the run queues or of the join list.     *)
THEOREM NeverDuplicated == Spec => []NoDuplicates
BY InductiveInvariant, PTL DEF IInv

(* A control block that was freed is not in a run queue and not executed.     *)
THEOREM ExitedStayGone == Spec => []ExitedAreGone
BY InductiveInvariant, PTL DEF IInv
=============================================================================
