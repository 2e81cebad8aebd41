-------------------------- MODULE SchedulersProofs --------------------------
(***************************************************************************)
(* Proofs about Schedulers: what Mlfq keeps with the feedback queue round  *)
(* robin and PSJF keep too, up to a signal between their releases and      *)
(* their switch, and what they promise on top of that.                     *)
(***************************************************************************)
EXTENDS Schedulers, JoinProofs
LOCAL INSTANCE SequencesExt

(* The variables of Schedulers keep their types.                              *)
SqTypes ==
  /\ QUEUE_NUMBER \in QueueNumbers
  /\ waiting_time \in [Tid -> Int]
  /\ it_interval \in {0, Interval, RefusedInterval}
  /\ placed \subseteq Tid
  /\ unmasked \in BOOLEAN

(* Round robin and PSJF use the first queue only, ...                         *)
OneQueue == ~Feedback => run_queue[2] = << >> /\ current_queue_number = 1

(* ... and what PSJF has placed are threads that exist: a thread just created *)
(* is not among them.                                                         *)
PlacedAreKnown == \A t \in placed : Known(t)

(* Before a thread that PSJF has placed stands none that has waited for less, *)
(* even one that create has appended.                                         *)
OrderedBehind ==
  Psjf =>
    \A i, j \in 1 .. Len(run_queue[1]) :
      i < j /\ run_queue[1][j] \in placed =>
        waiting_time[run_queue[1][i]] >= waiting_time[run_queue[1][j]]

(* A thread that has exited or is about to is not in a join, ...              *)
ExitedNotInJoin ==
  \A t \in Tid : t \in exit_thread_list \/ yield_purpose[t] = Exit => ~InJoin(t)

(* ... one marked to block has its node in the join list, ...                 *)
BlockedIsWaiting == \A t \in Tid : yield_purpose[t] = Block => Waiting(t)

(* ... and none is lost, not even inside the scheduler.                       *)
AllPlaced ==
  \A t \in Tid : Known(t) => t \in exit_thread_list \/ Ready(t) \/ Waiting(t)

PInv == ExitedNotInJoin /\ BlockedIsWaiting /\ AllPlaced

(* A node of the join list comes from a join of the program; a thread that    *)
(* exits stays in mypthread_exit, unless no other thread is ready; main       *)
(* creates the threads.                                                       *)
NodesFromProgram ==
  \A i \in 1 .. Len(join_waiting_queue) :
    LET w == join_waiting_queue[i]
    IN  <<w.tcb, w.tid>> \in JoinPairs /\ w.tid < thread_number

InExit(t) == pc[t] \in {"exit_yield", "exited"}

ExitsForGood ==
  phase # "stalled" =>
    \A t \in Tid : t \in exit_thread_list \/ yield_purpose[t] = Exit => InExit(t)

MainCreates ==
  /\ pc[Main] = "create_add" => thread_number > 1
  /\ phase \in {"handle", "dispatch"} => thread_number > 0

CInv == NodesFromProgram /\ ExitsForGood /\ MainCreates

(* A program in which one thread makes all the joins.                         *)
OneJoiner == \A p, q \in JoinPairs : p[1] = q[1]

(* With IInv and JInv, the inductive invariant of any scheduler.              *)
SqInv ==
  /\ SqTypes
  /\ OneQueue
  /\ PlacedAreKnown
  /\ OrderedBehind
  /\ CInv
  /\ ~Feedback \/ OneJoiner => PInv
---------------------------------------------------------------------------
(* Lemmas: what the operations of the community modules do to a list. *)

(* The least index of a shorter wait, or 0, which SelectInSeq returns.        *)
LEMMA LeastIndex ==
  ASSUME NEW q \in Seq(Tid), NEW times \in [Tid -> Int], NEW t \in Tid,
         NEW I, I = {j \in 1 .. Len(q) : times[t] > times[q[j]]},
         NEW i, I = {} => i = 0, I # {} => i \in I /\ \A y \in I : i <= y
  PROVE  /\ i \in 0 .. Len(q)
         /\ i # 0 => times[t] > times[q[i]]
         /\ \A j \in 1 .. Len(q) : i = 0 \/ j < i => times[t] <= times[q[j]]
<1>1. Len(q) \in Nat /\ times[t] \in Int /\ \A j \in 1 .. Len(q) : times[q[j]] \in Int
  OBVIOUS
<1>2. CASE I = {}
  <2>1. i = 0 /\ \A j \in 1 .. Len(q) : ~(times[t] > times[q[j]])
    BY <1>2
  <2>2. 0 \in 0 .. Len(q)
    BY <1>1
  <2> QED  BY <1>1, <2>1, <2>2
<1>3. CASE I # {}
  BY <1>1, <1>3
<1> QED  BY <1>2, <1>3

LEMMA FirstLess ==
  ASSUME NEW q \in Seq(Tid), NEW times \in [Tid -> Int], NEW t \in Tid
  PROVE  LET i == SelectInSeq(q, LAMBDA s : times[t] > times[s])
         IN  /\ i \in 0 .. Len(q)
             /\ i # 0 => times[t] > times[q[i]]
             /\ \A j \in 1 .. Len(q) : i = 0 \/ j < i => times[t] <= times[q[j]]
<1>1. PICK I : I = {j \in 1 .. Len(q) : times[t] > times[q[j]]}
  OBVIOUS
<1>2. PICK i : i = IF I # {} THEN Min(I) ELSE 0
  OBVIOUS
<1>3. I \in SUBSET Nat
  BY <1>1
<1>4. I = {} => i = 0
  BY <1>2
<1>5. I # {} => i \in I /\ \A y \in I : i <= y
  BY <1>2, <1>3, LeastNumber DEF Min
<1>6. /\ i \in 0 .. Len(q)
      /\ i # 0 => times[t] > times[q[i]]
      /\ \A j \in 1 .. Len(q) : i = 0 \/ j < i => times[t] <= times[q[j]]
  BY <1>1, <1>4, <1>5, LeastIndex
<1> QED  BY <1>1, <1>2, <1>6 DEF SelectInSeq

(* What InsertAt and RemoveAt return.                                         *)
LEMMA Inserted ==
  ASSUME NEW q \in Seq(Tid), NEW t \in Tid, NEW i \in 1 .. Len(q) + 1,
         NEW r, r = InsertAt(q, i, t)
  PROVE  /\ r \in Seq(Tid) /\ Len(r) = Len(q) + 1
         /\ \A j \in 1 .. Len(r) : r[j] = IF j < i THEN q[j] ELSE IF j = i THEN t ELSE q[j - 1]
<1> DEFINE a == SubSeq(q, 1, i - 1)
           b == a \o <<t>>
           c == SubSeq(q, i, Len(q))
<1>1. /\ a \in Seq(Tid) /\ Len(a) = i - 1 /\ \A j \in 1 .. i - 1 : a[j] = q[j]
  OBVIOUS
<1>2. /\ c \in Seq(Tid) /\ Len(c) = Len(q) - i + 1
      /\ \A j \in 1 .. Len(c) : c[j] = q[j + i - 1]
  OBVIOUS
<1>3. r = b \o c
  BY DEF InsertAt
<1> HIDE DEF a, c
<1>4. b \in Seq(Tid) /\ Len(b) = i /\ \A j \in 1 .. i : b[j] = IF j < i THEN q[j] ELSE t
  BY <1>1
<1> HIDE DEF b
<1>5. /\ r \in Seq(Tid) /\ Len(r) = Len(b) + Len(c)
      /\ \A j \in 1 .. Len(r) : r[j] = IF j <= Len(b) THEN b[j] ELSE c[j - Len(b)]
  <2>1. b \in Seq(Tid) /\ c \in Seq(Tid)
    BY <1>2, <1>4
  <2> QED  BY <1>3, <2>1
<1>6. Len(r) = Len(q) + 1 /\ Len(q) \in Nat /\ i \in Nat
  BY <1>2, <1>4, <1>5
<1>7. ASSUME NEW j \in 1 .. Len(r)
      PROVE  r[j] = IF j < i THEN q[j] ELSE IF j = i THEN t ELSE q[j - 1]
  <2>1. CASE j <= i
    BY <1>4, <1>5, <1>6, <2>1
  <2>2. CASE j > i
    <3>1. j - i \in 1 .. Len(c)
      BY <2>2, <1>2, <1>6
    <3>2. c[j - i] = q[j - 1]
      BY <3>1, <1>2, <1>6
    <3> QED  BY <2>2, <3>2, <1>4, <1>5, <1>6
  <2> QED  BY <2>1, <2>2, <1>6
<1> QED  BY <1>5, <1>6, <1>7

LEMMA Removed ==
  ASSUME NEW S, NEW q \in Seq(S), NEW i \in 1 .. Len(q),
         NEW r, r = RemoveAt(q, i)
  PROVE  /\ r \in Seq(S) /\ Len(r) = Len(q) - 1
         /\ \A j \in 1 .. Len(r) : r[j] = IF j < i THEN q[j] ELSE q[j + 1]
<1> DEFINE a == SubSeq(q, 1, i - 1)
           c == SubSeq(q, i + 1, Len(q))
<1>1. /\ a \in Seq(S) /\ Len(a) = i - 1 /\ \A j \in 1 .. i - 1 : a[j] = q[j]
  OBVIOUS
<1>2. /\ c \in Seq(S) /\ Len(c) = Len(q) - i
      /\ \A j \in 1 .. Len(c) : c[j] = q[j + i]
  OBVIOUS
<1>3. r = a \o c
  BY DEF RemoveAt
<1> HIDE DEF a, c
<1>5. /\ r \in Seq(S) /\ Len(r) = Len(a) + Len(c)
      /\ \A j \in 1 .. Len(r) : r[j] = IF j <= Len(a) THEN a[j] ELSE c[j - Len(a)]
  BY <1>1, <1>2, <1>3
<1>6. Len(r) = Len(q) - 1 /\ Len(q) \in Nat /\ i \in Nat
  BY <1>1, <1>2, <1>5
<1>7. ASSUME NEW j \in 1 .. Len(r)
      PROVE  r[j] = IF j < i THEN q[j] ELSE q[j + 1]
  <2>1. CASE j < i
    BY <1>1, <1>5, <1>6, <2>1
  <2>2. CASE j >= i
    <3>1. j - Len(a) \in 1 .. Len(c)
      BY <2>2, <1>1, <1>2, <1>6
    <3>2. c[j - Len(a)] = q[j + 1]
      BY <3>1, <1>1, <1>2, <1>6
    <3> QED  BY <2>2, <3>2, <1>1, <1>5, <1>6
  <2> QED  BY <2>1, <2>2, <1>6
<1> QED  BY <1>5, <1>6, <1>7

(* Where PSJF inserts a thread: behind all that have waited as long.          *)
LEMMA BasedInserts ==
  ASSUME RunQueueType, NEW times \in [Tid -> Int], NEW t \in Tid,
         run_queue' = add_to_run_queue_waiting_time_based(t, times)
  PROVE  \E i \in 1 .. Len(run_queue[1]) + 1 :
           /\ run_queue' = [run_queue EXCEPT ![1] = InsertAt(run_queue[1], i, t)]
           /\ \A j \in 1 .. i - 1 : times[t] <= times[run_queue[1][j]]
           /\ i <= Len(run_queue[1]) => times[t] > times[run_queue[1][i]]
<1>1. PICK q : q = run_queue[1]
  OBVIOUS
<1>2. q \in Seq(Tid)
  BY <1>1 DEF RunQueueType
<1>3. PICK k : k = SelectInSeq(q, LAMBDA s : times[t] > times[s])
  OBVIOUS
<1>4. /\ k \in 0 .. Len(q)
      /\ k # 0 => times[t] > times[q[k]]
      /\ \A j \in 1 .. Len(q) : k = 0 \/ j < k => times[t] <= times[q[j]]
  BY <1>2, <1>3, FirstLess, Zenon
<1>5. PICK i : i = IF k = 0 THEN Len(q) + 1 ELSE k
  OBVIOUS
<1>6. run_queue' = [run_queue EXCEPT ![1] = InsertAt(q, i, t)]
  BY <1>1, <1>3, <1>5, Zenon DEF add_to_run_queue_waiting_time_based
<1>7. /\ i \in 1 .. Len(q) + 1
      /\ \A j \in 1 .. i - 1 : times[t] <= times[q[j]]
      /\ i <= Len(q) => times[t] > times[q[i]]
  <2> HIDE <1>3, <1>6
  <2>1. Len(q) \in Nat
    BY <1>2
  <2> QED  BY <1>4, <1>5, <2>1
<1> QED  BY <1>1, <1>6, <1>7, Zenon

LEMMA SamePlace ==
  ASSUME UniqueInRunQueues, NEW k \in 1 .. 3, NEW l \in 1 .. 3,
         NEW i \in 1 .. Len(run_queue[k]), NEW j \in 1 .. Len(run_queue[l]),
         run_queue[k][i] = run_queue[l][j]
  PROVE  k = l /\ i = j
BY DEF UniqueInRunQueues

(* A thread inserted into the first queue is its only new member.             *)
LEMMA InsertMember ==
  ASSUME RunQueueType, NEW t \in Tid, NEW i \in 1 .. Len(run_queue[1]) + 1,
         run_queue' = [run_queue EXCEPT ![1] = InsertAt(run_queue[1], i, t)]
  PROVE  /\ QueueGains(t)
         /\ run_queue'[2] = run_queue[2]
         /\ Len(run_queue'[1]) = Len(run_queue[1]) + 1
         /\ \A j \in 1 .. Len(run_queue'[1]) :
              run_queue'[1][j] = IF j < i THEN run_queue[1][j]
                                 ELSE IF j = i THEN t ELSE run_queue[1][j - 1]
<1>1. run_queue[1] \in Seq(Tid)
  BY DEF RunQueueType
<1>2. PICK r : r = InsertAt(run_queue[1], i, t)
  OBVIOUS
<1>3. /\ r \in Seq(Tid) /\ Len(r) = Len(run_queue[1]) + 1
      /\ \A j \in 1 .. Len(r) :
           r[j] = IF j < i THEN run_queue[1][j]
                  ELSE IF j = i THEN t ELSE run_queue[1][j - 1]
  BY <1>1, <1>2, Inserted
<1>4. run_queue' = [run_queue EXCEPT ![1] = r]
  BY <1>2
<1>5. /\ run_queue'[1] = r /\ run_queue'[2] = run_queue[2] /\ run_queue'[3] = run_queue[3]
      /\ RunQueueType'
      /\ \A k \in 1 .. 3 : k # 1 => run_queue'[k] = run_queue[k]
  BY <1>3, <1>4 DEF RunQueueType
<1>6. Len(run_queue[1]) \in Nat /\ i \in Nat
  BY <1>1
<1> HIDE <1>2
<1>7. ASSUME NEW s \in Tid PROVE InRunQueue(s)' <=> InRunQueue(s) \/ s = t
  <2>1. \A k \in 1 .. 3 : k # 1 => (InQueue(s, k)' <=> InQueue(s, k))
    BY <1>5 DEF InQueue
  <2>2. InQueue(s, 1)' => InQueue(s, 1) \/ s = t
    <3> SUFFICES ASSUME NEW j \in 1 .. Len(r), r[j] = s, s # t
                 PROVE  InQueue(s, 1)
      BY <1>5 DEF InQueue
    <3>1. CASE j < i
      <4>1. j \in 1 .. Len(run_queue[1]) /\ run_queue[1][j] = s
        BY <1>3, <1>6, <3>1
      <4> QED  BY <4>1 DEF InQueue
    <3>2. CASE j > i
      <4>1. j - 1 \in 1 .. Len(run_queue[1]) /\ run_queue[1][j - 1] = s
        BY <1>3, <1>6, <3>2
      <4> QED  BY <4>1 DEF InQueue
    <3> QED  BY <1>3, <1>6, <3>1, <3>2
  <2>3. InQueue(s, 1) => InQueue(s, 1)'
    <3> SUFFICES ASSUME NEW j \in 1 .. Len(run_queue[1]), run_queue[1][j] = s
                 PROVE  \E n \in 1 .. Len(r) : r[n] = s
      BY <1>5 DEF InQueue
    <3>1. CASE j < i
      <4>1. j \in 1 .. Len(r) /\ r[j] = s
        BY <1>3, <1>6, <3>1
      <4> QED  BY <4>1
    <3>2. CASE j >= i
      <4>1. j + 1 \in 1 .. Len(r) /\ r[j + 1] = s
        BY <1>3, <1>6, <3>2
      <4> QED  BY <4>1
    <3> QED  BY <1>6, <3>1, <3>2
  <2>4. InQueue(t, 1)'
    <3>1. i \in 1 .. Len(r) /\ r[i] = t
      BY <1>3, <1>6
    <3> QED  BY <1>5, <3>1 DEF InQueue
  <2> QED  BY <2>1, <2>2, <2>3, <2>4 DEF InRunQueue
<1>8. ASSUME UniqueInRunQueues, ~InRunQueue(t) PROVE UniqueInRunQueues'
  <2> SUFFICES ASSUME NEW k \in 1 .. 3, NEW l \in 1 .. 3,
                      NEW a \in 1 .. Len(run_queue'[k]),
                      NEW b \in 1 .. Len(run_queue'[l]),
                      run_queue'[k][a] = run_queue'[l][b]
               PROVE  k = l /\ a = b
    BY DEF UniqueInRunQueues
  <2> DEFINE New(p, n) == p = 1 /\ n = i
             Old(p, n) == IF p = 1 /\ n > i THEN n - 1 ELSE n
  <2>1. \A p \in 1 .. 3 : \A o \in 1 .. Len(run_queue[p]) : run_queue[p][o] # t
    BY <1>8 DEF InRunQueue, InQueue
  <2>2. ASSUME NEW p \in 1 .. 3, NEW n \in 1 .. Len(run_queue'[p])
        PROVE  \/ New(p, n) /\ run_queue'[p][n] = t
               \/ /\ ~New(p, n) /\ Old(p, n) \in 1 .. Len(run_queue[p])
                  /\ run_queue'[p][n] = run_queue[p][Old(p, n)]
                  /\ run_queue'[p][n] # t
    <3>1. CASE p # 1
      BY <1>5, <2>1, <3>1
    <3>2. CASE p = 1 /\ n = i
      BY <1>3, <1>5, <3>2
    <3>3. CASE p = 1 /\ n < i
      <4>1. n \in 1 .. Len(run_queue[1]) /\ run_queue'[1][n] = run_queue[1][n]
        BY <1>3, <1>5, <1>6, <3>3
      <4> QED  BY <2>1, <3>3, <4>1, <1>6
    <3>4. CASE p = 1 /\ n > i
      <4>1. n - 1 \in 1 .. Len(run_queue[1]) /\ run_queue'[1][n] = run_queue[1][n - 1]
        BY <1>3, <1>5, <1>6, <3>4
      <4> QED  BY <2>1, <3>4, <4>1, <1>6
    <3> QED  BY <1>3, <1>5, <1>6, <3>1, <3>2, <3>3, <3>4
  <2>3. CASE New(k, a) /\ New(l, b)
    BY <2>3
  <2>4. CASE ~New(k, a) /\ ~New(l, b)
    <3>1. /\ Old(k, a) \in 1 .. Len(run_queue[k]) /\ Old(l, b) \in 1 .. Len(run_queue[l])
          /\ run_queue[k][Old(k, a)] = run_queue[l][Old(l, b)]
      <4> HIDE DEF New, Old
      <4> QED  BY <2>2, <2>4
    <3>2. k = l /\ Old(k, a) = Old(l, b)
      <4> HIDE DEF New, Old
      <4> QED  BY <1>8, <3>1, SamePlace, SMTT(60)
    <3>3. a \in Int /\ b \in Int
      BY <1>5
    <3> QED  BY <1>6, <2>4, <3>2, <3>3
  <2>5. New(k, a) <=> New(l, b)
    <3>1. New(k, a) => New(l, b)
      BY <2>2
    <3>2. New(l, b) => New(k, a)
      BY <2>2
    <3> QED  BY <3>1, <3>2
  <2> QED  BY <2>3, <2>4, <2>5
<1> QED  BY <1>3, <1>5, <1>7, <1>8 DEF QueueGains

---------------------------------------------------------------------------
(* Every step of Schedulers is one that the proofs about Mlfq cover. *)

(* Inserting a thread after it has been handled, or woken. *)
LEMMA BasedGains ==
  ASSUME RunQueueType, NEW times \in [Tid -> Int], NEW t \in Tid,
         run_queue' = add_to_run_queue_waiting_time_based(t, times)
  PROVE  QueueGains(t) /\ run_queue'[2] = run_queue[2]
<1>1. PICK i \in 1 .. Len(run_queue[1]) + 1 :
        run_queue' = [run_queue EXCEPT ![1] = InsertAt(run_queue[1], i, t)]
  BY BasedInserts, Zenon
<1> QED  BY <1>1, InsertMember, Zenon

(* The types that the steps rely on. *)
LEMMA QueueTypes ==
  ASSUME IInv, SqTypes
  PROVE  /\ RunQueueType /\ run_queue[1] \in Seq(Tid)
         /\ priority \in [Tid -> Nat \ {0}] /\ ptr \in Tid
         /\ yield_purpose \in [Tid -> {Timeout, Exit, Block}]
         /\ waiting_time \in [Tid -> Int] /\ it_interval \in Nat
BY SchedulersAssumption
   DEF IInv, TypeOK, QueueTypeOK, ThreadTypeOK, SchedTypeOK, RunQueueType, SqTypes

(* With one queue in use, the highest priority is its own.                    *)
LEMMA OnlyQueue ==
  ASSUME IInv, OneQueue, ~Feedback
  PROVE  get_highest_priority = IF run_queue[1] = << >> THEN 0 ELSE 1
BY DEF IInv, OneQueue, get_highest_priority

LEMMA ScheduleKeeps == schedule => UNCHANGED <<QUEUE_NUMBER, placed>>
BY DEF schedule, sched_RR, sched_PSJF, sched_MLFQ

LEMMA ScheduleTakesOff ==
  ASSUME IInv, OneQueue, NEW t \in Tid, Executing(t), thread_number > 0, schedule
  PROVE  TakenOff
<1>0. run_queue[current_queue_number] # << >>
  BY DEF IInv, CurrentIsExecuting, Executing
<1>1. CASE sched_RR \/ sched_PSJF
  <2>1. TakeFront /\ ~Feedback
    BY <1>1 DEF sched_RR, sched_PSJF, RoundRobin, Psjf, Feedback
  <2>2. current_queue_number = 1
    BY <2>1 DEF OneQueue
  <2> QED  BY <1>0, <2>1, <2>2
           DEF TakeFront, TakenOff, get_current_thread, IInv, TypeOK, QueueTypeOK
<1>2. CASE sched_MLFQ
  BY <1>0, <1>2, DescheduleTakesOff DEF sched_MLFQ
<1> QED  BY <1>1, <1>2 DEF schedule

LEMMA TimeoutRequeues ==
  ASSUME IInv, SqTypes, RRTimeout \/ PsjfTimeout
  PROVE  /\ Requeued /\ run_queue'[2] = run_queue[2]
         /\ UNCHANGED <<QUEUE_NUMBER, waiting_time, it_interval>>
<1>1. /\ phase = "handle" /\ yield_purpose[ptr] = Timeout
      /\ yield_purpose' = yield_purpose
      /\ Handled /\ UNCHANGED <<QUEUE_NUMBER, waiting_time, it_interval>>
  <2>1. /\ phase = "handle" /\ yield_purpose[ptr] = Timeout
        /\ yield_purpose' = [yield_purpose EXCEPT ![ptr] = Timeout]
        /\ Handled /\ UNCHANGED <<QUEUE_NUMBER, waiting_time, it_interval>>
    BY DEF RRTimeout, PsjfTimeout, sqVars
  <2> QED  BY <2>1, QueueTypes
<1>2. QueueGains(ptr) /\ run_queue'[2] = run_queue[2]
  <2>1. CASE RRTimeout
    <3>1. run_queue' = add_to_run_queue(1, ptr)
      BY <2>1 DEF RRTimeout, add_to_run_queue
    <3>2. run_queue'[2] = run_queue[2]
      BY <2>1, QueueTypes DEF RRTimeout, RunQueueType
    <3> QED  BY <3>1, <3>2, QueueTypes, AddMember DEF QueueGains
  <2>2. CASE PsjfTimeout
    <3>1. run_queue' = add_to_run_queue_waiting_time_based(ptr, waiting_time)
      BY <2>2, Zenon DEF PsjfTimeout
    <3> QED  BY <3>1, QueueTypes, BasedGains, Zenon
  <2> QED  BY <2>1, <2>2
<1> QED  BY <1>1, <1>2, QueueTypes DEF Requeued, Handled, threadVars

LEMMA WokenJoinLoses ==
  ASSUME IInv, WokenJoin
  PROVE  /\ ListLoses(wait_ptr)
         /\ \A s \in Tid : Waiting(s) =>
              Waiting(s)' \/ s = join_waiting_queue[wait_ptr].tcb
<1>1. /\ wait_ptr \in 1 .. Len(join_waiting_queue) /\ wait_ptr' = wait_ptr
      /\ join_waiting_queue \in Seq(Waiter)
      /\ join_waiting_queue' = RemoveAt(join_waiting_queue, wait_ptr)
  BY DEF WokenJoin, IInv, TypeOK, SchedTypeOK, JoinTypeOK
<1>2. PICK n \in 1 .. Len(join_waiting_queue) : n = wait_ptr
  BY <1>1
<1>3. /\ join_waiting_queue' \in Seq(Waiter)
      /\ Len(join_waiting_queue') = Len(join_waiting_queue) - 1
      /\ \A j \in 1 .. Len(join_waiting_queue') :
           join_waiting_queue'[j] =
             IF j < n THEN join_waiting_queue[j] ELSE join_waiting_queue[j + 1]
  BY <1>1, <1>2, Removed
<1>4. Len(join_waiting_queue) \in Nat
  BY <1>1
<1>5. ASSUME NEW j \in 1 .. Len(join_waiting_queue')
      PROVE  \E k \in 1 .. Len(join_waiting_queue) \ {n} :
               /\ join_waiting_queue'[j] = join_waiting_queue[k]
               /\ k = IF j < n THEN j ELSE j + 1
  <2>1. CASE j < n
    <3>1. j \in 1 .. Len(join_waiting_queue) \ {n}
      BY <1>3, <1>4, <2>1
    <3> QED  BY <1>3, <2>1, <3>1
  <2>2. CASE ~(j < n)
    <3>1. j + 1 \in 1 .. Len(join_waiting_queue) \ {n}
      BY <1>3, <1>4, <2>2
    <3> QED  BY <1>3, <2>2, <3>1
  <2> QED  BY <2>1, <2>2
<1>6. UniqueInJoinQueue => UniqueInJoinQueue'
  <2> SUFFICES ASSUME UniqueInJoinQueue,
                      NEW i \in 1 .. Len(join_waiting_queue'),
                      NEW j \in 1 .. Len(join_waiting_queue'),
                      join_waiting_queue'[i].tcb = join_waiting_queue'[j].tcb
               PROVE  i = j
    BY DEF UniqueInJoinQueue
  <2>1. PICK a \in 1 .. Len(join_waiting_queue) :
          /\ join_waiting_queue'[i] = join_waiting_queue[a]
          /\ a = IF i < n THEN i ELSE i + 1
    BY <1>5
  <2>2. PICK b \in 1 .. Len(join_waiting_queue) :
          /\ join_waiting_queue'[j] = join_waiting_queue[b]
          /\ b = IF j < n THEN j ELSE j + 1
    BY <1>5
  <2>3. a = b
    BY <2>1, <2>2, UniqueInJoinQueue DEF UniqueInJoinQueue
  <2> QED  BY <1>3, <1>4, <2>1, <2>2, <2>3
<1>7. /\ wait_ptr' \in 1 .. Len(join_waiting_queue') + 1
      /\ \A i \in 1 .. wait_ptr' - 1 :
           i < wait_ptr /\ join_waiting_queue'[i] = join_waiting_queue[i]
  BY <1>1, <1>2, <1>3, <1>4
<1>8. ASSUME NEW s \in Tid, Waiting(s), s # join_waiting_queue[n].tcb PROVE Waiting(s)'
  <2>1. PICK i \in 1 .. Len(join_waiting_queue) : join_waiting_queue[i].tcb = s
    BY <1>8 DEF Waiting
  <2>2. CASE i < n
    <3>1. i \in 1 .. Len(join_waiting_queue') /\ join_waiting_queue'[i] = join_waiting_queue[i]
      BY <1>3, <1>4, <2>2
    <3> QED  BY <2>1, <3>1 DEF Waiting
  <2>3. CASE i > n
    <3>1. /\ i - 1 \in 1 .. Len(join_waiting_queue')
          /\ join_waiting_queue'[i - 1] = join_waiting_queue[i]
      BY <1>3, <1>4, <2>3
    <3> QED  BY <2>1, <3>1 DEF Waiting
  <2> QED  BY <1>4, <1>8, <2>1, <2>2, <2>3
<1> QED  BY <1>2, <1>3, <1>5, <1>6, <1>7, <1>8 DEF ListLoses

LEMMA ExitWakes ==
  ASSUME IInv, SqTypes, RRExitWake \/ PsjfExitWake
  PROVE  /\ WokenJoin /\ Woken /\ run_queue'[2] = run_queue[2]
         /\ UNCHANGED <<QUEUE_NUMBER, it_interval>>
<1>1. PICK j : j = join_waiting_queue[wait_ptr].tcb
  OBVIOUS
<1>2. WokenJoin /\ UNCHANGED <<QUEUE_NUMBER, it_interval>>
  BY DEF RRExitWake, PsjfExitWake, sqVars
<1>3. j \in Tid
  <2>1. /\ wait_ptr \in 1 .. Len(join_waiting_queue) /\ TypeOK
    BY <1>2 DEF WokenJoin, IInv, TypeOK, SchedTypeOK, JoinTypeOK
  <2> QED  BY <1>1, <2>1, NodeType
<1>4. QueueGains(j) /\ run_queue'[2] = run_queue[2]
  <2>1. CASE RRExitWake
    <3>1. run_queue' = add_to_run_queue(1, j)
      BY <1>1, <2>1 DEF RRExitWake
    <3>2. run_queue'[2] = run_queue[2]
      BY <3>1, QueueTypes DEF add_to_run_queue, RunQueueType
    <3> QED  BY <1>3, <3>1, <3>2, QueueTypes, AddMember DEF QueueGains
  <2>2. CASE PsjfExitWake
    <3>1. PICK w \in Garbage : waiting_time' = [waiting_time EXCEPT ![j] = w]
      BY <1>1, <2>2, Zenon DEF PsjfExitWake
    <3>2. waiting_time' \in [Tid -> Int]
      BY <3>1, QueueTypes, SchedulersAssumption
    <3>3. run_queue' = add_to_run_queue_waiting_time_based(j, waiting_time')
      BY <1>1, <2>2, Zenon DEF PsjfExitWake
    <3> QED  BY <1>3, <3>2, <3>3, QueueTypes, BasedGains, Zenon
  <2> QED  BY <2>1, <2>2
<1>5. ListLoses(wait_ptr)
  BY <1>2, WokenJoinLoses
<1> QED  BY <1>1, <1>2, <1>4, <1>5, QueueTypes DEF WokenJoin, Woken

LEMMA SwitchIsDispatch ==
  ASSUME IInv, OneQueue, ~Feedback, SwitchToFirst
  PROVE  Dispatch
<1>1. get_highest_priority = 1
  BY OnlyQueue DEF SwitchToFirst
<1> QED  BY <1>1 DEF SwitchToFirst, Dispatch

LEMMA SqStallEnds == ASSUME IInv, OneQueue, SqStall PROVE Ends
<1>1. get_highest_priority = 0
  BY OnlyQueue DEF SqStall
<1> QED  BY <1>1 DEF SqStall, Ends

(* A second pass changes nothing but what PSJF keeps for itself, or ends.     *)
LEMMA SecondPass ==
  /\ SecondPassReturns =>
       /\ UNCHANGED <<vars, QUEUE_NUMBER, waiting_time, unmasked>>
       /\ Len(run_queue[1]) = 1 /\ run_queue[1] # << >>
       /\ \/ UNCHANGED <<it_interval, placed>>
          \/ it_interval' = Interval /\ placed' = placed \cup {Head(run_queue[1])}
  /\ SecondPassCrosses => Ends /\ UNCHANGED sqVars
BY DEF SecondPassReturns, SecondPassCrosses, Unswitched, Ends

LEMMA BlockIsBlock ==
  ASSUME RRBlock \/ PsjfBlock
  PROVE  HandleBlock /\ UNCHANGED <<run_queue, sqVars>>
BY DEF RRBlock, PsjfBlock, HandleBlock, Handled, queueVars

LEMMA SqStepIsAny ==
  ASSUME IInv, SqTypes, OneQueue, [SqNext]_allVars
  PROVE  [AnyNext]_vars
<1>1. SqCreate => Create
  BY DEF SqCreate, SqCreateFirst, SqCreateThread, SqCreateAdd, Create
<1>2. ASSUME NEW t \in Tid, SqThreadStep(t) PROVE AnyThreadStep(t)
  <2>1. SqTick(t) => Interrupted(t)
    BY ScheduleTakesOff DEF SqTick, Interrupted
  <2>2. SqYield(t) => Yielded(t)
    BY ScheduleTakesOff DEF SqYield, Yielded
  <2> QED  BY <1>2, <2>1, <2>2
           DEF SqThreadStep, AnyThreadStep, SqJoinExited, SqJoinWait, SqJoinReturn,
               SqExitStart, SqExitReturn
<1>3. SqSchedStep => AnySchedStep
  <2>1. RRSwitch \/ PsjfSwitch \/ SqStall => Dispatch \/ Ends
    BY SwitchIsDispatch, SqStallEnds
       DEF RRSwitch, PsjfSwitch, RoundRobin, Psjf, Feedback
  <2>2. MlfqStep => AnySchedStep
    BY HandleTimeoutRequeues, HandleExitWakeWakes DEF MlfqStep, SchedStep, AnySchedStep
  <2>3. RRExitSkip \/ PsjfExitSkip \/ RRExitDone \/ PsjfExitDone =>
          HandleExitSkip \/ HandleExitDone
    BY DEF RRExitSkip, PsjfExitSkip, RRExitDone, PsjfExitDone
  <2> QED  BY <2>1, <2>2, <2>3, BlockIsBlock, TimeoutRequeues, ExitWakes
           DEF SqSchedStep, AnySchedStep
<1>4. UNCHANGED allVars \/ SecondPassReturns => UNCHANGED vars
  BY SecondPass DEF allVars
<1>5. SecondPassCrosses => AnySchedStep
  BY SecondPass DEF AnySchedStep
<1> QED  BY <1>1, <1>2, <1>3, <1>4, <1>5 DEF SqNext, AnyNext

LEMMA QueueNumberIsKept == ASSUME IInv, SqTypes, OneQueue, [SqNext]_allVars
                           PROVE  QUEUE_NUMBER' = QUEUE_NUMBER
<1>1. SqCreate => QUEUE_NUMBER' = QUEUE_NUMBER
  BY DEF SqCreate, SqCreateFirst, SqCreateThread, SqCreateAdd, MaybeRefused, sqVars
<1>2. ASSUME NEW t \in Tid, SqThreadStep(t) PROVE QUEUE_NUMBER' = QUEUE_NUMBER
  BY <1>2, ScheduleKeeps
     DEF SqThreadStep, SqJoinExited, SqJoinWait, SqJoinReturn, SqExitStart, SqExitReturn,
         SqTick,
         SqYield, MaybeRefused, sqVars
<1>3. SqSchedStep => QUEUE_NUMBER' = QUEUE_NUMBER
  BY BlockIsBlock, TimeoutRequeues, ExitWakes
     DEF SqSchedStep, RRExitSkip, PsjfExitSkip, RRExitDone, PsjfExitDone, RRSwitch,
         PsjfSwitch, SwitchToFirst, SqStall, MlfqStep, sqVars
<1> QED  BY <1>1, <1>2, <1>3, SecondPass DEF SqNext, allVars, sqVars

---------------------------------------------------------------------------
(* No thread is lost, if a woken join takes no other node with it. *)

OthersWait ==
  Woken => \A s \in Tid : Waiting(s) =>
             Waiting(s)' \/ s = join_waiting_queue[wait_ptr].tcb

(* What a step has to do for that: a thread that ceases to be ready waits or  *)
(* has exited, and one that ceases to wait is ready.                          *)
LEMMA PlacesKept ==
  ASSUME PInv,
         \A s \in Tid : Known(s)' => Known(s) \/ Ready(s)',
         \A s \in Tid : Ready(s) => Ready(s)' \/ Waiting(s)' \/ s \in exit_thread_list',
         \A s \in Tid : Waiting(s) => Waiting(s)' \/ Ready(s)',
         exit_thread_list \subseteq exit_thread_list',
         \A s \in Tid : yield_purpose'[s] = Block => Waiting(s)',
         \A s \in Tid : s \in exit_thread_list' \/ yield_purpose'[s] = Exit => ~InJoin(s)'
  PROVE  PInv'
<1>1. ExitedNotInJoin' /\ BlockedIsWaiting'
  BY DEF ExitedNotInJoin, BlockedIsWaiting
<1>2. AllPlaced'
  BY DEF PInv, AllPlaced
<1> QED  BY <1>1, <1>2 DEF PInv

LEMMA PlacesUntouched ==
  ASSUME PInv, run_queue' = run_queue, join_waiting_queue' = join_waiting_queue,
         yield_purpose' = yield_purpose, exit_thread_list' = exit_thread_list,
         pc' = pc, thread_number' = thread_number,
         \A s \in Tid : (phase = "handle" /\ ptr = s) <=> (phase' = "handle" /\ ptr' = s)
  PROVE  PInv'
<1>1. \A s \in Tid : /\ Known(s)' <=> Known(s)
                     /\ Ready(s)' <=> Ready(s)
                     /\ Waiting(s)' <=> Waiting(s)
                     /\ InJoin(s)' <=> InJoin(s)
  BY SameRunQueue, SameJoinQueue DEF Known, Ready, InJoin
<1> QED  BY <1>1 DEF PInv, ExitedNotInJoin, BlockedIsWaiting, AllPlaced

LEMMA CreateFirstPlaces == ASSUME IInv, PInv, CreateFirst PROVE PInv'
<1> USE MainIsThread
<1>1. /\ phase = "thread" /\ thread_number = 0 /\ pc[Main] = "user"
      /\ thread_number' = 1
      /\ yield_purpose' = [yield_purpose EXCEPT ![Main] = Timeout]
      /\ run_queue' = add_to_run_queue(1, Main)
      /\ pc' = [pc EXCEPT ![Main] = "create"]
      /\ join_waiting_queue' = join_waiting_queue /\ exit_thread_list' = exit_thread_list
      /\ phase' = phase /\ ptr' = ptr
  BY DEF CreateFirst, Executing, joinVars, schedVars
<1>2. /\ yield_purpose \in [Tid -> {Timeout, Exit, Block}] /\ pc \in [Tid -> PC]
      /\ RunQueueType
  BY DEF IInv, TypeOK, ThreadTypeOK, QueueTypeOK, RunQueueType
<1>3. \A s \in Tid : ~InRunQueue(s) /\ ~Waiting(s) /\ s \notin exit_thread_list
  BY <1>1 DEF Known, Tid, IInv, OnlyKnown
<1>4. \A s \in Tid : InRunQueue(s)' <=> s = Main
  BY <1>1, <1>2, <1>3, AddMember
<1>5. \A s \in Tid : Known(s)' => s = Main
  BY <1>1 DEF Known, Tid, Main
<1>6. \A s \in Tid : /\ ~InJoin(s) \/ s # Main => (InJoin(s)' <=> InJoin(s))
                     /\ ~InJoin(Main)'
  BY <1>1, <1>2 DEF InJoin
<1>7. \A s \in Tid : /\ yield_purpose'[s] = Block => yield_purpose[s] = Block
                     /\ yield_purpose'[s] = Exit => yield_purpose[s] = Exit
  BY <1>1, <1>2 DEF Timeout, Block, Exit
<1> QED  BY <1>1, <1>3, <1>4, <1>5, <1>6, <1>7, PlacesKept
         DEF Ready, PInv, BlockedIsWaiting, ExitedNotInJoin

LEMMA CreateThreadPlaces == ASSUME IInv, PInv, CreateThread PROVE PInv'
<1> USE MainIsThread
<1>1. /\ pc[Main] \in {"create", "user"}
      /\ thread_number \in 1 .. MaxThreads - 1 /\ thread_number' = thread_number + 1
      /\ yield_purpose' = [yield_purpose EXCEPT ![thread_number] = Timeout]
      /\ run_queue' = run_queue /\ pc' = [pc EXCEPT ![Main] = "create_add"]
      /\ join_waiting_queue' = join_waiting_queue /\ exit_thread_list' = exit_thread_list
      /\ phase' = phase /\ ptr' = ptr
  BY DEF CreateThread, joinVars, schedVars
<1>2. /\ yield_purpose \in [Tid -> {Timeout, Exit, Block}] /\ pc \in [Tid -> PC]
  BY DEF IInv, TypeOK, ThreadTypeOK
<1>3. \A s \in Tid : Known(s)' <=> Known(s)
  BY <1>1, <1>2 DEF Known, Tid
<1>4. \A s \in Tid : /\ Ready(s)' <=> Ready(s)
                     /\ Waiting(s)' <=> Waiting(s)
                     /\ InJoin(s)' <=> InJoin(s)
  BY <1>1, <1>2, SameRunQueue, SameJoinQueue DEF Ready, InJoin
<1>5. \A s \in Tid : /\ yield_purpose'[s] = Block => yield_purpose[s] = Block
                     /\ yield_purpose'[s] = Exit => yield_purpose[s] = Exit
  BY <1>1, <1>2 DEF Timeout, Block, Exit
<1> QED  BY <1>1, <1>3, <1>4, <1>5, PlacesKept
         DEF PInv, BlockedIsWaiting, ExitedNotInJoin

LEMMA CreateAddPlaces == ASSUME IInv, PInv, CreateAdd PROVE PInv'
<1> USE MainIsThread
<1>1. /\ pc[Main] = "create_add"
      /\ thread_number' = thread_number /\ yield_purpose' = yield_purpose
      /\ run_queue' = add_to_run_queue(1, thread_number - 1)
      /\ pc' = [pc EXCEPT ![Main] = "user"]
      /\ join_waiting_queue' = join_waiting_queue /\ exit_thread_list' = exit_thread_list
      /\ phase' = phase /\ ptr' = ptr
  BY DEF CreateAdd, joinVars, schedVars, threadVars
<1>2. /\ pc \in [Tid -> PC] /\ RunQueueType
      /\ thread_number > 0 /\ thread_number \in 0 .. MaxThreads
  BY <1>1 DEF IInv, TypeOK, ThreadTypeOK, QueueTypeOK, RunQueueType, OnlyKnown
<1>3. PICK n \in Tid : n = thread_number - 1
  BY <1>2, MlfqAssumption DEF Tid
<1>4. \A s \in Tid : InRunQueue(s)' <=> InRunQueue(s) \/ s = n
  <2>1. run_queue' = add_to_run_queue(1, n)
    BY <1>1, <1>3
  <2>2. 1 \in 1 .. 3
    OBVIOUS
  <2> QED  BY ONLY <1>2, <2>1, <2>2, AddMember
<1>5. \A s \in Tid : Known(s)' => Known(s) \/ s = n
  BY <1>1, <1>3 DEF Known
<1>6. \A s \in Tid : (Waiting(s)' <=> Waiting(s)) /\ (InJoin(s)' <=> InJoin(s))
  BY <1>1, <1>2, SameJoinQueue DEF InJoin
<1> QED  BY <1>1, <1>4, <1>5, <1>6, PlacesKept
         DEF Ready, PInv, BlockedIsWaiting, ExitedNotInJoin

LEMMA JoinWaitPlaces ==
  ASSUME IInv, PInv, NEW t \in Tid, NEW u \in Tid, JoinWait(t, u) PROVE PInv'
<1>1. /\ Executing(t) /\ u < thread_number /\ thread_number \in Nat
      /\ join_waiting_queue' =
           Append(join_waiting_queue, [tcb |-> get_current_thread, tid |-> u])
      /\ yield_purpose' = [yield_purpose EXCEPT ![get_current_thread] = Block]
      /\ pc' = [pc EXCEPT ![t] = "join_yield"] /\ run_queue' = run_queue
      /\ exit_thread_list' = exit_thread_list
      /\ thread_number' = thread_number /\ phase' = phase /\ ptr' = ptr
  BY DEF JoinWait, queueVars, schedVars, IInv, TypeOK, ThreadTypeOK
<1>2. thread_number > 0
  BY <1>1, MainIsThread
<1>3. get_current_thread = t /\ t \notin exit_thread_list
  BY <1>1, <1>2, CallerIsHead
<1>4. /\ yield_purpose \in [Tid -> {Timeout, Exit, Block}] /\ pc \in [Tid -> PC]
      /\ join_waiting_queue \in Seq(Waiter)
  BY DEF IInv, TypeOK, ThreadTypeOK, JoinTypeOK
<1>5. \A s \in Tid : Waiting(s)' <=> Waiting(s) \/ s = t
  BY <1>1, <1>3, <1>4, AddJoin
<1>6. \A s \in Tid : s # t =>
        (InJoin(s)' <=> InJoin(s)) /\ yield_purpose'[s] = yield_purpose[s]
  BY <1>1, <1>3, <1>4 DEF InJoin
<1>7. yield_purpose'[t] = Block
  BY <1>1, <1>3, <1>4
<1>8. \A s \in Tid : (Known(s)' <=> Known(s)) /\ (Ready(s)' <=> Ready(s))
  BY <1>1, <1>4, SameRunQueue, MainIsThread DEF Known, Ready, JoinWait
<1> QED  BY <1>1, <1>3, <1>5, <1>6, <1>7, <1>8, PlacesKept
         DEF PInv, BlockedIsWaiting, ExitedNotInJoin, Block, Exit

LEMMA JoinReturnPlaces ==
  ASSUME IInv, PInv, NEW t \in Tid, JoinReturn(t) PROVE PInv'
<1>1. /\ pc[t] = "join_return" /\ pc' = [pc EXCEPT ![t] = "user"]
      /\ join_waiting_queue' = join_waiting_queue /\ run_queue' = run_queue
      /\ exit_thread_list' = exit_thread_list /\ yield_purpose' = yield_purpose
      /\ thread_number' = thread_number /\ phase' = phase /\ ptr' = ptr
  BY DEF JoinReturn, queueVars, threadVars, schedVars
<1>2. pc \in [Tid -> PC]
  BY DEF IInv, TypeOK, ThreadTypeOK
<1>3. \A s \in Tid : InJoin(s)' => InJoin(s)
  BY <1>1, <1>2 DEF InJoin
<1>4. \A s \in Tid : /\ Known(s)' <=> Known(s)
                     /\ Ready(s)' <=> Ready(s)
                     /\ Waiting(s)' <=> Waiting(s)
  BY <1>1, <1>2, SameRunQueue, SameJoinQueue, MainIsThread DEF Known, Ready
<1> QED  BY <1>1, <1>3, <1>4, PlacesKept DEF PInv, BlockedIsWaiting, ExitedNotInJoin

LEMMA ExitReturnPlaces ==
  ASSUME IInv, PInv, NEW t \in Tid, ExitReturn(t) PROVE PInv'
<1>1. /\ pc[t] = "exited" /\ pc' = [pc EXCEPT ![t] = "user"]
      /\ join_waiting_queue' = join_waiting_queue /\ run_queue' = run_queue
      /\ exit_thread_list' = exit_thread_list /\ yield_purpose' = yield_purpose
      /\ thread_number' = thread_number /\ phase' = phase /\ ptr' = ptr
  BY DEF ExitReturn, queueVars, threadVars, joinVars, schedVars
<1>2. pc \in [Tid -> PC]
  BY DEF IInv, TypeOK, ThreadTypeOK
<1>3. \A s \in Tid : /\ Known(s)' <=> Known(s)
                     /\ Ready(s)' <=> Ready(s)
                     /\ Waiting(s)' <=> Waiting(s)
                     /\ InJoin(s)' <=> InJoin(s)
  BY <1>1, <1>2, SameRunQueue, SameJoinQueue, MainIsThread DEF Known, Ready, InJoin
<1> QED  BY <1>1, <1>3, PlacesKept DEF PInv, BlockedIsWaiting, ExitedNotInJoin

LEMMA ExitStartPlaces ==
  ASSUME IInv, PInv, NEW t \in Tid, ExitStart(t) PROVE PInv'
<1>1. /\ Executing(t) /\ pc[t] = "user" /\ thread_number > 0
      /\ yield_purpose' = [yield_purpose EXCEPT ![get_current_thread] = Exit]
      /\ pc' = [pc EXCEPT ![t] = "exit_yield"]
      /\ join_waiting_queue' = join_waiting_queue /\ run_queue' = run_queue
      /\ exit_thread_list' = exit_thread_list
      /\ thread_number' = thread_number /\ phase' = phase /\ ptr' = ptr
  BY DEF ExitStart, queueVars, schedVars
<1>2. /\ yield_purpose \in [Tid -> {Timeout, Exit, Block}] /\ pc \in [Tid -> PC]
      /\ get_current_thread = t
  BY <1>1, CallerIsHead DEF IInv, TypeOK, ThreadTypeOK
<1>3. \A s \in Tid : (InJoin(s)' <=> InJoin(s)) /\ ~InJoin(t)'
  BY <1>1, <1>2 DEF InJoin
<1>4. \A s \in Tid : /\ s # t => yield_purpose'[s] = yield_purpose[s]
                     /\ yield_purpose'[t] = Exit
  BY <1>1, <1>2
<1>5. \A s \in Tid : /\ Known(s)' <=> Known(s)
                     /\ Ready(s)' <=> Ready(s)
                     /\ Waiting(s)' <=> Waiting(s)
  BY <1>1, <1>2, SameRunQueue, SameJoinQueue, MainIsThread DEF Known, Ready
<1> QED  BY <1>1, <1>3, <1>4, <1>5, PlacesKept
         DEF PInv, BlockedIsWaiting, ExitedNotInJoin, Block, Exit

LEMMA TakenOffPlaces ==
  ASSUME IInv, PInv, NEW t \in Tid, Executing(t), thread_number > 0, TakenOff,
         \A s \in Tid : InJoin(s)' <=> InJoin(s),
         \A s \in Tid : Known(s)' <=> Known(s)
  PROVE  PInv'
<1>1. /\ ptr' = get_current_thread /\ phase' = "handle"
      /\ run_queue' = [run_queue EXCEPT ![current_queue_number] = Tail(@)]
      /\ yield_purpose' = yield_purpose
      /\ join_waiting_queue' = join_waiting_queue /\ exit_thread_list' = exit_thread_list
  BY DEF TakenOff, threadVars, joinVars
<1>2. /\ run_queue[current_queue_number] # << >> /\ current_queue_number \in 1 .. 3
      /\ Head(run_queue[current_queue_number]) = t
      /\ ptr' = t /\ phase = "thread" /\ InRunQueue(t)
  BY <1>1, CallerIsHead DEF IInv, TypeOK, QueueTypeOK, get_current_thread
<1>3. \A s \in Tid : InRunQueue(s)' <=> InRunQueue(s) /\ s # t
  BY <1>1, <1>2, RemoveMember
     DEF IInv, TypeOK, QueueTypeOK, RunQueueType, NoDuplicates
<1>4. \A s \in Tid : (Ready(s)' <=> Ready(s)) /\ (Waiting(s)' <=> Waiting(s))
  BY <1>1, <1>2, <1>3, SameJoinQueue DEF Ready
<1> QED  BY <1>1, <1>4, PlacesKept DEF PInv, BlockedIsWaiting, ExitedNotInJoin

LEMMA InterruptedPlaces ==
  ASSUME IInv, PInv, NEW t \in Tid, Interrupted(t) PROVE PInv'
<1>1. Executing(t) /\ thread_number > 0 /\ TakenOff /\ pc' = pc
      /\ thread_number' = thread_number
  BY DEF Interrupted, TakenOff, threadVars
<1> QED  BY <1>1, TakenOffPlaces DEF InJoin, Known

LEMMA YieldedPlaces ==
  ASSUME IInv, PInv, NEW t \in Tid, Yielded(t) PROVE PInv'
<1>1. /\ Executing(t) /\ thread_number > 0 /\ TakenOff
      /\ thread_number' = thread_number /\ pc \in [Tid -> PC]
      /\ pc[t] \in {"user", "join_yield", "exit_yield"}
      /\ pc' = [pc EXCEPT ![t] = CASE @ = "user" -> "user"
                                   [] @ = "join_yield" -> "join_return"
                                   [] @ = "exit_yield" -> "exited"]
  BY DEF Yielded, TakenOff, threadVars, IInv, TypeOK, ThreadTypeOK
<1>2. \A s \in Tid : InJoin(s)' <=> InJoin(s)
  BY <1>1 DEF InJoin
<1>3. pc'[Main] = "create_add" <=> pc[Main] = "create_add"
  BY <1>1, MainIsThread
<1> QED  BY <1>1, <1>2, <1>3, TakenOffPlaces DEF Known

LEMMA RequeuedPlaces == ASSUME IInv, PInv, Requeued PROVE PInv'
<1>1. /\ phase = "handle" /\ phase' = "dispatch" /\ QueueGains(ptr)
      /\ yield_purpose' = yield_purpose /\ thread_number' = thread_number
      /\ join_waiting_queue' = join_waiting_queue /\ exit_thread_list' = exit_thread_list
      /\ pc' = pc /\ ptr' = ptr
  BY DEF Requeued, threadVars, joinVars
<1>2. \A s \in Tid : /\ Known(s)' <=> Known(s)
                     /\ Ready(s)' <=> Ready(s)
                     /\ Waiting(s)' <=> Waiting(s)
                     /\ InJoin(s)' <=> InJoin(s)
  BY <1>1, SameJoinQueue DEF QueueGains, Known, Ready, InJoin
<1> QED  BY <1>1, <1>2, PlacesKept DEF PInv, BlockedIsWaiting, ExitedNotInJoin

(* The thread that blocks leaves the run queues and is in the join list.      *)
LEMMA HandleBlockPlaces == ASSUME IInv, PInv, HandleBlock PROVE PInv'
<1>1. /\ phase = "handle" /\ phase' = "dispatch" /\ yield_purpose[ptr] = Block
      /\ yield_purpose' = [yield_purpose EXCEPT ![ptr] = Timeout]
      /\ thread_number' = thread_number /\ run_queue' = run_queue
      /\ join_waiting_queue' = join_waiting_queue /\ exit_thread_list' = exit_thread_list
      /\ pc' = pc /\ ptr' = ptr
  BY DEF HandleBlock, queueVars, joinVars
<1>2. \A s \in Tid : /\ Known(s)' <=> Known(s)
                     /\ InRunQueue(s)' <=> InRunQueue(s)
                     /\ Waiting(s)' <=> Waiting(s)
                     /\ InJoin(s)' <=> InJoin(s)
  BY <1>1, SameRunQueue, SameJoinQueue DEF Known, InJoin
<1>3. ptr \in Tid /\ Waiting(ptr)
  BY <1>1, InHandle DEF PInv, BlockedIsWaiting
<1>4. \A s \in Tid : /\ yield_purpose'[s] = Block => yield_purpose[s] = Block
                     /\ yield_purpose'[s] = Exit => yield_purpose[s] = Exit
  BY <1>1 DEF IInv, TypeOK, ThreadTypeOK, Timeout, Block, Exit
<1>5. \A s \in Tid : Ready(s) => Ready(s)' \/ Waiting(s)'
  BY <1>1, <1>2, <1>3 DEF Ready
<1> QED  BY <1>1, <1>2, <1>4, <1>5, PlacesKept
         DEF PInv, BlockedIsWaiting, ExitedNotInJoin

LEMMA WokenPlaces == ASSUME IInv, PInv, OthersWait, Woken PROVE PInv'
<1>1. PICK j : j = join_waiting_queue[wait_ptr].tcb
  OBVIOUS
<1>2. /\ phase = "handle" /\ phase' = "handle" /\ yield_purpose[ptr] = Exit
      /\ QueueGains(j) /\ exit_thread_list' = exit_thread_list
      /\ yield_purpose' = yield_purpose /\ thread_number' = thread_number
      /\ pc' = pc /\ ptr' = ptr
  BY <1>1 DEF Woken, Exits, threadVars
<1>3. \A s \in Tid : /\ Known(s)' <=> Known(s)
                     /\ Ready(s)' <=> Ready(s) \/ s = j
                     /\ InJoin(s)' <=> InJoin(s)
  BY <1>2 DEF QueueGains, Known, Ready, InJoin
<1>4. \A s \in Tid : Waiting(s) => Waiting(s)' \/ s = j
  BY <1>1 DEF OthersWait
<1>5. \A s \in Tid : yield_purpose[s] # Block
  BY <1>2, InHandle DEF Block, Exit
<1> QED  BY <1>2, <1>3, <1>4, <1>5, PlacesKept DEF PInv, ExitedNotInJoin

LEMMA HandleExitDonePlaces == ASSUME IInv, PInv, HandleExitDone PROVE PInv'
<1>1. /\ phase = "handle" /\ phase' = "dispatch" /\ yield_purpose[ptr] = Exit
      /\ exit_thread_list' = exit_thread_list \cup {ptr}
      /\ join_waiting_queue' = join_waiting_queue /\ run_queue' = run_queue
      /\ yield_purpose' = yield_purpose /\ thread_number' = thread_number
      /\ pc' = pc /\ ptr' = ptr
  BY DEF HandleExitDone, Exits, queueVars, threadVars
<1>2. \A s \in Tid : /\ Known(s)' <=> Known(s)
                     /\ Ready(s) => Ready(s)' \/ s = ptr
                     /\ Waiting(s)' <=> Waiting(s)
                     /\ InJoin(s)' <=> InJoin(s)
  BY <1>1, SameRunQueue, SameJoinQueue DEF Known, Ready, InJoin
<1> QED  BY <1>1, <1>2, PlacesKept DEF PInv, BlockedIsWaiting, ExitedNotInJoin

LEMMA AnyStepKeepsPlaces ==
  ASSUME IInv, PInv, OthersWait, [AnyNext]_vars PROVE PInv'
<1>1. CASE Create
  BY <1>1, CreateFirstPlaces, CreateThreadPlaces, CreateAddPlaces DEF Create
<1>2. ASSUME NEW t \in Tid, AnyThreadStep(t) PROVE PInv'
  <2>1. ASSUME NEW u \in Tid, JoinExited(t, u) PROVE PInv'
    BY <2>1, PlacesUntouched DEF JoinExited, queueVars, threadVars, schedVars
  <2>2. ASSUME ExitReturn(t) PROVE PInv'
    BY <2>2, ExitReturnPlaces
  <2> QED  BY <1>2, <2>1, <2>2, JoinWaitPlaces, JoinReturnPlaces, ExitStartPlaces,
              YieldedPlaces, InterruptedPlaces DEF AnyThreadStep
<1>3. CASE AnySchedStep
  <2>1. HandleExitSkip \/ Dispatch \/ Stall \/ Ends => PInv'
    BY PlacesUntouched
       DEF HandleExitSkip, Dispatch, Stall, Ends, queueVars, threadVars, joinVars
  <2> QED  BY <1>3, <2>1, RequeuedPlaces, HandleBlockPlaces, WokenPlaces,
              HandleExitDonePlaces DEF AnySchedStep
<1>4. CASE UNCHANGED vars
  BY <1>4, PlacesUntouched DEF vars, queueVars, threadVars, joinVars, schedVars
<1> QED  BY <1>1, <1>2, <1>3, <1>4 DEF AnyNext

(* Round robin and PSJF unlink one node; they take no other step that Woken   *)
(* describes.                                                                 *)
LEMMA SingleKeepsOthers ==
  ASSUME IInv, SqTypes, OneQueue, ~Feedback, [SqNext]_allVars
  PROVE  OthersWait
<1> SUFFICES ASSUME Woken
             PROVE  \A s \in Tid : Waiting(s) =>
                      Waiting(s)' \/ s = join_waiting_queue[wait_ptr].tcb
  BY DEF OthersWait
<1>1. CASE RRExitWake \/ PsjfExitWake
  BY <1>1, ExitWakes, WokenJoinLoses
<1>2. CASE join_waiting_queue' = join_waiting_queue
  BY <1>2, SameJoinQueue
<1>3. CASE ~(phase = "handle" /\ phase' = "handle")
  BY <1>3 DEF Woken, Exits
<1>4. SqCreate => phase = "thread"
  BY DEF SqCreate, SqCreateFirst, SqCreateThread, SqCreateAdd, CreateFirst,
         CreateThread, CreateAdd, Executing
<1>5. ASSUME NEW t \in Tid, SqThreadStep(t) PROVE phase \in {"thread", "stalled"}
  BY <1>5 DEF SqThreadStep, SqJoinExited, SqJoinWait, SqJoinReturn, SqExitStart,
              SqExitReturn, SqTick, SqYield, JoinExited, JoinWait, JoinReturn, ExitStart, ExitReturn, Executing,
              OnProcessor
<1>6. SqSchedStep => \/ phase' # "handle" \/ RRExitWake \/ PsjfExitWake
                     \/ join_waiting_queue' = join_waiting_queue
  BY BlockIsBlock, TimeoutRequeues
     DEF SqSchedStep, RRExitSkip, PsjfExitSkip, RRExitDone, PsjfExitDone, RRSwitch,
         PsjfSwitch, SwitchToFirst, SqStall, MlfqStep, HandleExitSkip, HandleExitDone,
         HandleBlock, Requeued, joinVars
<1>7. UNCHANGED allVars \/ SecondPassReturns \/ SecondPassCrosses =>
        join_waiting_queue' = join_waiting_queue
  BY SecondPass DEF Ends, allVars, vars, joinVars
<1> QED  BY <1>1, <1>2, <1>3, <1>4, <1>5, <1>6, <1>7 DEF SqNext

(* In a program with one joining thread there is one node, and the handler    *)
(* of the feedback queue has no other to drop with it.                        *)
LEMMA SoleNodeKeepsOthers == ASSUME IInv, CInv, OneJoiner PROVE OthersWait
<1> SUFFICES ASSUME Woken, NEW s \in Tid, Waiting(s)
             PROVE  s = join_waiting_queue[wait_ptr].tcb
  BY DEF OthersWait
<1>1. wait_ptr \in 1 .. Len(join_waiting_queue)
  BY DEF Woken, IInv, TypeOK, SchedTypeOK, JoinTypeOK
<1>2. PICK i \in 1 .. Len(join_waiting_queue) : join_waiting_queue[i].tcb = s
  BY DEF Waiting
<1>3. PICK p \in JoinPairs : p[1] = s
  BY <1>2 DEF CInv, NodesFromProgram
<1>4. PICK q \in JoinPairs : q[1] = join_waiting_queue[wait_ptr].tcb
  BY <1>1 DEF CInv, NodesFromProgram
<1> QED  BY <1>3, <1>4 DEF OneJoiner

---------------------------------------------------------------------------
(* What comes from the calls of the program. *)

(* A step that makes no join and no exit, and by which none returns. *)
LEMMA CallsUntouched ==
  ASSUME CInv, thread_number \in Nat, thread_number' \in Nat, thread_number' >= thread_number,
         JoinTypeOK,
         \A i \in 1 .. Len(join_waiting_queue') :
           \E k \in 1 .. Len(join_waiting_queue) : join_waiting_queue'[i] = join_waiting_queue[k],
         \A s \in Tid : yield_purpose'[s] = Exit => yield_purpose[s] = Exit,
         \A s \in Tid : s \in exit_thread_list' =>
                          s \in exit_thread_list \/ yield_purpose[s] = Exit,
         phase' # "stalled" =>
           phase # "stalled" /\ \A s \in Tid : InExit(s) => InExit(s)',
         pc'[Main] = "create_add" => pc[Main] = "create_add" \/ thread_number' > 1,
         phase' \in {"handle", "dispatch"} =>
           phase \in {"handle", "dispatch"} \/ thread_number > 0
  PROVE  CInv'
<1>1. NodesFromProgram'
  <2> SUFFICES ASSUME NEW i \in 1 .. Len(join_waiting_queue')
               PROVE  /\ <<join_waiting_queue'[i].tcb, join_waiting_queue'[i].tid>> \in JoinPairs
                      /\ join_waiting_queue'[i].tid < thread_number'
    BY DEF NodesFromProgram
  <2>1. PICK k \in 1 .. Len(join_waiting_queue) : join_waiting_queue'[i] = join_waiting_queue[k]
    OBVIOUS
  <2>2. /\ <<join_waiting_queue[k].tcb, join_waiting_queue[k].tid>> \in JoinPairs
        /\ join_waiting_queue[k].tid < thread_number
    BY DEF CInv, NodesFromProgram
  <2>3. join_waiting_queue[k].tid \in Nat
    <3>1. join_waiting_queue[k] \in Waiter
      BY DEF JoinTypeOK
    <3> QED  BY <3>1, MainIsThread DEF Waiter
  <2> QED  BY <2>1, <2>2, <2>3
<1>2. ExitsForGood'
  BY DEF CInv, ExitsForGood
<1>3. MainCreates'
  BY DEF CInv, MainCreates
<1> QED  BY <1>1, <1>2, <1>3 DEF CInv

LEMMA JoinWaitCalls ==
  ASSUME IInv, CInv, NEW t \in Tid, NEW u \in Tid, JoinWait(t, u) PROVE CInv'
<1>1. /\ u < thread_number /\ <<t, u>> \in JoinPairs /\ Executing(t) /\ thread_number > 0
      /\ thread_number \in Nat
  BY MainIsThread, MlfqAssumption DEF JoinWait, IInv, TypeOK, ThreadTypeOK
<1>2. get_current_thread = t
  BY <1>1 DEF IInv, CurrentIsExecuting, Executing
<1>3. /\ UNCHANGED schedVars /\ exit_thread_list' = exit_thread_list
      /\ thread_number' = thread_number
      /\ join_waiting_queue' = Append(join_waiting_queue, [tcb |-> t, tid |-> u])
      /\ yield_purpose' = [yield_purpose EXCEPT ![t] = Block]
      /\ pc' = [pc EXCEPT ![t] = "join_yield"]
  BY <1>2 DEF JoinWait
<1>4. /\ join_waiting_queue \in Seq(Waiter) /\ pc \in [Tid -> PC]
      /\ yield_purpose \in [Tid -> {Timeout, Exit, Block}]
  BY DEF IInv, TypeOK, JoinTypeOK, ThreadTypeOK
<1>5. NodesFromProgram'
  <2> SUFFICES ASSUME NEW i \in 1 .. Len(join_waiting_queue')
               PROVE  /\ <<join_waiting_queue'[i].tcb, join_waiting_queue'[i].tid>> \in JoinPairs
                      /\ join_waiting_queue'[i].tid < thread_number'
    BY DEF NodesFromProgram
  <2>1. [tcb |-> t, tid |-> u] \in Waiter
    BY DEF Waiter
  <2>2. \/ i \in 1 .. Len(join_waiting_queue) /\ join_waiting_queue'[i] = join_waiting_queue[i]
        \/ join_waiting_queue'[i] = [tcb |-> t, tid |-> u]
    BY <1>3, <1>4, <2>1
  <2> QED  BY <1>1, <1>3, <2>2 DEF CInv, NodesFromProgram
<1>6. ExitsForGood'
  <2>1. phase = "thread" /\ pc[t] = "user" /\ phase' = phase
    BY <1>1, <1>3 DEF JoinWait, Executing, schedVars
  <2>2. t \notin exit_thread_list /\ yield_purpose[t] # Exit
    BY <2>1 DEF CInv, ExitsForGood, InExit
  <2> QED  BY <1>3, <1>4, <2>1, <2>2 DEF CInv, ExitsForGood, InExit, Block, Exit
<1>7. MainCreates'
  BY <1>3, <1>4, MainIsThread DEF CInv, MainCreates, schedVars
<1> QED  BY <1>5, <1>6, <1>7 DEF CInv

LEMMA ExitStartCalls == ASSUME IInv, CInv, NEW t \in Tid, ExitStart(t) PROVE CInv'
<1>1. Executing(t) /\ thread_number > 0
  BY DEF ExitStart
<1>2. get_current_thread = t
  BY <1>1 DEF IInv, CurrentIsExecuting, Executing
<1>3. /\ UNCHANGED schedVars
      /\ UNCHANGED <<join_waiting_queue, exit_thread_list, thread_number>>
      /\ yield_purpose' = [yield_purpose EXCEPT ![t] = Exit]
      /\ pc' = [pc EXCEPT ![t] = "exit_yield"]
  BY <1>2 DEF ExitStart
<1>4. pc \in [Tid -> PC] /\ yield_purpose \in [Tid -> {Timeout, Exit, Block}]
  BY DEF IInv, TypeOK, ThreadTypeOK
<1>5. NodesFromProgram'
  BY <1>3 DEF CInv, NodesFromProgram
<1>6. ExitsForGood'
  BY <1>1, <1>3, <1>4 DEF CInv, ExitsForGood, InExit, Executing, schedVars
<1>7. MainCreates'
  BY <1>3, <1>4, MainIsThread DEF CInv, MainCreates, schedVars
<1> QED  BY <1>5, <1>6, <1>7 DEF CInv

LEMMA AnyStepKeepsCalls == ASSUME IInv, CInv, [AnyNext]_vars PROVE CInv'
<1>1. /\ thread_number \in Nat /\ JoinTypeOK /\ pc \in [Tid -> PC]
      /\ yield_purpose \in [Tid -> {Timeout, Exit, Block}] /\ ptr \in Tid
  BY MlfqAssumption DEF IInv, TypeOK, ThreadTypeOK, SchedTypeOK
<1>2. ASSUME Create PROVE CInv'
  <2>1. /\ thread_number' \in Nat /\ thread_number' >= thread_number
        /\ UNCHANGED joinVars /\ UNCHANGED schedVars
        /\ pc'[Main] = "create_add" => thread_number' > 1
    BY <1>1, <1>2, MainIsThread DEF Create, CreateFirst, CreateThread, CreateAdd, threadVars
  <2>2. \A s \in Tid : yield_purpose'[s] = Exit => yield_purpose[s] = Exit
    BY <1>1, <1>2, MainIsThread
       DEF Create, CreateFirst, CreateThread, CreateAdd, threadVars, Timeout, Exit
  <2>3. /\ join_waiting_queue' = join_waiting_queue /\ exit_thread_list' = exit_thread_list
        /\ phase' = phase
    BY <2>1 DEF joinVars, schedVars
  <2>4. phase = "thread" /\ \A s \in Tid : InExit(s) => InExit(s)'
    BY <1>1, <1>2, MainIsThread
       DEF Create, CreateFirst, CreateThread, CreateAdd, Executing, InExit
  <2> QED  BY <1>1, <2>1, <2>2, <2>3, <2>4, CallsUntouched
<1>3. ASSUME NEW t \in Tid, NEW u \in Tid, JoinExited(t, u) PROVE CInv'
  <2>1. UNCHANGED <<join_waiting_queue, exit_thread_list, yield_purpose, thread_number, pc, phase>>
    BY <1>3 DEF JoinExited, threadVars, schedVars
  <2> QED  BY <1>1, <2>1, CallsUntouched DEF InExit
<1>4. ASSUME NEW t \in Tid, JoinReturn(t) \/ ExitReturn(t) PROVE CInv'
  <2>1. /\ UNCHANGED <<join_waiting_queue, exit_thread_list, yield_purpose, thread_number, phase>>
        /\ pc'[Main] = "create_add" => pc[Main] = "create_add"
    BY <1>1, <1>4, MainIsThread DEF JoinReturn, ExitReturn, joinVars, threadVars, schedVars
  <2>2. phase # "stalled" => \A s \in Tid : InExit(s) => InExit(s)'
    BY <1>1, <1>4 DEF JoinReturn, ExitReturn, InExit
  <2> QED  BY <1>1, <2>1, <2>2, CallsUntouched
<1>5. ASSUME NEW t \in Tid, Yielded(t) \/ Interrupted(t) PROVE CInv'
  <2>1. /\ UNCHANGED <<join_waiting_queue, exit_thread_list, yield_purpose, thread_number>>
        /\ thread_number > 0
        /\ pc'[Main] = "create_add" => pc[Main] = "create_add"
    BY <1>1, <1>5, MainIsThread DEF Yielded, Interrupted, TakenOff, threadVars, joinVars
  <2>2. phase = "thread" /\ \A s \in Tid : InExit(s) => InExit(s)'
    BY <1>1, <1>5 DEF Yielded, Interrupted, Executing, InExit
  <2> QED  BY <1>1, <2>1, <2>2, CallsUntouched
<1>6. ASSUME Requeued \/ HandleExitSkip \/ Dispatch \/ Stall \/ Ends PROVE CInv'
  <2>1. /\ UNCHANGED <<join_waiting_queue, exit_thread_list, yield_purpose, thread_number, pc>>
        /\ phase \in {"handle", "dispatch"}
    BY <1>6 DEF Requeued, HandleExitSkip, Exits, Dispatch, Stall, Ends, threadVars, joinVars
  <2> QED  BY <1>1, <2>1, CallsUntouched DEF InExit
<1>7. ASSUME HandleBlock PROVE CInv'
  <2>1. /\ UNCHANGED <<join_waiting_queue, exit_thread_list, thread_number, pc>>
        /\ phase \in {"handle", "dispatch"}
        /\ yield_purpose' = [yield_purpose EXCEPT ![ptr] = Timeout]
    BY <1>7 DEF HandleBlock, joinVars
  <2>2. \A s \in Tid : yield_purpose'[s] = Exit => yield_purpose[s] = Exit
    BY <1>1, <2>1 DEF Timeout, Exit
  <2> QED  BY <1>1, <2>1, <2>2, CallsUntouched DEF InExit
<1>8. ASSUME Woken PROVE CInv'
  <2>1. /\ UNCHANGED <<exit_thread_list, yield_purpose, thread_number, pc>>
        /\ phase \in {"handle", "dispatch"}
    BY <1>8 DEF Woken, Exits, threadVars
  <2>2. \A i \in 1 .. Len(join_waiting_queue') :
          \E k \in 1 .. Len(join_waiting_queue) :
            join_waiting_queue'[i] = join_waiting_queue[k]
    BY <1>8 DEF Woken, ListLoses
  <2> QED  BY <1>1, <2>1, <2>2, CallsUntouched DEF InExit
<1>9. ASSUME HandleExitDone PROVE CInv'
  <2>1. /\ UNCHANGED <<join_waiting_queue, yield_purpose, thread_number, pc>>
        /\ phase \in {"handle", "dispatch"} /\ yield_purpose[ptr] = Exit
        /\ exit_thread_list' = exit_thread_list \cup {ptr}
    BY <1>9 DEF HandleExitDone, Exits, threadVars
  <2> QED  BY <1>1, <2>1, CallsUntouched DEF InExit
<1>10. ASSUME UNCHANGED vars PROVE CInv'
  <2>1. UNCHANGED <<join_waiting_queue, exit_thread_list, yield_purpose, thread_number, pc, phase>>
    BY <1>10 DEF vars, threadVars, joinVars, schedVars
  <2> QED  BY <1>1, <2>1, CallsUntouched DEF InExit
<1> QED  BY <1>2, <1>3, <1>4, <1>5, <1>6, <1>7, <1>8, <1>9, <1>10, JoinWaitCalls, ExitStartCalls
         DEF AnyNext, AnyThreadStep, AnySchedStep

---------------------------------------------------------------------------
(* The other parts of the invariant. *)

LEMMA SqTypesKept ==
  ASSUME IInv, SqTypes, OneQueue, [SqNext]_allVars
  PROVE  SqTypes'
<1>1. QUEUE_NUMBER' \in QueueNumbers
  BY QueueNumberIsKept DEF SqTypes
<1>2. CASE UNCHANGED <<waiting_time, it_interval, placed, unmasked>>
  BY <1>1, <1>2 DEF SqTypes
<1>3. MaybeRefused => SqTypes'
  BY <1>1 DEF MaybeRefused, SqTypes
<1>4. SqCreate => SqTypes'
  BY <1>1, <1>2, <1>3 DEF SqCreate, SqCreateFirst, SqCreateThread, SqCreateAdd, SqTypes, sqVars
<1>5. ASSUME schedule, Interrupts \/ Calls PROVE SqTypes'
  <2>1. it_interval' \in {0, Interval, RefusedInterval} /\ unmasked' \in BOOLEAN
    BY <1>5 DEF Interrupts, Calls, SqTypes
  <2>2. placed' = placed
    BY <1>5, ScheduleKeeps
  <2>3. waiting_time' \in [Tid -> Int]
    <3>1. CASE sched_PSJF
      <4>1. PICK q : waiting_time' = add_waiting_time(q)
        BY <3>1, Zenon DEF sched_PSJF
      <4> QED  BY <4>1, QueueTypes DEF add_waiting_time
    <3>2. CASE sched_RR \/ sched_MLFQ
      BY <3>2 DEF sched_RR, sched_MLFQ, SqTypes
    <3> QED  BY <1>5, <3>1, <3>2 DEF schedule
  <2> QED  BY <1>1, <2>1, <2>2, <2>3 DEF SqTypes
<1>6. ASSUME NEW t \in Tid, SqThreadStep(t) PROVE SqTypes'
  BY <1>2, <1>3, <1>5, <1>6
     DEF SqThreadStep, SqJoinExited, SqJoinWait, SqJoinReturn, SqExitStart, SqExitReturn,
         SqTick,
         SqYield, sqVars
<1>7. PsjfTimeout => SqTypes'
  <2>1. PsjfTimeout => /\ placed' = placed \cup {ptr}
                        /\ UNCHANGED <<waiting_time, it_interval, unmasked>>
    BY Zenon DEF PsjfTimeout
  <2> QED  BY <1>1, <2>1, QueueTypes DEF SqTypes
<1>8. ASSUME PsjfExitWake PROVE SqTypes'
  <2>1. PICK j : j = join_waiting_queue[wait_ptr].tcb
    OBVIOUS
  <2>2. /\ placed' = placed \cup {j} /\ UNCHANGED <<it_interval, unmasked>>
        /\ \E w \in Garbage : waiting_time' = [waiting_time EXCEPT ![j] = w]
    BY <1>8, <2>1, Zenon DEF PsjfExitWake
  <2>3. j \in Tid
    <3>1. /\ wait_ptr \in 1 .. Len(join_waiting_queue) /\ TypeOK
      BY <1>8, ExitWakes DEF WokenJoin, IInv, TypeOK, SchedTypeOK, JoinTypeOK
    <3> QED  BY <2>1, <3>1, NodeType
  <2> QED  BY <1>1, <2>2, <2>3, QueueTypes, SchedulersAssumption DEF SqTypes
<1>9. SqSchedStep => SqTypes'
  BY <1>2, <1>7, <1>8, BlockIsBlock
     DEF SqSchedStep, RRTimeout, RRExitWake, RRExitSkip, PsjfExitSkip, RRExitDone,
         PsjfExitDone, RRSwitch, PsjfSwitch, SwitchToFirst, SqStall, MlfqStep, sqVars
<1>10. SecondPassReturns => SqTypes'
  <2>1. run_queue[1] # << >> => Head(run_queue[1]) \in Tid
    BY QueueTypes
  <2> QED  BY <1>1, <2>1, SecondPass DEF SqTypes
<1>11. SecondPassCrosses => SqTypes'
  BY <1>1, <1>2, SecondPass DEF sqVars
<1> QED  BY <1>2, <1>4, <1>6, <1>9, <1>10, <1>11 DEF SqNext, allVars, sqVars

LEMMA OneQueueKept ==
  ASSUME IInv, SqTypes, OneQueue, [SqNext]_allVars
  PROVE  OneQueue'
<1> SUFFICES ASSUME ~Feedback
             PROVE  run_queue'[2] = << >> /\ current_queue_number' = 1
  BY QueueNumberIsKept DEF OneQueue, Feedback
<1>1. run_queue[2] = << >> /\ current_queue_number = 1
  BY DEF OneQueue
<1>2. \A t : run_queue' = add_to_run_queue(1, t) => run_queue'[2] = run_queue[2]
  BY QueueTypes DEF add_to_run_queue, RunQueueType
<1>3. SqCreate => run_queue'[2] = << >> /\ current_queue_number' = 1
  BY <1>1, <1>2 DEF SqCreate, SqCreateFirst, SqCreateThread, SqCreateAdd, CreateFirst,
                    CreateThread, CreateAdd
<1>4. schedule => run_queue'[2] = << >> /\ current_queue_number' = 1
  BY <1>1, QueueTypes
     DEF schedule, sched_RR, sched_PSJF, sched_MLFQ, TakeFront, RunQueueType
<1>5. ASSUME NEW t \in Tid, SqThreadStep(t)
      PROVE  run_queue'[2] = << >> /\ current_queue_number' = 1
  BY <1>1, <1>4, <1>5
     DEF SqThreadStep, SqJoinExited, SqJoinWait, SqJoinReturn, SqExitStart, SqExitReturn,
         SqTick,
         SqYield, JoinExited, JoinWait, JoinReturn, ExitStart, ExitReturn, queueVars
<1>6. SqSchedStep => run_queue'[2] = << >> /\ current_queue_number' = 1
  <2>1. RRTimeout \/ PsjfTimeout \/ RRExitWake \/ PsjfExitWake =>
          run_queue'[2] = << >> /\ current_queue_number' = 1
    BY <1>1, TimeoutRequeues, ExitWakes DEF Requeued, Woken
  <2>2. RRBlock \/ PsjfBlock => run_queue'[2] = << >> /\ current_queue_number' = 1
    BY <1>1, BlockIsBlock DEF HandleBlock, queueVars
  <2> QED  BY <1>1, <2>1, <2>2
           DEF SqSchedStep, RRExitSkip, PsjfExitSkip, RRExitDone, PsjfExitDone, RRSwitch,
               PsjfSwitch, SwitchToFirst, SqStall, MlfqStep, HandleExitSkip,
               HandleExitDone, queueVars
<1>7. UNCHANGED allVars \/ SecondPassReturns \/ SecondPassCrosses =>
        run_queue'[2] = << >> /\ current_queue_number' = 1
  BY <1>1, SecondPass DEF Ends, allVars, vars, queueVars
<1> QED  BY <1>3, <1>5, <1>6, <1>7 DEF SqNext

(* A thread that exists goes on to exist. *)
LEMMA KnownStays ==
  ASSUME IInv, [AnyNext]_vars, NEW s \in Tid, Known(s)
  PROVE  Known(s)'
<1> USE MainIsThread
<1>1. /\ thread_number \in 0 .. MaxThreads /\ pc \in [Tid -> PC]
  BY DEF IInv, TypeOK, ThreadTypeOK
<1>2. CASE Create
  BY <1>1, <1>2 DEF Create, CreateFirst, CreateThread, CreateAdd, Known, Tid, threadVars
<1>3. ASSUME NEW t \in Tid, AnyThreadStep(t) PROVE Known(s)'
  <2>1. thread_number' = thread_number
    BY <1>3 DEF AnyThreadStep, JoinExited, JoinWait, JoinReturn, ExitStart, ExitReturn,
                Yielded, Interrupted, TakenOff, threadVars
  <2>2. pc'[Main] = "create_add" => pc[Main] = "create_add"
    <3>1. CASE Yielded(t)
      BY <1>1, <3>1 DEF Yielded
    <3>2. CASE ~Yielded(t)
      BY <1>1, <1>3, <3>2
         DEF AnyThreadStep, JoinExited, JoinWait, JoinReturn, ExitStart, ExitReturn,
             Interrupted
    <3> QED  BY <3>1, <3>2
  <2> QED  BY <2>1, <2>2 DEF Known
<1>4. CASE AnySchedStep
  <2>1. thread_number' = thread_number /\ pc' = pc
    BY <1>4 DEF AnySchedStep, Requeued, HandleBlock, Woken, HandleExitSkip,
                HandleExitDone, Dispatch, Stall, Ends, threadVars
  <2> QED  BY <2>1 DEF Known
<1>5. CASE UNCHANGED vars
  BY <1>5 DEF vars, threadVars, Known
<1> QED  BY <1>2, <1>3, <1>4, <1>5 DEF AnyNext

(* PSJF places threads that exist. *)
LEMMA PlacedKept ==
  ASSUME IInv, SqTypes, OneQueue, PlacedAreKnown, [SqNext]_allVars
  PROVE  PlacedAreKnown'
<1>1. \A s \in Tid : Known(s) => Known(s)'
  BY SqStepIsAny, KnownStays
<1>2. SqCreate => placed' = placed
  BY DEF SqCreate, SqCreateFirst, SqCreateThread, SqCreateAdd, MaybeRefused, sqVars
<1>3. ASSUME NEW t \in Tid, SqThreadStep(t) PROVE placed' = placed
  BY <1>3, ScheduleKeeps
     DEF SqThreadStep, SqJoinExited, SqJoinWait, SqJoinReturn, SqExitStart, SqExitReturn,
         SqTick,
         SqYield, MaybeRefused, sqVars
<1>4. PsjfTimeout => placed' = placed \cup {ptr} /\ Known(ptr)
  <2>1. PsjfTimeout => placed' = placed \cup {ptr} /\ phase = "handle"
    BY Zenon DEF PsjfTimeout
  <2> QED  BY <2>1, InHandle
<1>5. ASSUME PsjfExitWake
      PROVE  \E j \in Tid : placed' = placed \cup {j} /\ Known(j)
  <2>1. PICK j : j = join_waiting_queue[wait_ptr].tcb
    OBVIOUS
  <2>2. placed' = placed \cup {j}
    BY <1>5, <2>1, Zenon DEF PsjfExitWake
  <2>3. /\ wait_ptr \in 1 .. Len(join_waiting_queue) /\ TypeOK
    BY <1>5, ExitWakes DEF WokenJoin, IInv, TypeOK, SchedTypeOK, JoinTypeOK
  <2>4. j \in Tid /\ Waiting(j)
    BY <2>1, <2>3, NodeType
  <2> QED  BY <2>2, <2>4 DEF IInv, OnlyKnown
<1>6. SqSchedStep => placed' = placed \/ PsjfTimeout \/ PsjfExitWake
  BY BlockIsBlock
     DEF SqSchedStep, RRTimeout, RRExitWake, RRExitSkip, PsjfExitSkip, RRExitDone,
         PsjfExitDone, RRSwitch, PsjfSwitch, SwitchToFirst, SqStall, MlfqStep, sqVars
<1>7. UNCHANGED allVars \/ SecondPassCrosses => placed' = placed
  BY SecondPass DEF allVars, sqVars
<1>9. ASSUME SecondPassReturns
      PROVE  placed' = placed \/ \E j \in Tid : placed' = placed \cup {j} /\ Known(j)
  <2>1. PICK j : j = Head(run_queue[1])
    OBVIOUS
  <2>2. /\ j \in Tid /\ 1 \in 1 .. 3 /\ 1 \in 1 .. Len(run_queue[1])
        /\ run_queue[1][1] = j
    BY <1>9, <2>1, SecondPass, QueueTypes
  <2>3. Known(j)
    BY <2>2 DEF IInv, OnlyKnown, InRunQueue, InQueue
  <2> QED  BY <1>9, <2>1, <2>2, <2>3, SecondPass
<1>8. \/ placed' = placed
      \/ \E j \in Tid : placed' = placed \cup {j} /\ Known(j)
  <2>1. ptr \in Tid
    BY QueueTypes
  <2> QED  BY <1>2, <1>3, <1>4, <1>5, <1>6, <1>7, <1>9, <2>1 DEF SqNext
<1> QED  BY <1>1, <1>8 DEF PlacedAreKnown, SqTypes

---------------------------------------------------------------------------
(* PSJF keeps its order. *)

LEMMA OrderAppended ==
  ASSUME OrderedBehind, run_queue[1] \in Seq(Tid), NEW t \in Tid, t \notin placed,
         run_queue'[1] = Append(run_queue[1], t),
         UNCHANGED <<waiting_time, placed, QUEUE_NUMBER>>
  PROVE  OrderedBehind'
<1> SUFFICES ASSUME Psjf,
                    NEW i \in 1 .. Len(run_queue'[1]), NEW j \in 1 .. Len(run_queue'[1]),
                    i < j, run_queue'[1][j] \in placed
             PROVE  waiting_time[run_queue'[1][i]] >= waiting_time[run_queue'[1][j]]
  BY DEF OrderedBehind, Psjf
<1>1. /\ Len(run_queue[1]) \in Nat /\ Len(run_queue'[1]) = Len(run_queue[1]) + 1
      /\ \A k \in 1 .. Len(run_queue[1]) : run_queue'[1][k] = run_queue[1][k]
      /\ run_queue'[1][Len(run_queue[1]) + 1] = t
  OBVIOUS
<1>2. i \in 1 .. Len(run_queue[1]) /\ j \in 1 .. Len(run_queue[1])
  BY <1>1
<1> QED  BY <1>1, <1>2 DEF OrderedBehind

(* A pass takes the first thread away and lets all others wait as much longer. *)
LEMMA OrderWaited ==
  ASSUME IInv, SqTypes, OneQueue, OrderedBehind, sched_PSJF, thread_number > 0,
         phase = "thread"
  PROVE  OrderedBehind'
<1> DEFINE q == run_queue[1]
           r == Tail(q)
<1>1. /\ run_queue'[1] = r /\ Psjf /\ placed' = placed
      /\ waiting_time' = add_waiting_time(run_queue'[1])
  BY QueueTypes DEF sched_PSJF, TakeFront, RunQueueType
<1>2. q \in Seq(Tid) /\ q # << >>
  BY <1>1, QueueTypes DEF IInv, CurrentIsExecuting, OneQueue, Psjf, Feedback
<1>3. /\ Len(r) = Len(q) - 1 /\ Len(q) \in Nat
      /\ \A k \in 1 .. Len(r) : k + 1 \in 1 .. Len(q) /\ r[k] = q[k + 1]
      /\ \A k \in 1 .. Len(q) : q[k] \in Tid
  BY <1>2
<1> HIDE DEF q, r
<1>4. \A k \in 1 .. Len(r) : /\ r[k] \in Tid
                             /\ waiting_time'[r[k]] = waiting_time[r[k]] + it_interval
  BY <1>1, <1>3 DEF add_waiting_time, Contains
<1> SUFFICES ASSUME NEW i \in 1 .. Len(r), NEW j \in 1 .. Len(r), i < j, r[j] \in placed
             PROVE  waiting_time'[r[i]] >= waiting_time'[r[j]]
  BY <1>1 DEF OrderedBehind
<1>5. waiting_time[q[i + 1]] >= waiting_time[q[j + 1]]
  BY <1>1, <1>3 DEF OrderedBehind, q
<1>6. /\ waiting_time[r[i]] \in Int /\ waiting_time[r[j]] \in Int /\ it_interval \in Int
  BY <1>4, QueueTypes
<1> QED  BY <1>3, <1>4, <1>5, <1>6

(* The place by waiting time, whatever the times of the threads that create   *)
(* has appended.                                                              *)
LEMMA OrderInserted ==
  ASSUME IInv, SqTypes, OrderedBehind, Psjf, NEW t \in Tid, ~InRunQueue(t),
         NEW times \in [Tid -> Int],
         \A s \in Tid : s # t => times[s] = waiting_time[s],
         run_queue' = add_to_run_queue_waiting_time_based(t, times),
         waiting_time' = times, placed' = placed \cup {t}
  PROVE  OrderedBehind'
<1>1. PICK n \in 1 .. Len(run_queue[1]) + 1 :
        /\ run_queue' = [run_queue EXCEPT ![1] = InsertAt(run_queue[1], n, t)]
        /\ \A j \in 1 .. n - 1 : times[t] <= times[run_queue[1][j]]
        /\ n <= Len(run_queue[1]) => times[t] > times[run_queue[1][n]]
  BY QueueTypes, BasedInserts, Zenon
<1> DEFINE q == run_queue[1]
<1>2. PICK r : r = run_queue'[1]
  OBVIOUS
<1>3. /\ Len(r) = Len(q) + 1
      /\ \A j \in 1 .. Len(r) :
           r[j] = IF j < n THEN q[j] ELSE IF j = n THEN t ELSE q[j - 1]
  <2>1. /\ RunQueueType /\ q \in Seq(Tid)
        /\ run_queue' = [run_queue EXCEPT ![1] = InsertAt(q, n, t)]
    BY <1>1, QueueTypes DEF RunQueueType
  <2>2. r = InsertAt(q, n, t)
    BY <1>2, <2>1 DEF RunQueueType
  <2>3. t \in Tid /\ n \in 1 .. Len(q) + 1
    BY <1>1
  <2> HIDE DEF q
  <2> QED  BY ONLY <2>1, <2>2, <2>3, Inserted
<1>4. /\ q \in Seq(Tid) /\ Len(q) \in Nat
      /\ \A k \in 1 .. Len(q) : q[k] \in Tid /\ q[k] # t
  <2>1. 1 \in 1 .. 3 /\ q \in Seq(Tid)
    BY QueueTypes
  <2> QED  BY <2>1 DEF InRunQueue, InQueue
<1> HIDE DEF q
<1>5. \A k \in 1 .. Len(q) : times[q[k]] = waiting_time[q[k]] /\ times[q[k]] \in Int
  BY <1>4
<1>6. \A i, j \in 1 .. Len(q) : i < j /\ q[j] \in placed => times[q[i]] >= times[q[j]]
  BY <1>5 DEF OrderedBehind, q
<1>7. /\ \A j \in 1 .. n - 1 : times[t] <= times[q[j]]
      /\ n <= Len(q) => times[t] > times[q[n]]
      /\ n \in 1 .. Len(q) + 1
  BY <1>1 DEF q
<1>8. times[t] \in Int
  OBVIOUS
<1> SUFFICES ASSUME NEW i \in 1 .. Len(r), NEW j \in 1 .. Len(r), i < j,
                    r[j] \in placed \cup {t}
             PROVE  times[r[i]] >= times[r[j]]
  BY <1>2 DEF OrderedBehind
<1>9. CASE j < n
  <2>1. /\ i \in 1 .. Len(q) /\ r[i] = q[i]
        /\ j \in 1 .. Len(q) /\ r[j] = q[j]
    BY <1>3, <1>4, <1>7, <1>9
  <2> QED  BY <1>4, <1>6, <2>1
<1>10. CASE j = n
  <2>1. i \in 1 .. Len(q) /\ r[i] = q[i] /\ i \in 1 .. n - 1 /\ r[j] = t
    BY <1>3, <1>4, <1>7, <1>10
  <2> QED  BY <1>5, <1>7, <1>8, <2>1
<1>11. CASE j > n
  <2>1. j - 1 \in 1 .. Len(q) /\ r[j] = q[j - 1] /\ q[j - 1] \in placed
    BY <1>3, <1>4, <1>7, <1>11
  <2>2. CASE i < n
    <3>1. i \in 1 .. Len(q) /\ r[i] = q[i] /\ i < j - 1
      BY <1>3, <1>4, <1>7, <1>11, <2>1, <2>2
    <3> QED  BY <1>6, <2>1, <3>1
  <2>3. CASE i = n
    <3>1. n \in 1 .. Len(q) /\ times[t] > times[q[n]] /\ n <= j - 1
      BY <1>4, <1>7, <1>11, <2>1
    <3>2. times[q[n]] >= times[q[j - 1]]
      BY <1>5, <1>6, <2>1, <3>1
    <3> QED  BY <1>3, <1>5, <1>8, <2>1, <2>3, <3>1, <3>2
  <2>4. CASE i > n
    <3>1. i - 1 \in 1 .. Len(q) /\ r[i] = q[i - 1] /\ i - 1 < j - 1
      BY <1>3, <1>4, <1>7, <2>1, <2>4
    <3> QED  BY <1>6, <2>1, <3>1
  <2> QED  BY <1>4, <1>7, <2>2, <2>3, <2>4
<1> QED  BY <1>3, <1>4, <1>7, <1>9, <1>10, <1>11

LEMMA OrderKept ==
  ASSUME IInv, SqTypes, OneQueue, PlacedAreKnown, OrderedBehind, [SqNext]_allVars
  PROVE  OrderedBehind'
<1> SUFFICES ASSUME Psjf PROVE OrderedBehind'
  BY QueueNumberIsKept DEF OrderedBehind, Psjf
<1>1. QUEUE_NUMBER' = QUEUE_NUMBER /\ ~Feedback /\ ~RoundRobin
  BY QueueNumberIsKept DEF Psjf, Feedback, RoundRobin
<1>2. CASE UNCHANGED <<run_queue, waiting_time, placed>>
  BY <1>1, <1>2 DEF OrderedBehind, Psjf
<1>3. \A t : run_queue' = add_to_run_queue(1, t) =>
              run_queue'[1] = Append(run_queue[1], t)
  BY QueueTypes DEF add_to_run_queue, RunQueueType
<1>4. ASSUME SqCreateFirst PROVE OrderedBehind'
  <2>1. /\ run_queue' = add_to_run_queue(1, Main) /\ thread_number = 0
        /\ UNCHANGED <<waiting_time, placed>>
    BY <1>4 DEF SqCreateFirst, CreateFirst
  <2>2. Main \notin placed
    BY <2>1, MainIsThread DEF PlacedAreKnown, Known
  <2> QED  BY <1>1, <1>3, <2>1, <2>2, MainIsThread, QueueTypes, OrderAppended
<1>5. ASSUME SqCreateAdd PROVE OrderedBehind'
  <2>1. /\ run_queue' = add_to_run_queue(1, thread_number - 1)
        /\ pc[Main] = "create_add" /\ UNCHANGED <<waiting_time, placed>>
    BY <1>5 DEF SqCreateAdd, CreateAdd, MaybeRefused
  <2>2. PICK n \in Tid : n = thread_number - 1
    BY <2>1, MlfqAssumption DEF IInv, OnlyKnown, TypeOK, ThreadTypeOK, Tid
  <2>3. n \notin placed
    BY <2>1, <2>2 DEF PlacedAreKnown, Known
  <2> QED  BY <1>1, <1>3, <2>1, <2>2, <2>3, QueueTypes, OrderAppended
<1>6. SqCreateThread => OrderedBehind'
  BY <1>2 DEF SqCreateThread, CreateThread, sqVars
<1>7. ASSUME NEW t \in Tid, SqThreadStep(t) PROVE OrderedBehind'
  <2>1. CASE SqTick(t) \/ SqYield(t)
    <3>1. sched_PSJF /\ thread_number > 0 /\ phase = "thread"
      BY <1>1, <2>1 DEF SqTick, SqYield, schedule, sched_RR, sched_MLFQ, Executing
    <3> QED  BY <3>1, OrderWaited
  <2>2. CASE ~(SqTick(t) \/ SqYield(t))
    BY <1>2, <1>7, <2>2
       DEF SqThreadStep, SqJoinExited, SqJoinWait, SqJoinReturn, SqExitStart,
           SqExitReturn, JoinExited, JoinWait, JoinReturn, ExitStart, ExitReturn, MaybeRefused, sqVars,
           queueVars
  <2> QED  BY <2>1, <2>2
<1>8. ASSUME PsjfTimeout PROVE OrderedBehind'
  <2>1. /\ run_queue' = add_to_run_queue_waiting_time_based(ptr, waiting_time)
        /\ waiting_time' = waiting_time /\ placed' = placed \cup {ptr}
        /\ phase = "handle"
    BY <1>8, Zenon DEF PsjfTimeout
  <2>2. ptr \in Tid /\ ~InRunQueue(ptr)
    BY <2>1, InHandle
  <2>3. /\ waiting_time \in [Tid -> Int]
        /\ \A s \in Tid : s # ptr => waiting_time[s] = waiting_time[s]
    BY QueueTypes
  <2> QED  BY <2>1, <2>2, <2>3, OrderInserted, Zenon
<1>9. ASSUME PsjfExitWake PROVE OrderedBehind'
  <2>1. PICK j : j = join_waiting_queue[wait_ptr].tcb
    OBVIOUS
  <2>2. /\ placed' = placed \cup {j}
        /\ run_queue' = add_to_run_queue_waiting_time_based(j, waiting_time')
    BY <1>9, <2>1, Zenon DEF PsjfExitWake
  <2>3. PICK w \in Garbage : waiting_time' = [waiting_time EXCEPT ![j] = w]
    BY <1>9, <2>1, Zenon DEF PsjfExitWake
  <2>4. j \in Tid /\ ~InRunQueue(j)
    <3>1. /\ wait_ptr \in 1 .. Len(join_waiting_queue) /\ TypeOK /\ phase = "handle"
      BY <1>9, ExitWakes DEF WokenJoin, Exits, IInv, TypeOK, SchedTypeOK, JoinTypeOK
    <3> QED  BY <2>1, <3>1, NodeType, InHandle
  <2>5. PICK times \in [Tid -> Int] :
          /\ times = waiting_time'
          /\ \A s \in Tid : s # j => times[s] = waiting_time[s]
    BY <2>3, <2>4, QueueTypes, SchedulersAssumption
  <2>6. run_queue' = add_to_run_queue_waiting_time_based(j, times)
    BY <2>2, <2>5, Zenon
  <2> QED  BY <2>2, <2>4, <2>5, <2>6, OrderInserted, Zenon
<1>10. SqSchedStep => OrderedBehind'
  BY <1>1, <1>2, <1>8, <1>9, BlockIsBlock
     DEF SqSchedStep, RRTimeout, RRExitWake, RRExitSkip, PsjfExitSkip, RRExitDone,
         PsjfExitDone, RRSwitch, PsjfSwitch, SwitchToFirst, SqStall, MlfqStep,
         HandleExitSkip, HandleExitDone, sqVars, queueVars
<1>11. UNCHANGED allVars \/ SecondPassCrosses => OrderedBehind'
  BY <1>2, SecondPass DEF Ends, allVars, vars, sqVars, queueVars
<1>12. SecondPassReturns => OrderedBehind'
  BY SecondPass DEF OrderedBehind, vars, queueVars
<1> QED  BY <1>4, <1>5, <1>6, <1>7, <1>10, <1>11, <1>12 DEF SqNext, SqCreate

---------------------------------------------------------------------------
(* The invariant. *)

LEMMA SqInitInv == ASSUME SqInit PROVE IInv /\ JoinInv /\ SqInv
<1>1. Init
  BY DEF SqInit
<1>2. IInv /\ JoinInv
  BY <1>1, InitInv, InitJoins DEF JoinInv, JInv, JoinsAnswered, JoinCorrect
<1>3. SqTypes
  <2>1. (IF Psjf THEN Garbage ELSE {0}) \subseteq Int
    BY SchedulersAssumption
  <2>2. waiting_time \in [Tid -> Int]
    BY <2>1 DEF SqInit
  <2> QED  BY <2>2 DEF SqInit, SqTypes
<1>4. OneQueue /\ PlacedAreKnown /\ OrderedBehind
  BY <1>1 DEF SqInit, Init, OneQueue, PlacedAreKnown, OrderedBehind
<1>5. PInv
  BY <1>1, MainIsThread
     DEF Init, PInv, ExitedNotInJoin, BlockedIsWaiting, AllPlaced, Known, InJoin,
         Timeout, Exit, Block
<1>6. CInv
  BY <1>1, MainIsThread
     DEF Init, CInv, NodesFromProgram, ExitsForGood, MainCreates, Timeout, Exit
<1> QED  BY <1>2, <1>3, <1>4, <1>5, <1>6 DEF SqInv

LEMMA SqStepKeeps ==
  ASSUME IInv, JoinInv, SqInv, [SqNext]_allVars
  PROVE  IInv' /\ JoinInv' /\ SqInv'
<1>1. SqTypes /\ OneQueue /\ PlacedAreKnown /\ OrderedBehind /\ CInv
  BY DEF SqInv
<1>2. [AnyNext]_vars
  BY <1>1, SqStepIsAny
<1>3. IInv' /\ JoinInv'
  BY <1>2, AnyStepKeepsInv, AnyStepKeepsJoins
<1>4. SqTypes' /\ OneQueue' /\ PlacedAreKnown' /\ OrderedBehind'
  BY <1>1, SqTypesKept, OneQueueKept, PlacedKept, OrderKept
<1>5. ASSUME ~Feedback \/ OneJoiner PROVE PInv'
  <2>1. PInv
    BY <1>5 DEF SqInv
  <2>2. OthersWait
    BY <1>1, <1>5, SingleKeepsOthers, SoleNodeKeepsOthers
  <2> QED  BY <1>2, <2>1, <2>2, AnyStepKeepsPlaces
<1>6. Feedback' <=> Feedback
  BY <1>1, QueueNumberIsKept DEF Feedback
<1>7. CInv'
  BY <1>1, <1>2, AnyStepKeepsCalls
<1> QED  BY <1>3, <1>4, <1>5, <1>6, <1>7 DEF SqInv

(* The invariants of Mlfq and SqInv hold together, with any scheduler.        *)
THEOREM SqInvariant == SqSpec => [](IInv /\ JoinInv /\ SqInv)
<1>1. SqInit => IInv /\ JoinInv /\ SqInv
  BY SqInitInv
<1>2. IInv /\ JoinInv /\ SqInv /\ [SqNext]_allVars => IInv' /\ JoinInv' /\ SqInv'
  BY SqStepKeeps
<1> QED  BY <1>1, <1>2, PTL DEF SqSpec

---------------------------------------------------------------------------
(* What follows from it.  In round robin and PSJF all of this holds until a   *)
(* signal between the releases and the switch has crossed two contexts.       *)

(* The variables keep their types, and round robin and PSJF put no thread     *)
(* into the lower queues, which they would never look at again.               *)
THEOREM SqTypesCorrect == SqSpec => []SqTypeOK
<1>1. IInv /\ SqInv => SqTypeOK
  BY DEF IInv, SqInv, SqTypes, OneQueue, SqTypeOK
<1> QED  BY <1>1, SqInvariant, PTL

(* No scheduler queues a thread twice, though round robin reaches the code    *)
(* that appends from two cases of one switch.                                 *)
THEOREM SqNeverDuplicated == SqSpec => []NoDuplicates
<1>1. IInv => NoDuplicates
  BY DEF IInv
<1> QED  BY <1>1, SqInvariant, PTL

(* No scheduler leaves a freed control block where it will be used.           *)
THEOREM SqExitedStayGone == SqSpec => []ExitedAreGone
<1>1. IInv => ExitedAreGone
  BY DEF IInv
<1> QED  BY <1>1, SqInvariant, PTL

(* The threads that PSJF has put into its queue stand in the order of their   *)
(* waiting times, for any values that memory which is not initialised holds:  *)
(* insertion, the equal growth of all queued waiting times, the removal of    *)
(* the head and the appending of new threads together keep it.                *)
THEOREM PsjfKeepsOrder == SqSpec => []PsjfOrdered
<1>1. SqInv => PsjfOrdered
  BY DEF SqInv, OrderedBehind, PsjfOrdered
<1> QED  BY <1>1, SqInvariant, PTL

(* No thread is lost, each one has exited, is ready, or waits in the join     *)
(* list: in round robin and PSJF, whatever the program, and in the feedback   *)
(* queue too if one thread makes all the joins.  (With more joining threads   *)
(* thread_handle drops nodes of other joins from the list.)                   *)
THEOREM NoneIsLost ==
  ASSUME 3 \notin QueueNumbers \/ OneJoiner
  PROVE  SqSpec => []EveryThreadPlaced
<1>1. IInv /\ SqInv => EveryThreadPlaced
  <2> SUFFICES ASSUME IInv, SqInv, phase = "thread", NEW t \in Tid, Queued(t)
               PROVE  t \in exit_thread_list \/ InRunQueue(t) \/ Waiting(t)
    BY DEF EveryThreadPlaced
  <2>1. PInv
    BY DEF SqInv, SqTypes, Feedback
  <2> QED  BY <2>1, QueuedIsKnown DEF PInv, AllPlaced, Ready
<1> QED  BY <1>1, SqInvariant, PTL

(* When no thread is ready any more, a join that begins finds its target gone. *)
LEMMA StalledKeepsMoved ==
  ASSUME IInv, JoinersAreMoved, phase = "stalled", [AnyNext]_vars PROVE JoinersAreMoved'
<1>1. /\ UNCHANGED <<queueVars, threadVars, schedVars, exit_thread_list>>
      /\ \/ \E u \in Tid : JoinExited(cpu, u)
         \/ JoinReturn(cpu) \/ ExitReturn(cpu) \/ UNCHANGED vars
  BY StalledStep
<1>2. \A s \in Tid : InJoin(s)' => InJoin(s) /\ join_target'[s] = join_target[s]
  BY <1>1 DEF JoinExited, JoinReturn, ExitReturn, InJoin, vars, joinVars, IInv, TypeOK,
              JoinTypeOK, ThreadTypeOK
<1>3. phase' = phase /\ run_queue' = run_queue /\ exit_thread_list' = exit_thread_list
  BY <1>1 DEF schedVars, queueVars
<1>4. \A s \in Tid : InRunQueue(s)' <=> InRunQueue(s)
  BY <1>3, SameRunQueue
<1> QED  BY <1>2, <1>3, <1>4 DEF JoinersAreMoved, InJoin

(* Under the same condition an exit does what the comment in thread_handle    *)
(* says: it moves every thread that waits for it to the run queue.            *)
THEOREM JoinersMove ==
  ASSUME 3 \notin QueueNumbers \/ OneJoiner
  PROVE  SqSpec => []JoinersAreMoved
<1>1. ASSUME IInv, JInv, SqInv PROVE JoinersAreMoved
  <2> SUFFICES ASSUME phase \notin {"handle", "dispatch"}, NEW t \in Tid, InJoin(t),
                      join_target[t] \in exit_thread_list
               PROVE  InRunQueue(t)
    BY DEF JoinersAreMoved, InJoin
  <2>1. PInv
    BY <1>1 DEF SqInv, SqTypes, Feedback
  <2>2. Known(t)
    BY <1>1 DEF JInv, UnknownNotInJoin
  <2>3. t \notin exit_thread_list
    BY <2>1 DEF PInv, ExitedNotInJoin
  <2>4. ~Waiting(t)
    BY <1>1 DEF JInv, NodesAgree, Waiting
  <2> QED  BY <2>1, <2>2, <2>3, <2>4 DEF PInv, AllPlaced, Ready
<1> DEFINE Moved == phase = "stalled" => JoinersAreMoved
<1>2. ASSUME IInv, JoinInv, SqInv, Moved, [SqNext]_allVars PROVE Moved'
  <2>1. [AnyNext]_vars
    BY <1>2, SqStepIsAny DEF SqInv
  <2>2. IInv' /\ SqInv'
    BY <1>2, SqStepKeeps
  <2>3. CASE phase # "stalled"
    <3>1. JInv'
      BY <1>2, <2>1, <2>3, AnyStepKeepsParts DEF JoinInv
    <3> QED  BY <2>2, <3>1, <1>1, PTL
  <2>4. CASE phase = "stalled"
    BY <1>2, <2>1, <2>4, StalledKeepsMoved
  <2> QED  BY <2>3, <2>4
<1>3. SqInit => Moved
  BY DEF SqInit, Init
<1>4. IInv /\ JoinInv /\ SqInv /\ Moved => JoinersAreMoved
  BY <1>1 DEF JoinInv
<1> HIDE DEF Moved
<1> QED  BY <1>2, <1>3, <1>4, SqInvariant, PTL DEF SqSpec

(* If joins never go round in a circle, some thread is ready whenever the     *)
(* scheduler looks for one and some thread s0 has not exited: of the threads  *)
(* that wait, the last in the order of the joins waits for one that is ready, *)
(* or for one that main has yet to queue, and then main is.                   *)
LEMMA SomeoneIsReady ==
  ASSUME 3 \notin QueueNumbers \/ OneJoiner,
         NEW rank \in [Tid -> Nat], \A p \in JoinPairs : rank[p[2]] < rank[p[1]],
         IInv, JoinInv, SqInv, phase = "dispatch",
         NEW s0 \in Tid, Known(s0), s0 \notin exit_thread_list
  PROVE  \E t \in Tid : InRunQueue(t)
<1>1. PInv /\ CInv /\ JInv
  BY DEF SqInv, SqTypes, Feedback, JoinInv
<1>2. CASE ~Waiting(s0)
  BY <1>1, <1>2 DEF PInv, AllPlaced, Ready
<1>3. CASE pc[Main] = "create_add"
  <2>1. Main \in Tid /\ Known(Main)
    BY <1>1, <1>3, MainIsThread
       DEF CInv, MainCreates, Known, Main, IInv, TypeOK, ThreadTypeOK
  <2>2. Main \notin exit_thread_list
    BY <1>1, <1>3, <2>1 DEF CInv, ExitsForGood, InExit
  <2>3. ~Waiting(Main)
    BY <1>1, <1>3 DEF Waiting, JInv, NodesAgree, InJoin
  <2> QED  BY <1>1, <2>1, <2>2, <2>3 DEF PInv, AllPlaced, Ready
<1>4. CASE Waiting(s0) /\ pc[Main] # "create_add"
  <2> DEFINE ranks == {rank[t] : t \in {s \in Tid : Waiting(s)}}
  <2>1. PICK r \in ranks : \A y \in ranks : r <= y
    <3>1. ranks \in SUBSET Nat /\ ranks # {}
      BY <1>4
    <3> HIDE DEF ranks
    <3> QED  BY <3>1, LeastNumber
  <2>2. PICK t \in Tid : Waiting(t) /\ \A s \in Tid : Waiting(s) => rank[t] <= rank[s]
    BY <2>1
  <2>3. PICK i \in 1 .. Len(join_waiting_queue) : join_waiting_queue[i].tcb = t
    BY <2>2 DEF Waiting
  <2>4. PICK u : u = join_waiting_queue[i].tid
    OBVIOUS
  <2>5. u \in Tid
    BY <2>4, NodeType DEF IInv
  <2>6. <<t, u>> \in JoinPairs /\ u < thread_number
    BY <1>1, <2>3, <2>4 DEF CInv, NodesFromProgram
  <2>7. InJoin(t) /\ u \notin exit_thread_list
    BY <1>1, <2>3, <2>4 DEF JInv, NodesAgree
  <2>8. Known(u)
    BY <1>4, <2>6 DEF Known
  <2>9. ~Waiting(u)
    <3>1. rank[u] < rank[t] /\ rank[u] \in Nat /\ rank[t] \in Nat
      BY <2>5, <2>6
    <3> QED  BY <2>2, <2>5, <3>1
  <2>10. InRunQueue(u)
    BY <1>1, <2>5, <2>7, <2>8, <2>9 DEF PInv, AllPlaced, Ready
  <2> QED  BY <2>5, <2>10
<1> QED  BY <1>2, <1>3, <1>4

(* What the scheduler finds when no thread is ready stays so.                 *)
LEMMA StalledStays ==
  ASSUME IInv, phase \in {"stalled", "sentinel"}, [AnyNext]_vars
  PROVE  /\ exit_thread_list' = exit_thread_list
         /\ \A t \in Tid : Known(t)' => Known(t)
<1>1. pc \in [Tid -> PC] /\ Main \in Tid
  BY MainIsThread DEF IInv, TypeOK, ThreadTypeOK
<1>2. /\ UNCHANGED <<exit_thread_list, thread_number>>
      /\ \/ pc' = pc
         \/ \E t \in Tid : pc[t] \in {"join_return", "exited"} /\ pc' = [pc EXCEPT ![t] = "user"]
  BY DEF AnyNext, Create, CreateFirst, CreateThread, CreateAdd, AnyThreadStep, JoinExited,
         JoinWait, JoinReturn, ExitStart, ExitReturn, Yielded, Interrupted, TakenOff,
         AnySchedStep, Requeued, HandleBlock, Woken, Exits, HandleExitSkip, Executing,
         HandleExitDone, Dispatch, Stall, Ends, vars, joinVars, threadVars
<1>3. pc[Main] = "create_add" => pc'[Main] = "create_add"
  BY <1>1, <1>2
<1> QED  BY <1>2, <1>3 DEF Known

(* A program whose joins never go round in a circle does not run out of ready *)
(* threads before all have exited: with the queue of round robin or the       *)
(* sorted one whoever joins, with the feedback queue when one thread does.    *)
THEOREM OrderedJoinsKeepItGoing ==
  ASSUME 3 \notin QueueNumbers \/ OneJoiner,
         NEW rank \in [Tid -> Nat], \A p \in JoinPairs : rank[p[2]] < rank[p[1]]
  PROVE  SqSpec => []StallsAtEnd
<1> DEFINE AllGone == \A t \in Tid : Known(t) => t \in exit_thread_list
<1>1. StallsAtEnd <=> (phase \in {"stalled", "sentinel"} => AllGone)
  BY QueuedIsKnown DEF StallsAtEnd
<1>2. ASSUME IInv, JoinInv, SqInv, phase = "dispatch", get_highest_priority = 0
      PROVE  AllGone
  BY <1>2, SomeoneIsReady, StallIsAlone
<1>3. ASSUME IInv, JoinInv, SqInv, StallsAtEnd, [SqNext]_allVars
      PROVE  StallsAtEnd'
  <2>1. [AnyNext]_vars
    BY <1>3, SqStepIsAny DEF SqInv
  <2>2. CASE phase \in {"stalled", "sentinel"}
    BY <1>1, <1>3, <2>1, <2>2, StalledStays DEF StallsAtEnd, Queued, Known
  <2>3. CASE phase \notin {"stalled", "sentinel"} /\ phase' \in {"stalled", "sentinel"}
    <3>1. Stall \/ (Ends /\ phase' = "sentinel")
      BY <2>1, <2>3
         DEF AnyNext, Create, CreateFirst, CreateThread, CreateAdd, AnyThreadStep, JoinExited,
             JoinWait, JoinReturn, ExitStart, ExitReturn, Yielded, Interrupted, TakenOff,
             AnySchedStep, Requeued, HandleBlock, Woken, Exits, HandleExitSkip,
             HandleExitDone, Dispatch, Stall, Ends, vars, schedVars
    <3>2. AllGone
      BY <1>2, <1>3, <3>1 DEF Stall, Ends
    <3>3. UNCHANGED <<thread_number, exit_thread_list, pc>>
      BY <3>1 DEF Stall, Ends, threadVars, joinVars
    <3> QED  BY <3>2, <3>3 DEF StallsAtEnd, Queued, Known
  <2>4. CASE phase' \notin {"stalled", "sentinel"}
    BY <2>4 DEF StallsAtEnd
  <2> QED  BY <2>2, <2>3, <2>4
<1>4. SqInit => StallsAtEnd
  BY DEF SqInit, Init, StallsAtEnd
<1> QED  BY <1>3, <1>4, SqInvariant, PTL DEF SqSpec

(* A program like those of the repository does not run out of ready threads   *)
(* before all have exited, with any scheduler: if main alone joins, and never *)
(* itself, then main is ready, or it waits for a thread that is, or it has    *)
(* exited and the threads that are left are ready.                            *)
THEOREM MainKeepsItGoing ==
  ASSUME \A p \in JoinPairs : p[1] = Main /\ p[2] # Main
  PROVE  SqSpec => []StallsAtEnd
<1>1. OneJoiner
  BY DEF OneJoiner
<1> DEFINE rank == [t \in Tid |-> IF t = Main THEN 1 ELSE 0]
<1>2. rank \in [Tid -> Nat] /\ \A p \in JoinPairs : rank[p[2]] < rank[p[1]]
  BY MlfqAssumption, MainIsThread
<1> HIDE DEF rank
<1> QED  BY <1>1, <1>2, OrderedJoinsKeepItGoing

=============================================================================
