---------------------------- MODULE OrderProofs ----------------------------
(***************************************************************************)
(* Proofs about Mlfq, continued: the first run queue stays ordered by      *)
(* priority, although its threads are appended and never sorted, and aging *)
(* bounds how long a ready thread can be passed over.                      *)
(***************************************************************************)
EXTENDS MlfqProofs, FiniteSetTheorems

(* Aging only adds to the priority with which a thread enters the queue.      *)
HighEnough ==
  \A i \in 1 .. Len(run_queue[1]) : priority[run_queue[1][i]] >= PriorityT1

(* A thread that is made and not queued yet has the priority of a new one.    *)
NewIsHigh ==
  pc[Main] = "create_add" => priority[thread_number - 1] = PriorityT1

OInv == FirstQueueOrdered /\ HighEnough /\ NewIsHigh

LEMMA Types ==
  ASSUME IInv
  PROVE  /\ run_queue \in [1 .. 3 -> Seq(Tid)] /\ run_queue[1] \in Seq(Tid)
         /\ Len(run_queue[1]) \in Nat
         /\ \A i \in 1 .. Len(run_queue[1]) :
              run_queue[1][i] \in Tid /\ InRunQueue(run_queue[1][i])
         /\ priority \in [Tid -> Nat] /\ PriorityT1 \in Nat
         /\ pc \in [Tid -> PC] /\ thread_number \in 0 .. MaxThreads
<1>1. /\ run_queue \in [1 .. 3 -> Seq(Tid)] /\ priority \in [Tid -> Nat]
      /\ pc \in [Tid -> PC] /\ thread_number \in 0 .. MaxThreads
  BY DEF IInv, TypeOK, QueueTypeOK, ThreadTypeOK
<1>2. run_queue[1] \in Seq(Tid)
  BY <1>1
<1>3. \A i \in 1 .. Len(run_queue[1]) : run_queue[1][i] \in Tid
  BY <1>2
<1>4. \A i \in 1 .. Len(run_queue[1]) : InRunQueue(run_queue[1][i])
  BY DEF InRunQueue, InQueue
<1> QED  BY <1>1, <1>2, <1>3, <1>4, MlfqAssumption

(* The thread that is not queued yet is none of those that the steps handle.  *)
LEMMA NewThread ==
  ASSUME IInv, pc[Main] = "create_add"
  PROVE  /\ thread_number - 1 \in Tid
         /\ ~Known(thread_number - 1)
         /\ ~InRunQueue(thread_number - 1)
<1>1. thread_number > 0 /\ thread_number \in 0 .. MaxThreads
  BY Types DEF IInv, OnlyKnown
<1>2. thread_number - 1 \in Tid /\ ~Known(thread_number - 1)
  BY <1>1, MlfqAssumption DEF Tid, Known
<1> QED  BY <1>2 DEF IInv, OnlyKnown

(* A step that leaves the first queue and the priorities in it alone.         *)
LEMMA OrderKept ==
  ASSUME IInv, OInv, run_queue'[1] = run_queue[1],
         \A s \in Tid : InRunQueue(s) => priority'[s] = priority[s]
  PROVE  FirstQueueOrdered' /\ HighEnough'
<1>1. \A i \in 1 .. Len(run_queue[1]) :
        priority'[run_queue[1][i]] = priority[run_queue[1][i]]
  BY Types
<1>2. HighEnough'
  BY <1>1 DEF OInv, HighEnough
<1>3. FirstQueueOrdered'
  BY <1>1 DEF OInv, FirstQueueOrdered
<1> QED  BY <1>2, <1>3

(* Append() keeps what was there, and Tail() moves it. *)
LEMMA Appended ==
  ASSUME NEW q \in Seq(Tid), NEW t \in Tid
  PROVE  /\ Len(Append(q, t)) = Len(q) + 1
         /\ Append(q, t)[Len(q) + 1] = t
         /\ \A i \in 1 .. Len(q) : Append(q, t)[i] = q[i]
OBVIOUS

LEMMA TailShifts ==
  ASSUME NEW q \in Seq(Tid), q # << >>
  PROVE  /\ Tail(q) \in Seq(Tid) /\ Len(q) \in Nat /\ Len(Tail(q)) = Len(q) - 1
         /\ \A i \in 1 .. Len(Tail(q)) : i + 1 \in 1 .. Len(q) /\ Tail(q)[i] = q[i + 1]
OBVIOUS

(* A thread is appended with the priority of a new one.                       *)
LEMMA OrderAppended ==
  ASSUME IInv, OInv, NEW t \in Tid, ~InRunQueue(t),
         run_queue' = add_to_run_queue(1, t),
         priority' \in [Tid -> Nat], priority'[t] = PriorityT1,
         \A s \in Tid : s # t => priority'[s] = priority[s]
  PROVE  FirstQueueOrdered' /\ HighEnough'
<1> DEFINE q == run_queue[1]
           n == Len(run_queue[1])
<1>1. run_queue'[1] = Append(q, t) /\ q \in Seq(Tid) /\ n \in Nat
  BY Types DEF add_to_run_queue
<1>2. /\ Len(run_queue'[1]) = n + 1
      /\ run_queue'[1][n + 1] = t
      /\ \A i \in 1 .. n : run_queue'[1][i] = q[i]
  BY <1>1, Appended
<1>3. \A i \in 1 .. n : q[i] \in Tid /\ q[i] # t /\ priority'[q[i]] = priority[q[i]]
  BY Types
<1>4. \A i \in 1 .. n : priority[q[i]] \in Nat /\ priority[q[i]] >= PriorityT1
  BY <1>3, Types DEF OInv, HighEnough
<1>5. \A i \in 1 .. n + 1 :
        \/ i \in 1 .. n /\ priority'[run_queue'[1][i]] = priority[q[i]]
        \/ i = n + 1 /\ priority'[run_queue'[1][i]] = PriorityT1
  BY <1>1, <1>2, <1>3
<1>6. HighEnough'
  <2>1. ASSUME NEW i \in 1 .. n + 1
        PROVE  priority'[run_queue'[1][i]] >= PriorityT1
    <3>1. CASE i \in 1 .. n /\ priority'[run_queue'[1][i]] = priority[q[i]]
      BY <1>4, <3>1
    <3>2. CASE priority'[run_queue'[1][i]] = PriorityT1
      BY <3>2, MlfqAssumption
    <3> QED  BY <1>5, <3>1, <3>2
  <2> QED  BY <1>2, <2>1 DEF HighEnough
<1>7. ASSUME NEW i \in 1 .. n + 1, NEW j \in 1 .. n + 1, i < j
      PROVE  priority'[run_queue'[1][i]] >= priority'[run_queue'[1][j]]
  <2>1. i \in 1 .. n /\ priority'[run_queue'[1][i]] = priority[q[i]]
    BY <1>1, <1>5, <1>7
  <2>2. CASE j \in 1 .. n
    <3>1. priority'[run_queue'[1][j]] = priority[q[j]]
      BY <1>1, <1>5, <2>2
    <3>2. priority[q[i]] >= priority[q[j]]
      BY <1>7, <2>1, <2>2 DEF OInv, FirstQueueOrdered
    <3> QED  BY <2>1, <3>1, <3>2
  <2>3. CASE j = n + 1
    <3>1. priority'[run_queue'[1][j]] = PriorityT1
      BY <1>2, <2>3
    <3> QED  BY <2>1, <3>1, <1>4
  <2> QED  BY <1>1, <2>2, <2>3
<1>8. FirstQueueOrdered'
  BY <1>2, <1>7 DEF FirstQueueOrdered
<1> QED  BY <1>6, <1>8

(* The current thread is taken out and all others in the queues age: those of *)
(* the first queue together.                                                  *)
LEMMA OrderAged ==
  ASSUME IInv, OInv, NEW t \in Tid, Executing(t), thread_number > 0, Deschedule,
         pc'[Main] = "create_add" <=> pc[Main] = "create_add"
  PROVE  OInv'
<1> DEFINE q == run_queue[1]
           r == run_queue'[1]
<1>1. /\ run_queue' = [run_queue EXCEPT ![current_queue_number] = Tail(@)]
      /\ priority' = age(run_queue') /\ thread_number' = thread_number
      /\ current_queue_number \in 1 .. 3 /\ run_queue[current_queue_number] # << >>
      /\ q \in Seq(Tid) /\ priority \in [Tid -> Nat] /\ PriorityT1 \in Nat
  BY CallerIsHead, Types DEF Deschedule, threadVars, IInv, TypeOK, QueueTypeOK
<1>2. PICK d \in {0, 1} :
        /\ r \in Seq(Tid) /\ Len(q) \in Nat /\ Len(r) = Len(q) - d
        /\ \A i \in 1 .. Len(r) : i + d \in 1 .. Len(q) /\ r[i] = q[i + d]
  <2>1. CASE current_queue_number = 1
    <3>1. r = Tail(q) /\ q # << >>
      BY <1>1, <2>1, Types
    <3>2. /\ r \in Seq(Tid) /\ Len(q) \in Nat /\ Len(r) = Len(q) - 1
          /\ \A i \in 1 .. Len(r) : i + 1 \in 1 .. Len(q) /\ r[i] = q[i + 1]
      BY <1>1, <3>1, TailShifts
    <3> QED  BY <3>2
  <2>2. CASE current_queue_number # 1
    <3>1. r = q
      BY <1>1, <2>2, Types
    <3>2. Len(q) \in Nat /\ \A i \in 1 .. Len(r) : i + 0 = i
      BY <1>1, <3>1
    <3> QED  BY <1>1, <3>1, <3>2
  <2> QED  BY <2>1, <2>2
<1>3. ASSUME NEW i \in 1 .. Len(r)
      PROVE  /\ q[i + d] \in Tid /\ priority[q[i + d]] \in Nat
             /\ priority[q[i + d]] >= PriorityT1
             /\ priority'[r[i]] = priority[q[i + d]] + 1
  <2>1. /\ i + d \in 1 .. Len(q) /\ r[i] = q[i + d]
        /\ q[i + d] \in Tid /\ priority[q[i + d]] \in Nat
    BY <1>1, <1>2, Types
  <2>2. PICK s \in Tid : s = r[i]
    BY <2>1
  <2>3. InRunQueue(s)'
    <3>1. 1 \in 1 .. 3 /\ InQueue(s, 1)'
      BY <2>2 DEF InQueue
    <3> QED  BY <3>1 DEF InRunQueue
  <2>4. priority'[s] = priority[s] + 1
    BY <1>1, <2>3, DescheduleAges
  <2> QED  BY <2>1, <2>2, <2>4 DEF OInv, HighEnough
<1>4. HighEnough'
  <2>1. ASSUME NEW i \in 1 .. Len(r) PROVE priority'[r[i]] >= PriorityT1
    <3> DEFINE p == priority[q[i + d]]
    <3>1. p \in Nat /\ p >= PriorityT1 /\ priority'[r[i]] = p + 1
      BY <1>3
    <3> HIDE DEF p
    <3> QED  BY <3>1, MlfqAssumption
  <2> QED  BY <2>1 DEF HighEnough
<1>5. FirstQueueOrdered'
  <2>1. ASSUME NEW i \in 1 .. Len(r), NEW j \in 1 .. Len(r), i < j
        PROVE  priority'[r[i]] >= priority'[r[j]]
    <3>1. i + d \in 1 .. Len(q) /\ j + d \in 1 .. Len(q) /\ i + d < j + d
      BY <1>2, <2>1
    <3>2. priority[q[i + d]] >= priority[q[j + d]]
      BY <3>1 DEF OInv, FirstQueueOrdered
    <3> QED  BY <1>3, <3>2
  <2> QED  BY <2>1 DEF FirstQueueOrdered
<1>6. NewIsHigh'
  <2> SUFFICES ASSUME pc[Main] = "create_add"
               PROVE  priority'[thread_number - 1] = PriorityT1
    BY <1>1 DEF NewIsHigh
  <2>1. thread_number - 1 \in Tid /\ ~InRunQueue(thread_number - 1)
    BY NewThread
  <2>2. ~InRunQueue(thread_number - 1)'
    BY <1>1, <2>1, RemoveMember DEF IInv, NoDuplicates, TypeOK, QueueTypeOK, RunQueueType
  <2>3. priority'[thread_number - 1] = priority[thread_number - 1]
    BY <1>1, <2>1, <2>2, DescheduleAges
  <2> QED  BY <2>3 DEF OInv, NewIsHigh
<1> QED  BY <1>4, <1>5, <1>6 DEF OInv
---------------------------------------------------------------------------
(* Each action keeps the order. *)

LEMMA CreateFirstOrders == ASSUME IInv, OInv, CreateFirst PROVE OInv'
<1>1. /\ run_queue' = add_to_run_queue(1, Main) /\ thread_number = 0
      /\ priority' = [priority EXCEPT ![Main] = PriorityT1]
      /\ pc' = [pc EXCEPT ![Main] = "create"]
  BY DEF CreateFirst
<1>2. ~InRunQueue(Main)
  BY <1>1, MainIsThread DEF IInv, OnlyKnown, Known, Main
<1>3. FirstQueueOrdered' /\ HighEnough'
  BY <1>1, <1>2, MainIsThread, Types, OrderAppended
<1>4. NewIsHigh'
  BY <1>1, MainIsThread, Types DEF NewIsHigh
<1> QED  BY <1>3, <1>4 DEF OInv

LEMMA CreateThreadOrders == ASSUME IInv, OInv, CreateThread PROVE OInv'
<1>1. /\ run_queue' = run_queue /\ thread_number \in 1 .. MaxThreads - 1
      /\ priority' = [priority EXCEPT ![thread_number] = PriorityT1]
      /\ thread_number' = thread_number + 1
  BY DEF CreateThread
<1>2. thread_number \in Tid /\ ~InRunQueue(thread_number)
  BY <1>1, MlfqAssumption DEF IInv, OnlyKnown, Known, Tid
<1>3. FirstQueueOrdered' /\ HighEnough'
  BY <1>1, <1>2, Types, OrderKept
<1>4. priority'[thread_number' - 1] = PriorityT1
  BY <1>1, <1>2, Types
<1> QED  BY <1>3, <1>4 DEF OInv, NewIsHigh

LEMMA CreateAddOrders == ASSUME IInv, OInv, CreateAdd PROVE OInv'
<1>1. /\ run_queue' = add_to_run_queue(1, thread_number - 1)
      /\ priority' = priority /\ pc[Main] = "create_add"
      /\ pc' = [pc EXCEPT ![Main] = "user"]
  BY DEF CreateAdd
<1>2. /\ thread_number - 1 \in Tid /\ ~InRunQueue(thread_number - 1)
      /\ priority[thread_number - 1] = PriorityT1
  BY <1>1, NewThread DEF OInv, NewIsHigh
<1>3. FirstQueueOrdered' /\ HighEnough'
  BY <1>1, <1>2, Types, OrderAppended
<1>4. NewIsHigh'
  BY <1>1, MainIsThread, Types DEF NewIsHigh
<1> QED  BY <1>3, <1>4 DEF OInv

(* The library calls that change no queue. *)
LEMMA QueuesUntouched ==
  ASSUME OInv, queueVars' = queueVars, thread_number' = thread_number,
         pc'[Main] = "create_add" => pc[Main] = "create_add"
  PROVE  OInv'
BY DEF OInv, FirstQueueOrdered, HighEnough, NewIsHigh, queueVars

LEMMA CallsOrder ==
  ASSUME IInv, OInv, NEW t \in Tid,
         \/ \E u \in Tid : JoinExited(t, u) \/ JoinWait(t, u)
         \/ JoinReturn(t) \/ ExitStart(t) \/ ExitReturn(t)
  PROVE  OInv'
<1>1. /\ queueVars' = queueVars /\ thread_number' = thread_number
      /\ \/ pc' = pc
         \/ \E c \in {"join_yield", "user", "exit_yield"} : pc' = [pc EXCEPT ![t] = c]
  BY DEF JoinExited, JoinWait, JoinReturn, ExitStart, ExitReturn, threadVars
<1>2. pc'[Main] = "create_add" => pc[Main] = "create_add"
  BY <1>1, MainIsThread, Types
<1> QED  BY <1>1, <1>2, QueuesUntouched

LEMMA TickOrders == ASSUME IInv, OInv, NEW t \in Tid, Tick(t) PROVE OInv'
BY OrderAged DEF Tick

LEMMA YieldOrders == ASSUME IInv, OInv, NEW t \in Tid, Yield(t) PROVE OInv'
<1>1. /\ Executing(t) /\ thread_number > 0 /\ Deschedule
      /\ pc[t] \in {"user", "join_yield", "exit_yield"}
  BY DEF Yield
<1>2. PICK c \in {"user", "join_return", "exited"} : pc' = [pc EXCEPT ![t] = c]
  <2>1. CASE pc[t] = "user"
    BY <2>1 DEF Yield
  <2>2. CASE pc[t] = "join_yield"
    BY <2>2 DEF Yield
  <2>3. CASE pc[t] = "exit_yield"
    BY <2>3 DEF Yield
  <2> QED  BY <1>1, <2>1, <2>2, <2>3
<1>3. pc'[Main] = "create_add" <=> pc[Main] = "create_add"
  BY <1>1, <1>2, MainIsThread, Types
<1> QED  BY <1>1, <1>3, OrderAged

LEMMA HandleTimeoutOrders == ASSUME IInv, OInv, HandleTimeout PROVE OInv'
<1>1. /\ phase = "handle" /\ thread_number' = thread_number /\ pc' = pc
      /\ \E p \in {PriorityT2, PriorityT3} : priority' = [priority EXCEPT ![ptr] = p]
      /\ \E k \in {2, 3} : run_queue' = add_to_run_queue(k, ptr)
  BY DEF HandleTimeout, threadVars
<1>2. ptr \in Tid /\ ~InRunQueue(ptr) /\ Known(ptr)
  BY <1>1, InHandle
<1>3. run_queue'[1] = run_queue[1]
  BY <1>1, Types DEF add_to_run_queue
<1>4. \A s \in Tid : s # ptr => priority'[s] = priority[s]
  BY <1>1, <1>2, Types
<1>5. FirstQueueOrdered' /\ HighEnough'
  BY <1>2, <1>3, <1>4, OrderKept
<1>6. NewIsHigh'
  BY <1>1, <1>2, <1>4, NewThread DEF OInv, NewIsHigh
<1> QED  BY <1>5, <1>6 DEF OInv

LEMMA HandleExitWakeOrders == ASSUME IInv, OInv, HandleExitWake PROVE OInv'
<1> DEFINE j == join_waiting_queue[wait_ptr].tcb
<1>1. /\ phase = "handle" /\ wait_ptr <= Len(join_waiting_queue)
      /\ priority' = [priority EXCEPT ![j] = PriorityT1]
      /\ run_queue' = add_to_run_queue(1, j)
      /\ thread_number' = thread_number /\ pc' = pc
  BY DEF HandleExitWake, Exits, threadVars
<1>2. j \in Tid /\ Waiting(j)
  <2>1. wait_ptr \in 1 .. Len(join_waiting_queue)
    BY <1>1 DEF IInv, TypeOK, SchedTypeOK, JoinTypeOK
  <2>2. join_waiting_queue[wait_ptr] \in Waiter
    BY <2>1 DEF IInv, TypeOK, JoinTypeOK
  <2> QED  BY <2>1, <2>2 DEF Waiter, Waiting
<1>3. ~InRunQueue(j) /\ Known(j)
  BY <1>1, <1>2, InHandle DEF IInv, OnlyKnown
<1> HIDE DEF j
<1>4. /\ priority' \in [Tid -> Nat] /\ priority'[j] = PriorityT1
      /\ \A s \in Tid : s # j => priority'[s] = priority[s]
  BY <1>1, <1>2, Types
<1>5. FirstQueueOrdered' /\ HighEnough'
  BY <1>1, <1>2, <1>3, <1>4, OrderAppended
<1>6. NewIsHigh'
  BY <1>1, <1>3, <1>4, NewThread DEF OInv, NewIsHigh
<1> QED  BY <1>5, <1>6 DEF OInv

LEMMA OtherHandlersOrder ==
  ASSUME OInv,
         \/ HandleBlock \/ HandleExitSkip \/ HandleExitDone \/ Dispatch \/ Stall
         \/ UNCHANGED vars
  PROVE  OInv'
<1>1. run_queue' = run_queue /\ priority' = priority
      /\ thread_number' = thread_number /\ pc' = pc
  BY DEF HandleBlock, HandleExitSkip, HandleExitDone, Dispatch, Stall, vars,
         queueVars, threadVars
<1> QED  BY <1>1 DEF OInv, FirstQueueOrdered, HighEnough, NewIsHigh

LEMMA InitOrders == ASSUME Init PROVE OInv
BY MainIsThread DEF Init, OInv, FirstQueueOrdered, HighEnough, NewIsHigh

LEMMA StepKeepsOrder == ASSUME IInv, OInv, [Next]_vars PROVE OInv'
<1>1. CASE Create
  BY <1>1, CreateFirstOrders, CreateThreadOrders, CreateAddOrders DEF Create
<1>2. ASSUME NEW t \in Tid, ThreadStep(t) PROVE OInv'
  BY <1>2, CallsOrder, YieldOrders, TickOrders DEF ThreadStep
<1>3. CASE SchedStep
  BY <1>3, HandleTimeoutOrders, HandleExitWakeOrders, OtherHandlersOrder DEF SchedStep
<1>4. CASE UNCHANGED vars
  BY <1>4, OtherHandlersOrder
<1> QED  BY <1>1, <1>2, <1>3, <1>4 DEF Next

(* The first queue is ordered by priority in every reachable state: the       *)
(* search for the place that add_to_run_queue_priority_based once made, and   *)
(* no longer makes (mypthread.c:866-881), is not needed.                      *)
THEOREM FirstQueueStaysOrdered == Spec => []FirstQueueOrdered
<1>1. Init => IInv /\ OInv
  BY InitInv, InitOrders
<1>2. IInv /\ OInv /\ [Next]_vars => IInv' /\ OInv'
  BY StepKeepsInv, StepKeepsOrder
<1>3. OInv => FirstQueueOrdered
  BY DEF OInv
<1> QED  BY <1>1, <1>2, <1>3, PTL DEF Spec

---------------------------------------------------------------------------
(* How long a ready thread waits.  Every pass of the scheduler adds one to    *)
(* its priority and takes one thread away from those that go before it.       *)

(* What a thread loses that is queued again in the second queue.              *)
Drop == PriorityT2 - PriorityT3

Before(u, t, k) ==
  \E i, j \in 1 .. Len(run_queue[k]) :
    i < j /\ run_queue[k][i] = u /\ run_queue[k][j] = t

(* The threads that may run before t, which is in the first or the second     *)
(* queue: once its priority has passed that of a new thread, or passed it by  *)
(* Drop, no thread that is queued later comes to them.                        *)
AheadInFirst(t) ==
  {u \in Tid : Before(u, t, 1) \/ (InQueue(u, 2) /\ priority[u] > priority[t])}

AheadInSecond(t) ==
  {u \in Tid : Before(u, t, 2) \/ (InQueue(u, 1) /\ priority[u] + Drop >= priority[t])}

FirstCounted ==
  \A t \in Tid : InQueue(t, 1) /\ priority[t] > PriorityT1 =>
    priority[t] + Cardinality(AheadInFirst(t)) <= PriorityT1 + MaxThreads - 1

SecondCounted ==
  \A t \in Tid : InQueue(t, 2) /\ priority[t] > PriorityT1 + Drop =>
    priority[t] + Cardinality(AheadInSecond(t)) <= PriorityT1 + Drop + MaxThreads - 1

(* The second queue is not ordered, but nearly so.                            *)
LowEnough ==
  \A i \in 1 .. Len(run_queue[2]) : priority[run_queue[2][i]] >= PriorityT3

AlmostOrdered ==
  \A i, j \in 1 .. Len(run_queue[2]) :
    i < j => priority[run_queue[2][i]] + Drop >= priority[run_queue[2][j]]

(* The running thread is one of those ahead of each thread that is counted.   *)
ChosenFirst ==
  phase = "thread" /\ thread_number > 0 =>
    /\ current_queue_number = 1 =>
         \A t \in Tid : InQueue(t, 2) =>
           priority[get_current_thread] + Drop >= priority[t]
    /\ current_queue_number = 2 =>
         \A t \in Tid : InQueue(t, 1) =>
           priority[get_current_thread] > priority[t] \/ priority[t] = PriorityT1

Counted == LowEnough /\ AlmostOrdered /\ FirstCounted /\ SecondCounted

WInv == Counted /\ ChosenFirst

LEMMA DropType == Drop \in Nat /\ PriorityT2 = PriorityT3 + Drop
BY MlfqAssumption DEF Drop

(* Counting threads. *)
LEMMA FewerThreads ==
  ASSUME NEW S, NEW T, S \subseteq T, T \subseteq Tid
  PROVE  /\ Cardinality(S) \in Nat /\ Cardinality(T) \in Nat
         /\ Cardinality(S) <= Cardinality(T)
         /\ \A e \in T : e \notin S => Cardinality(S) <= Cardinality(T) - 1
         /\ Cardinality(T) <= MaxThreads
<1>1. IsFiniteSet(Tid) /\ Cardinality(Tid) = MaxThreads
  BY MlfqAssumption, FS_Interval DEF Tid
<1>2. IsFiniteSet(T) /\ Cardinality(T) <= MaxThreads
  BY <1>1, FS_Subset
<1>3. IsFiniteSet(S) /\ Cardinality(S) <= Cardinality(T)
  BY <1>2, FS_Subset
<1>4. Cardinality(S) \in Nat /\ Cardinality(T) \in Nat
  BY <1>2, <1>3, FS_CardinalityType
<1>5. ASSUME NEW e \in T, e \notin S PROVE Cardinality(S) <= Cardinality(T) - 1
  <2>1. IsFiniteSet(T \ {e}) /\ Cardinality(T \ {e}) = Cardinality(T) - 1
    BY <1>2, FS_RemoveElement
  <2>2. S \in SUBSET (T \ {e})
    BY <1>5
  <2> QED  BY <2>1, <2>2, FS_Subset
<1> QED  BY <1>2, <1>3, <1>4, <1>5

LEMMA OtherThreads ==
  ASSUME NEW S, S \subseteq Tid, NEW e \in Tid, NEW t \in Tid, e # t,
         e \notin S, t \notin S
  PROVE  Cardinality(S) \in Nat /\ Cardinality(S) <= MaxThreads - 2
<1>1. Cardinality(S) \in Nat /\ Cardinality(S) <= Cardinality(Tid \ {e}) - 1
  BY FewerThreads
<1>2. Cardinality(Tid \ {e}) \in Nat /\ Cardinality(Tid \ {e}) <= Cardinality(Tid) - 1
  BY FewerThreads
<1>3. Cardinality(Tid) \in Nat /\ Cardinality(Tid) <= MaxThreads
  BY FewerThreads
<1> QED  BY <1>1, <1>2, <1>3, MlfqAssumption

(* A step in which no counted thread ages, and none gets ahead of one.        *)
LEMMA CountsKept ==
  ASSUME FirstCounted, SecondCounted, priority \in [Tid -> Nat],
         \A t \in Tid : InQueue(t, 1)' /\ priority'[t] > PriorityT1 =>
           /\ InQueue(t, 1) /\ priority'[t] = priority[t]
           /\ AheadInFirst(t)' \subseteq AheadInFirst(t),
         \A t \in Tid : InQueue(t, 2)' /\ priority'[t] > PriorityT1 + Drop =>
           /\ InQueue(t, 2) /\ priority'[t] = priority[t]
           /\ AheadInSecond(t)' \subseteq AheadInSecond(t)
  PROVE  FirstCounted' /\ SecondCounted'
<1>1. \A t \in Tid : AheadInFirst(t) \subseteq Tid /\ AheadInSecond(t) \subseteq Tid
  BY DEF AheadInFirst, AheadInSecond
<1>2. FirstCounted'
  <2> SUFFICES ASSUME NEW t \in Tid, InQueue(t, 1)', priority'[t] > PriorityT1
               PROVE  priority'[t] + Cardinality(AheadInFirst(t)')
                        <= PriorityT1 + MaxThreads - 1
    BY DEF FirstCounted
  <2>1. /\ Cardinality(AheadInFirst(t)') \in Nat /\ Cardinality(AheadInFirst(t)) \in Nat
        /\ Cardinality(AheadInFirst(t)') <= Cardinality(AheadInFirst(t))
    BY <1>1, FewerThreads
  <2>2. /\ priority'[t] = priority[t] /\ priority[t] \in Nat
        /\ priority[t] + Cardinality(AheadInFirst(t)) <= PriorityT1 + MaxThreads - 1
    BY DEF FirstCounted
  <2> QED  BY <2>1, <2>2, MlfqAssumption
<1>3. SecondCounted'
  <2> SUFFICES ASSUME NEW t \in Tid, InQueue(t, 2)', priority'[t] > PriorityT1 + Drop
               PROVE  priority'[t] + Cardinality(AheadInSecond(t)')
                        <= PriorityT1 + Drop + MaxThreads - 1
    BY DEF SecondCounted
  <2>1. /\ Cardinality(AheadInSecond(t)') \in Nat /\ Cardinality(AheadInSecond(t)) \in Nat
        /\ Cardinality(AheadInSecond(t)') <= Cardinality(AheadInSecond(t))
    BY <1>1, FewerThreads
  <2>2. /\ priority'[t] = priority[t] /\ priority[t] \in Nat
        /\ priority[t] + Cardinality(AheadInSecond(t)) <= PriorityT1 + Drop + MaxThreads - 1
    BY DEF SecondCounted
  <2> QED  BY <2>1, <2>2, MlfqAssumption, DropType
<1> QED  BY <1>2, <1>3

(* The queues of threads that are in use. *)
LEMMA TwoQueues ==
  ASSUME IInv, NEW k \in {1, 2}
  PROVE  /\ k \in 1 .. 3 /\ run_queue[k] \in Seq(Tid) /\ Len(run_queue[k]) \in Nat
         /\ \A i \in 1 .. Len(run_queue[k]) :
              /\ run_queue[k][i] \in Tid /\ InQueue(run_queue[k][i], k)
              /\ InRunQueue(run_queue[k][i])
<1>1. run_queue[k] \in Seq(Tid) /\ k \in 1 .. 3
  BY Types
<1> QED  BY <1>1 DEF InQueue, InRunQueue

LEMMA InOneQueue ==
  ASSUME IInv, NEW t \in Tid
  PROVE  /\ ~(InQueue(t, 1) /\ InQueue(t, 2))
         /\ ~Before(t, t, 1) /\ ~Before(t, t, 2)
         /\ InQueue(t, 1) \/ InQueue(t, 2) <=> InRunQueue(t)
<1>1. UniqueInRunQueues /\ run_queue[3] = << >>
  BY DEF IInv, NoDuplicates
<1>2. ~(InQueue(t, 1) /\ InQueue(t, 2))
  BY <1>1 DEF UniqueInRunQueues, InQueue
<1>3. ASSUME NEW k \in {1, 2}, Before(t, t, k) PROVE FALSE
  <2>1. PICK i \in 1 .. Len(run_queue[k]), j \in 1 .. Len(run_queue[k]) :
          i < j /\ run_queue[k][i] = t /\ run_queue[k][j] = t
    BY <1>3 DEF Before
  <2>2. i = j /\ i \in Int /\ k \in 1 .. 3
    BY <1>1, <2>1 DEF UniqueInRunQueues
  <2> QED  BY <2>1, <2>2
<1>4. ~InQueue(t, 3)
  BY <1>1 DEF InQueue
<1> QED  BY <1>2, <1>3, <1>4 DEF InRunQueue

(* A thread that is appended is before no other.                              *)
LEMMA AppendedLast ==
  ASSUME IInv, NEW k \in {1, 2}, NEW x \in Tid,
         run_queue' = [run_queue EXCEPT ![k] = Append(@, x)]
  PROVE  /\ \A t \in Tid, l \in {1, 2} : InQueue(t, l)' => InQueue(t, l) \/ (l = k /\ t = x)
         /\ \A u, t \in Tid, l \in {1, 2} : t # x /\ Before(u, t, l)' => Before(u, t, l)
<1> DEFINE q == run_queue[k]
           n == Len(run_queue[k])
<1>1. /\ run_queue'[k] = Append(q, x) /\ q \in Seq(Tid) /\ n \in Nat
      /\ \A l \in {1, 2} : l # k => run_queue'[l] = run_queue[l]
  BY Types, TwoQueues
<1>2. /\ Len(run_queue'[k]) = n + 1
      /\ run_queue'[k][n + 1] = x
      /\ \A i \in 1 .. n : run_queue'[k][i] = q[i]
  BY <1>1, Appended
<1>3. ASSUME NEW i \in 1 .. Len(run_queue'[k])
      PROVE  \/ i \in 1 .. n /\ run_queue'[k][i] = q[i]
             \/ i = n + 1 /\ run_queue'[k][i] = x
  <2>1. i \in 1 .. n \/ i = n + 1
    BY <1>1, <1>2
  <2> QED  BY <1>2, <2>1
<1>4. ASSUME NEW t \in Tid, InQueue(t, k)', t # x PROVE InQueue(t, k)
  BY <1>3, <1>4 DEF InQueue
<1>5. ASSUME NEW u \in Tid, NEW t \in Tid, t # x, Before(u, t, k)' PROVE Before(u, t, k)
  <2>1. PICK i \in 1 .. Len(run_queue'[k]), j \in 1 .. Len(run_queue'[k]) :
          i < j /\ run_queue'[k][i] = u /\ run_queue'[k][j] = t
    BY <1>5 DEF Before
  <2>2. j \in 1 .. n /\ q[j] = t
    BY <1>3, <1>5, <2>1
  <2>3. i \in 1 .. n /\ q[i] = u
    BY <1>1, <1>3, <2>1, <2>2
  <2> QED  BY <2>1, <2>2, <2>3 DEF Before
<1>6. ASSUME NEW l \in {1, 2}, l # k
      PROVE  \A u, t \in Tid : /\ InQueue(t, l)' => InQueue(t, l)
                               /\ Before(u, t, l)' => Before(u, t, l)
  BY <1>1, <1>6 DEF InQueue, Before
<1> QED  BY <1>4, <1>5, <1>6

(* A thread joins the first queue with the priority of a new one, or the      *)
(* second with one of the lower ones.                                         *)
LEMMA AppendCounted ==
  ASSUME IInv, Counted, NEW k \in {1, 2}, NEW x \in Tid, ~InRunQueue(x),
         run_queue' = [run_queue EXCEPT ![k] = Append(@, x)],
         priority' \in [Tid -> Nat],
         k = 1 => priority'[x] = PriorityT1,
         k = 2 => priority'[x] \in {PriorityT2, PriorityT3},
         \A s \in Tid : s # x => priority'[s] = priority[s]
  PROVE  Counted'
<1> USE DropType
<1>1. /\ \A t \in Tid, l \in {1, 2} :
           InQueue(t, l)' => InQueue(t, l) \/ (l = k /\ t = x)
      /\ \A u, t \in Tid, l \in {1, 2} : t # x /\ Before(u, t, l)' => Before(u, t, l)
  BY AppendedLast
<1>2. priority \in [Tid -> Nat] /\ PriorityT1 \in Nat /\ PriorityT3 \in Nat
      /\ PriorityT1 > PriorityT2
  BY Types, MlfqAssumption
<1>3. ~InQueue(x, 1) /\ ~InQueue(x, 2)
  BY InOneQueue
<1>4. ASSUME NEW t \in Tid, InQueue(t, 1)', priority'[t] > PriorityT1
      PROVE  /\ InQueue(t, 1) /\ priority'[t] = priority[t]
             /\ AheadInFirst(t)' \subseteq AheadInFirst(t)
  <2>1. t # x
    BY <1>1, <1>2, <1>3, <1>4
  <2>2. InQueue(t, 1) /\ priority'[t] = priority[t]
    BY <1>1, <1>4, <2>1
  <2>3. ASSUME NEW u \in Tid, InQueue(u, 2)', priority'[u] > priority'[t]
        PROVE  InQueue(u, 2) /\ priority[u] > priority[t]
    <3>1. u # x
      BY <1>1, <1>2, <1>3, <1>4, <2>3
    <3> QED  BY <1>1, <2>2, <2>3, <3>1
  <2>4. \A u \in Tid : Before(u, t, 1)' => Before(u, t, 1)
    BY <1>1, <2>1
  <2> QED  BY <2>2, <2>3, <2>4 DEF AheadInFirst
<1>5. ASSUME NEW t \in Tid, InQueue(t, 2)', priority'[t] > PriorityT1 + Drop
      PROVE  /\ InQueue(t, 2) /\ priority'[t] = priority[t]
             /\ AheadInSecond(t)' \subseteq AheadInSecond(t)
  <2>1. t # x
    BY <1>1, <1>2, <1>3, <1>5
  <2>2. InQueue(t, 2) /\ priority'[t] = priority[t]
    BY <1>1, <1>5, <2>1
  <2>3. ASSUME NEW u \in Tid, InQueue(u, 1)', priority'[u] + Drop >= priority'[t]
        PROVE  InQueue(u, 1) /\ priority[u] + Drop >= priority[t]
    <3>1. u # x
      BY <1>1, <1>2, <1>3, <1>5, <2>3
    <3> QED  BY <1>1, <2>2, <2>3, <3>1
  <2>4. \A u \in Tid : Before(u, t, 2)' => Before(u, t, 2)
    BY <1>1, <2>1
  <2> QED  BY <2>2, <2>3, <2>4 DEF AheadInSecond
<1>6. FirstCounted' /\ SecondCounted'
  BY <1>2, <1>4, <1>5, CountsKept DEF Counted
<1>7. LowEnough' /\ AlmostOrdered'
  <2> DEFINE q == run_queue[2]
             n == Len(run_queue[2])
  <2>1. /\ q \in Seq(Tid) /\ n \in Nat
        /\ \A i \in 1 .. n : /\ q[i] \in Tid /\ priority'[q[i]] = priority[q[i]]
                             /\ priority[q[i]] \in Nat /\ priority[q[i]] >= PriorityT3
    <3>1. 2 \in {1, 2}
      OBVIOUS
    <3>2. /\ q \in Seq(Tid) /\ n \in Nat
          /\ \A i \in 1 .. n : q[i] \in Tid /\ InRunQueue(q[i])
      BY <3>1, TwoQueues
    <3> QED  BY <1>2, <3>2 DEF Counted, LowEnough
  <2>2. CASE k = 1
    <3>1. run_queue'[2] = q
      BY <2>2, Types
    <3>2. LowEnough'
      BY <2>1, <3>1 DEF LowEnough
    <3>3. \A i, j \in 1 .. n : i < j => priority'[q[i]] + Drop >= priority'[q[j]]
      BY <2>1 DEF Counted, AlmostOrdered
    <3> QED  BY <3>1, <3>2, <3>3 DEF AlmostOrdered
  <2>3. CASE k = 2
    <3>1. run_queue'[2] = Append(q, x)
      BY <2>3, Types
    <3>2. /\ Len(run_queue'[2]) = n + 1
          /\ run_queue'[2][n + 1] = x
          /\ \A i \in 1 .. n : run_queue'[2][i] = q[i]
      BY <2>1, <3>1, Appended
    <3>3. /\ priority'[x] \in Nat /\ priority'[x] >= PriorityT3
          /\ PriorityT3 + Drop >= priority'[x]
      BY <1>2, <2>3, MlfqAssumption
    <3>4. ASSUME NEW i \in 1 .. n + 1
          PROVE  \/ i \in 1 .. n /\ priority'[run_queue'[2][i]] = priority[q[i]]
                 \/ i = n + 1 /\ priority'[run_queue'[2][i]] = priority'[x]
      <4>1. i \in 1 .. n \/ i = n + 1
        BY <2>1
      <4> QED  BY <2>1, <3>2, <4>1
    <3>5. ASSUME NEW i \in 1 .. n + 1 PROVE priority'[run_queue'[2][i]] >= PriorityT3
      BY <2>1, <3>3, <3>4
    <3>6. ASSUME NEW i \in 1 .. n + 1, NEW j \in 1 .. n + 1, i < j
          PROVE  priority'[run_queue'[2][i]] + Drop >= priority'[run_queue'[2][j]]
      <4>1. i \in 1 .. n /\ priority'[run_queue'[2][i]] = priority[q[i]]
        BY <2>1, <3>4, <3>6
      <4>2. CASE j \in 1 .. n /\ priority'[run_queue'[2][j]] = priority[q[j]]
        BY <3>6, <4>1, <4>2 DEF Counted, AlmostOrdered
      <4>3. CASE priority'[run_queue'[2][j]] = priority'[x]
        <5>1. priority[q[i]] \in Nat /\ priority[q[i]] >= PriorityT3
          BY <2>1, <4>1
        <5> QED  BY <1>2, <3>3, <4>1, <4>3, <5>1
      <4> QED  BY <3>4, <4>2, <4>3
    <3> QED  BY <3>2, <3>5, <3>6 DEF LowEnough, AlmostOrdered
  <2> QED  BY <2>2, <2>3
<1> QED  BY <1>6, <1>7 DEF Counted

LEMMA FirstAppendCounted ==
  ASSUME IInv, Counted, NEW x \in Tid, ~InRunQueue(x),
         run_queue' = add_to_run_queue(1, x),
         priority' \in [Tid -> Nat], priority'[x] = PriorityT1,
         \A s \in Tid : s # x => priority'[s] = priority[s]
  PROVE  /\ Counted'
         /\ \A t \in Tid : /\ InQueue(t, 1)' => InQueue(t, 1) \/ t = x
                           /\ InQueue(t, 2)' => InQueue(t, 2)
<1>1. PICK k \in {1, 2} : k = 1
  OBVIOUS
<1>2. run_queue' = [run_queue EXCEPT ![k] = Append(@, x)]
  BY <1>1 DEF add_to_run_queue
<1>3. Counted'
  <2>1. /\ k = 1 => priority'[x] = PriorityT1
        /\ k = 2 => priority'[x] \in {PriorityT2, PriorityT3}
    BY <1>1
  <2> QED  BY ONLY IInv, Counted, x \in Tid, ~InRunQueue(x), <1>2, <2>1, AppendCounted,
                   priority' \in [Tid -> Nat],
                   \A s \in Tid : s # x => priority'[s] = priority[s], Zenon
<1>4. \A t \in Tid, l \in {1, 2} : InQueue(t, l)' => InQueue(t, l) \/ (l = k /\ t = x)
  BY ONLY IInv, x \in Tid, <1>2, AppendedLast, Zenon
<1> QED  BY <1>1, <1>3, <1>4

LEMMA SecondAppendCounted ==
  ASSUME IInv, Counted, NEW x \in Tid, ~InRunQueue(x),
         NEW num \in {2, 3}, run_queue' = add_to_run_queue(num, x),
         priority' \in [Tid -> Nat], priority'[x] \in {PriorityT2, PriorityT3},
         \A s \in Tid : s # x => priority'[s] = priority[s]
  PROVE  Counted'
<1>1. PICK k \in {1, 2} : k = 2
  OBVIOUS
<1>2. run_queue' = [run_queue EXCEPT ![k] = Append(@, x)]
  <2>1. (IF num = 1 THEN 1 ELSE 2) = k
    BY <1>1
  <2> QED  BY <2>1, Zenon DEF add_to_run_queue
<1>3. /\ k = 1 => priority'[x] = PriorityT1
      /\ k = 2 => priority'[x] \in {PriorityT2, PriorityT3}
  BY <1>1
<1> QED  BY ONLY IInv, Counted, x \in Tid, ~InRunQueue(x), <1>2, <1>3, AppendCounted,
                 priority' \in [Tid -> Nat],
                 \A s \in Tid : s # x => priority'[s] = priority[s], Zenon

(* The thread that is taken off was before all others of its queue.           *)
LEMMA TakenFirst ==
  ASSUME IInv, NEW k \in {1, 2}, run_queue[k] # << >>, NEW e, e = Head(run_queue[k]),
         run_queue' = [run_queue EXCEPT ![k] = Tail(@)]
  PROVE  /\ e \in Tid /\ InQueue(e, k)
         /\ \A t \in Tid, l \in {1, 2} : InQueue(t, l)' => InQueue(t, l) /\ t # e
         /\ \A t \in Tid : InQueue(t, k)' => Before(e, t, k)
         /\ \A u, t \in Tid, l \in {1, 2} : Before(u, t, l)' => Before(u, t, l) /\ u # e
<1> DEFINE q == run_queue[k]
           r == run_queue'[k]
<1>1. /\ r = Tail(q) /\ q \in Seq(Tid) /\ k \in 1 .. 3
      /\ \A l \in {1, 2} : l # k => run_queue'[l] = run_queue[l]
  BY Types, TwoQueues
<1>2. /\ Len(q) \in Nat /\ Len(r) = Len(q) - 1
      /\ \A i \in 1 .. Len(r) : i + 1 \in 1 .. Len(q) /\ r[i] = q[i + 1]
  BY <1>1, TailShifts
<1>3. e = q[1] /\ 1 \in 1 .. Len(q) /\ e \in Tid
  BY <1>1
<1>4. InQueue(e, k)
  BY <1>3 DEF InQueue
<1>5. \A l \in 1 .. 3 : \A i \in 1 .. Len(run_queue[l]) :
        run_queue[l][i] = e => l = k /\ i = 1
  BY <1>1, <1>3 DEF IInv, NoDuplicates, UniqueInRunQueues
<1>6. ASSUME NEW i \in 1 .. Len(r) PROVE r[i] # e /\ i + 1 \in 1 .. Len(q) /\ 1 < i + 1
  BY <1>1, <1>2, <1>5
<1>7. ASSUME NEW t \in Tid, InQueue(t, k)'
      PROVE  InQueue(t, k) /\ t # e /\ Before(e, t, k)
  <2>1. PICK i \in 1 .. Len(r) : r[i] = t
    BY <1>7 DEF InQueue
  <2>2. i + 1 \in 1 .. Len(q) /\ q[i + 1] = t /\ t # e /\ 1 < i + 1
    BY <1>2, <1>6, <2>1
  <2> QED  BY <1>3, <2>2 DEF InQueue, Before
<1>8. ASSUME NEW u \in Tid, NEW t \in Tid, Before(u, t, k)'
      PROVE  Before(u, t, k) /\ u # e
  <2>1. PICK i \in 1 .. Len(r), j \in 1 .. Len(r) : i < j /\ r[i] = u /\ r[j] = t
    BY <1>8 DEF Before
  <2>2. /\ i + 1 \in 1 .. Len(q) /\ q[i + 1] = u /\ u # e
        /\ j + 1 \in 1 .. Len(q) /\ q[j + 1] = t
    BY <1>2, <1>6, <2>1
  <2>3. i + 1 < j + 1
    BY <2>1
  <2> QED  BY <2>2, <2>3 DEF Before
<1>9. ASSUME NEW l \in {1, 2}, l # k
      PROVE  \A u, t \in Tid : /\ InQueue(t, l)' => InQueue(t, l) /\ t # e
                               /\ Before(u, t, l)' => Before(u, t, l) /\ u # e
  <2>1. run_queue'[l] = run_queue[l] /\ l \in 1 .. 3
    BY <1>1, <1>9
  <2>2. \A i \in 1 .. Len(run_queue[l]) : run_queue[l][i] # e
    BY <1>5, <1>9, <2>1
  <2> QED  BY <2>1, <2>2 DEF InQueue, Before
<1> QED  BY <1>3, <1>4, <1>7, <1>8, <1>9

(* A pass: all threads that stay queued age, and the one that ran, which was  *)
(* ahead of those that are counted, is so no more.                            *)
LEMMA PassCounted ==
  ASSUME IInv, WInv, NEW e \in Tid, Executing(e), thread_number > 0, Deschedule
  PROVE  WInv'
<1> USE DropType
<1>0. PICK k : k = current_queue_number
  OBVIOUS
<1>1. /\ run_queue' = [run_queue EXCEPT ![k] = Tail(@)] /\ priority' = age(run_queue')
      /\ k \in {1, 2} /\ run_queue[k] # << >> /\ e = Head(run_queue[k])
      /\ phase = "thread" /\ phase' = "handle"
      /\ priority \in [Tid -> Nat] /\ PriorityT1 \in Nat /\ PriorityT3 \in Nat
  <2>1. /\ run_queue[k] # << >> /\ get_current_thread = e /\ phase = "thread"
    BY <1>0, CallerIsHead
  <2>2. k \in {1, 2}
    BY <1>0, <2>1 DEF IInv, TypeOK, QueueTypeOK
  <2> QED  BY <1>0, <2>1, <2>2, Types, MlfqAssumption DEF Deschedule, get_current_thread
<1>2. /\ InQueue(e, k)
      /\ \A t \in Tid, l \in {1, 2} : InQueue(t, l)' => InQueue(t, l) /\ t # e
      /\ \A t \in Tid : InQueue(t, k)' => Before(e, t, k)
      /\ \A u, t \in Tid, l \in {1, 2} : Before(u, t, l)' => Before(u, t, l) /\ u # e
  BY <1>1, TakenFirst
<1>3. ASSUME NEW t \in Tid, NEW l \in {1, 2}, InQueue(t, l)'
      PROVE  priority'[t] = priority[t] + 1
  <2>1. InRunQueue(t)'
    BY <1>3 DEF InRunQueue
  <2> QED  BY <1>0, <1>1, <2>1, DescheduleAges
<1>4. /\ k = 1 => \A t \in Tid : InQueue(t, 2) => priority[e] + Drop >= priority[t]
      /\ k = 2 => \A t \in Tid : InQueue(t, 1) =>
                    priority[e] > priority[t] \/ priority[t] = PriorityT1
  BY <1>0, <1>1 DEF WInv, ChosenFirst, get_current_thread
<1>5. FirstCounted'
  <2> SUFFICES ASSUME NEW t \in Tid, InQueue(t, 1)', priority'[t] > PriorityT1
               PROVE  priority'[t] + Cardinality(AheadInFirst(t)')
                        <= PriorityT1 + MaxThreads - 1
    BY DEF FirstCounted
  <2>1. /\ InQueue(t, 1) /\ t # e /\ priority'[t] = priority[t] + 1
        /\ priority[t] \in Nat /\ priority[t] >= PriorityT1
    <3>1. InQueue(t, 1) /\ t # e
      BY <1>2
    <3>2. priority'[t] = priority[t] + 1 /\ priority[t] \in Nat
      BY <1>1, <1>3
    <3> QED  BY <1>1, <3>1, <3>2
  <2>2. /\ AheadInFirst(t)' \subseteq AheadInFirst(t) /\ e \notin AheadInFirst(t)'
        /\ AheadInFirst(t) \subseteq Tid
    <3>1. ASSUME NEW u \in Tid, InQueue(u, 2)', priority'[u] > priority'[t]
          PROVE  InQueue(u, 2) /\ priority[u] > priority[t] /\ u # e
      <4>1. InQueue(u, 2) /\ u # e /\ priority'[u] = priority[u] + 1 /\ priority[u] \in Nat
        BY <1>1, <1>2, <1>3, <3>1
      <4> QED  BY <2>1, <3>1, <4>1
    <3>2. \A u \in Tid : Before(u, t, 1)' => Before(u, t, 1) /\ u # e
      BY <1>2
    <3> QED  BY <3>1, <3>2 DEF AheadInFirst
  <2>3. CASE priority[t] = PriorityT1
    <3>1. t \notin AheadInFirst(t)
      BY <2>1, InOneQueue DEF AheadInFirst
    <3>2. /\ Cardinality(AheadInFirst(t)') \in Nat
          /\ Cardinality(AheadInFirst(t)') <= MaxThreads - 2
      BY <2>1, <2>2, <3>1, OtherThreads
    <3> QED  BY <1>1, <2>1, <2>3, <3>2, MlfqAssumption
  <2>4. CASE priority[t] # PriorityT1
    <3>1. e \in AheadInFirst(t)
      <4>1. CASE k = 1
        BY <1>2, <4>1 DEF AheadInFirst
      <4>2. CASE k = 2
        BY <1>2, <1>4, <2>1, <2>4, <4>2 DEF AheadInFirst
      <4> QED  BY <1>1, <4>1, <4>2
    <3>2. /\ Cardinality(AheadInFirst(t)) \in Nat /\ Cardinality(AheadInFirst(t)') \in Nat
          /\ Cardinality(AheadInFirst(t)') <= Cardinality(AheadInFirst(t)) - 1
      BY <2>2, <3>1, FewerThreads
    <3>3. priority[t] + Cardinality(AheadInFirst(t)) <= PriorityT1 + MaxThreads - 1
      BY <1>1, <2>1, <2>4 DEF WInv, Counted, FirstCounted
    <3> QED  BY <1>1, <2>1, <3>2, <3>3, MlfqAssumption
  <2> QED  BY <2>3, <2>4
<1>6. SecondCounted'
  <2> SUFFICES ASSUME NEW t \in Tid, InQueue(t, 2)', priority'[t] > PriorityT1 + Drop
               PROVE  priority'[t] + Cardinality(AheadInSecond(t)')
                        <= PriorityT1 + Drop + MaxThreads - 1
    BY DEF SecondCounted
  <2>1. /\ InQueue(t, 2) /\ t # e /\ priority'[t] = priority[t] + 1
        /\ priority[t] \in Nat /\ priority[t] >= PriorityT1 + Drop
    <3>1. InQueue(t, 2) /\ t # e
      BY <1>2
    <3>2. priority'[t] = priority[t] + 1 /\ priority[t] \in Nat
      BY <1>1, <1>3
    <3> QED  BY <1>1, <3>1, <3>2
  <2>2. /\ AheadInSecond(t)' \subseteq AheadInSecond(t) /\ e \notin AheadInSecond(t)'
        /\ AheadInSecond(t) \subseteq Tid
    <3>1. ASSUME NEW u \in Tid, InQueue(u, 1)', priority'[u] + Drop >= priority'[t]
          PROVE  InQueue(u, 1) /\ priority[u] + Drop >= priority[t] /\ u # e
      <4>1. InQueue(u, 1) /\ u # e /\ priority'[u] = priority[u] + 1 /\ priority[u] \in Nat
        BY <1>1, <1>2, <1>3, <3>1
      <4> QED  BY <2>1, <3>1, <4>1
    <3>2. \A u \in Tid : Before(u, t, 2)' => Before(u, t, 2) /\ u # e
      BY <1>2
    <3> QED  BY <3>1, <3>2 DEF AheadInSecond
  <2>3. CASE priority[t] = PriorityT1 + Drop
    <3>1. t \notin AheadInSecond(t)
      BY <2>1, InOneQueue DEF AheadInSecond
    <3>2. /\ Cardinality(AheadInSecond(t)') \in Nat
          /\ Cardinality(AheadInSecond(t)') <= MaxThreads - 2
      BY <2>1, <2>2, <3>1, OtherThreads
    <3> QED  BY <1>1, <2>1, <2>3, <3>2, MlfqAssumption
  <2>4. CASE priority[t] # PriorityT1 + Drop
    <3>1. e \in AheadInSecond(t)
      <4>1. CASE k = 2
        BY <1>2, <4>1 DEF AheadInSecond
      <4>2. CASE k = 1
        BY <1>2, <1>4, <2>1, <4>2 DEF AheadInSecond
      <4> QED  BY <1>1, <4>1, <4>2
    <3>2. /\ Cardinality(AheadInSecond(t)) \in Nat /\ Cardinality(AheadInSecond(t)') \in Nat
          /\ Cardinality(AheadInSecond(t)') <= Cardinality(AheadInSecond(t)) - 1
      BY <2>2, <3>1, FewerThreads
    <3>3. priority[t] + Cardinality(AheadInSecond(t)) <= PriorityT1 + Drop + MaxThreads - 1
      BY <1>1, <2>1, <2>4 DEF WInv, Counted, SecondCounted
    <3> QED  BY <1>1, <2>1, <3>2, <3>3, MlfqAssumption
  <2> QED  BY <2>3, <2>4
<1>7. PICK d \in {0, 1} :
        \A i \in 1 .. Len(run_queue'[2]) :
          i + d \in 1 .. Len(run_queue[2]) /\ run_queue'[2][i] = run_queue[2][i + d]
  <2>1. run_queue[2] \in Seq(Tid)
    BY TwoQueues
  <2>2. CASE k = 2
    <3>1. run_queue'[2] = Tail(run_queue[2]) /\ run_queue[2] # << >>
      BY <1>1, <2>2, Types
    <3>2. \A i \in 1 .. Len(run_queue'[2]) :
            i + 1 \in 1 .. Len(run_queue[2]) /\ run_queue'[2][i] = run_queue[2][i + 1]
      BY <2>1, <3>1, TailShifts
    <3> QED  BY <3>2
  <2>3. CASE k = 1
    <3>1. run_queue'[2] = run_queue[2]
      BY <1>1, <2>3, Types
    <3>2. \A i \in 1 .. Len(run_queue[2]) : i + 0 = i
      BY <2>1
    <3> QED  BY <3>1, <3>2
  <2> QED  BY <1>1, <2>2, <2>3
<1> DEFINE p(i) == priority[run_queue[2][i]]
<1>8. ASSUME NEW i \in 1 .. Len(run_queue'[2])
      PROVE  /\ i + d \in 1 .. Len(run_queue[2]) /\ p(i + d) \in Nat
             /\ priority'[run_queue'[2][i]] = p(i + d) + 1
  <2>1. /\ i + d \in 1 .. Len(run_queue[2]) /\ run_queue'[2][i] = run_queue[2][i + d]
        /\ run_queue[2][i + d] \in Tid
    BY <1>7, TwoQueues
  <2>2. \E j \in 1 .. Len(run_queue'[2]) : run_queue'[2][j] = run_queue'[2][i]
    OBVIOUS
  <2>3. priority'[run_queue'[2][i]] = priority[run_queue'[2][i]] + 1
    BY <1>3, <2>1, <2>2 DEF InQueue
  <2> QED  BY <1>1, <2>1, <2>3
<1>9. \A i \in 1 .. Len(run_queue[2]) : p(i) >= PriorityT3
  BY DEF WInv, Counted, LowEnough
<1>10. \A i, j \in 1 .. Len(run_queue[2]) : i < j => p(i) + Drop >= p(j)
  BY DEF WInv, Counted, AlmostOrdered
<1> HIDE DEF p
<1>11. LowEnough'
  <2>1. ASSUME NEW i \in 1 .. Len(run_queue'[2])
        PROVE  priority'[run_queue'[2][i]] >= PriorityT3
    <3>1. p(i + d) \in Nat /\ p(i + d) >= PriorityT3
      BY <1>8, <1>9
    <3>2. priority'[run_queue'[2][i]] = p(i + d) + 1
      BY <1>8
    <3>3. PICK x \in Nat : x = p(i + d)
      BY <3>1
    <3> QED  BY <1>1, <3>1, <3>2, <3>3
  <2> QED  BY <2>1 DEF LowEnough
<1>12. AlmostOrdered'
  <2>1. ASSUME NEW i \in 1 .. Len(run_queue'[2]), NEW j \in 1 .. Len(run_queue'[2]), i < j
        PROVE  priority'[run_queue'[2][i]] + Drop >= priority'[run_queue'[2][j]]
    <3>1. i + d < j + d
      BY <2>1
    <3>2. p(i + d) + Drop >= p(j + d)
      BY <1>8, <1>10, <3>1
    <3>3. PICK a, b \in Nat : a = p(i + d) /\ b = p(j + d)
      BY <1>8
    <3>4. priority'[run_queue'[2][i]] = a + 1 /\ priority'[run_queue'[2][j]] = b + 1
      BY <1>8, <3>3
    <3>5. a + 1 + Drop >= b + 1
      BY <3>2, <3>3, DropType
    <3> QED  BY <3>4, <3>5
  <2> QED  BY <2>1 DEF AlmostOrdered
<1> QED  BY <1>1, <1>5, <1>6, <1>11, <1>12 DEF WInv, Counted, ChosenFirst

---------------------------------------------------------------------------
(* Each action keeps the counts. *)

(* Steps that leave the queues, and the priorities of the queued threads.     *)
LEMMA SameCounted ==
  ASSUME IInv, Counted, run_queue' = run_queue,
         \A s \in Tid : InRunQueue(s) => priority'[s] = priority[s]
  PROVE  Counted'
<1>1. \A t \in Tid, k \in {1, 2} :
        /\ InQueue(t, k)' <=> InQueue(t, k)
        /\ InQueue(t, k) => priority'[t] = priority[t]
  BY DEF InQueue, InRunQueue
<1>2. \A u, t \in Tid, k \in {1, 2} : Before(u, t, k)' <=> Before(u, t, k)
  BY DEF Before
<1>3. ASSUME NEW t \in Tid, InQueue(t, 1)
      PROVE  AheadInFirst(t)' \subseteq AheadInFirst(t)
  <2>1. priority'[t] = priority[t]
    BY <1>1, <1>3
  <2>2. \A u \in Tid : /\ Before(u, t, 1)' => Before(u, t, 1)
                       /\ InQueue(u, 2)' => InQueue(u, 2) /\ priority'[u] = priority[u]
    BY <1>1, <1>2
  <2> QED  BY <2>1, <2>2 DEF AheadInFirst
<1>4. ASSUME NEW t \in Tid, InQueue(t, 2)
      PROVE  AheadInSecond(t)' \subseteq AheadInSecond(t)
  <2>1. priority'[t] = priority[t]
    BY <1>1, <1>4
  <2>2. \A u \in Tid : /\ Before(u, t, 2)' => Before(u, t, 2)
                       /\ InQueue(u, 1)' => InQueue(u, 1) /\ priority'[u] = priority[u]
    BY <1>1, <1>2
  <2> QED  BY <2>1, <2>2 DEF AheadInSecond
<1>5. FirstCounted' /\ SecondCounted'
  BY <1>1, <1>3, <1>4, Types, CountsKept DEF Counted
<1>6. \A i \in 1 .. Len(run_queue[2]) :
        priority'[run_queue[2][i]] = priority[run_queue[2][i]]
  BY TwoQueues
<1>7. LowEnough'
  BY <1>6 DEF Counted, LowEnough
<1>8. AlmostOrdered'
  BY <1>6 DEF Counted, AlmostOrdered
<1> QED  BY <1>5, <1>7, <1>8 DEF Counted

LEMMA CreateFirstCounts == ASSUME IInv, WInv, CreateFirst PROVE WInv'
<1>1. /\ run_queue' = add_to_run_queue(1, Main) /\ thread_number = 0
      /\ priority' = [priority EXCEPT ![Main] = PriorityT1]
      /\ current_queue_number' = 1
  BY DEF CreateFirst
<1>2. \A s \in Tid : ~InRunQueue(s)
  BY <1>1, MainIsThread DEF IInv, OnlyKnown, Known
<1>3. /\ priority' \in [Tid -> Nat] /\ priority'[Main] = PriorityT1 /\ Main \in Tid
      /\ \A s \in Tid : s # Main => priority'[s] = priority[s]
  BY <1>1, MainIsThread, MlfqAssumption, Types
<1>4. Counted' /\ \A s \in Tid : InQueue(s, 2)' => InQueue(s, 2)
  <2>1. Counted /\ ~InRunQueue(Main)
    BY <1>2, MainIsThread DEF WInv
  <2>2. run_queue' = add_to_run_queue(1, Main)
    BY <1>1
  <2>3. /\ Main \in Tid /\ priority' \in [Tid -> Nat] /\ priority'[Main] = PriorityT1
        /\ \A s \in Tid : s # Main => priority'[s] = priority[s]
    BY <1>3
  <2> QED  BY <2>1, <2>2, <2>3, FirstAppendCounted
<1>5. \A s \in Tid : ~InQueue(s, 2)'
  BY <1>2, <1>4, InOneQueue
<1> QED  BY <1>1, <1>4, <1>5 DEF WInv, ChosenFirst

LEMMA CreateThreadCounts == ASSUME IInv, WInv, CreateThread PROVE WInv'
<1>1. /\ run_queue' = run_queue /\ thread_number \in 1 .. MaxThreads - 1
      /\ priority' = [priority EXCEPT ![thread_number] = PriorityT1]
      /\ current_queue_number' = current_queue_number /\ phase' = phase
      /\ Executing(Main) /\ thread_number' = thread_number + 1
  BY DEF CreateThread, schedVars
<1>2. thread_number \in Tid /\ ~InRunQueue(thread_number)
  BY <1>1, MlfqAssumption DEF IInv, OnlyKnown, Known, Tid
<1>3. \A s \in Tid : InRunQueue(s) => priority'[s] = priority[s]
  BY <1>1, <1>2, Types
<1>4. Counted'
  BY <1>1, <1>3, SameCounted DEF WInv
<1>5. /\ phase = "thread" /\ thread_number > 0 /\ InRunQueue(Main) /\ get_current_thread = Main
      /\ get_current_thread' = get_current_thread
  BY <1>1, MainIsThread, CallerIsHead DEF get_current_thread
<1>6. \A s \in Tid, k \in {1, 2} :
        InQueue(s, k)' => InQueue(s, k) /\ priority'[s] = priority[s]
  BY <1>1, <1>3 DEF InQueue, InRunQueue
<1>7. priority'[Main] = priority[Main]
  BY <1>3, <1>5, MainIsThread
<1>8. ChosenFirst'
  BY <1>1, <1>5, <1>6, <1>7 DEF WInv, ChosenFirst
<1> QED  BY <1>4, <1>8 DEF WInv

LEMMA CreateAddCounts == ASSUME IInv, OInv, WInv, CreateAdd PROVE WInv'
<1> DEFINE new == thread_number - 1
<1>1. /\ run_queue' = add_to_run_queue(1, new) /\ Executing(Main)
      /\ priority' = priority /\ pc[Main] = "create_add" /\ phase' = phase
      /\ thread_number' = thread_number /\ current_queue_number' = current_queue_number
  BY DEF CreateAdd, schedVars, threadVars
<1>2. /\ new \in Tid /\ ~InRunQueue(new) /\ priority[new] = PriorityT1 /\ thread_number > 0
  BY <1>1, NewThread DEF OInv, NewIsHigh, IInv, OnlyKnown
<1> HIDE DEF new
<1>3. /\ priority' \in [Tid -> Nat] /\ priority'[new] = PriorityT1
      /\ \A s \in Tid : s # new => priority'[s] = priority[s]
  BY <1>1, <1>2, Types
<1>4. /\ Counted'
      /\ \A s \in Tid : /\ InQueue(s, 1)' => InQueue(s, 1) \/ s = new
                        /\ InQueue(s, 2)' => InQueue(s, 2)
  BY <1>1, <1>2, <1>3, FirstAppendCounted DEF WInv
<1>5. phase = "thread" /\ get_current_thread' = get_current_thread
  <2>1. phase = "thread" /\ run_queue[current_queue_number] # << >>
    BY <1>1, <1>2, MainIsThread, CallerIsHead
  <2>2. current_queue_number \in 1 .. 3
    BY DEF IInv, TypeOK, QueueTypeOK
  <2>3. Head(run_queue'[current_queue_number]) = Head(run_queue[current_queue_number])
    <3>1. RunQueueType /\ 1 \in 1 .. 3
      BY Types DEF RunQueueType
    <3>2. \A k \in 1 .. 3 : run_queue[k] # << >> => Head(run_queue'[k]) = Head(run_queue[k])
      BY <1>1, <1>2, <3>1, AddMember
    <3>3. \A k : k = current_queue_number => Head(run_queue'[k]) = Head(run_queue[k])
      BY <2>1, <2>2, <3>2
    <3> QED  BY <3>3
  <2> QED  BY <1>1, <2>1, <2>3 DEF get_current_thread
<1>6. ChosenFirst'
  <2>1. ChosenFirst /\ priority'[get_current_thread'] = priority[get_current_thread]
    BY <1>1, <1>5 DEF WInv
  <2>2. ASSUME current_queue_number = 1, NEW s \in Tid, InQueue(s, 2)'
        PROVE  priority[get_current_thread] + Drop >= priority'[s]
    BY <1>1, <1>2, <1>4, <1>5, <2>1, <2>2 DEF ChosenFirst
  <2>3. ASSUME current_queue_number = 2, NEW s \in Tid, InQueue(s, 1)'
        PROVE  priority[get_current_thread] > priority'[s] \/ priority'[s] = PriorityT1
    BY <1>1, <1>2, <1>4, <1>5, <2>1, <2>3 DEF ChosenFirst
  <2> QED  BY <1>1, <2>1, <2>2, <2>3 DEF ChosenFirst
<1> QED  BY <1>4, <1>6 DEF WInv

LEMMA HandleTimeoutCounts == ASSUME IInv, WInv, HandleTimeout PROVE WInv'
<1>1. /\ phase = "handle" /\ phase' = "dispatch"
      /\ \E p \in {PriorityT2, PriorityT3} : priority' = [priority EXCEPT ![ptr] = p]
      /\ \E k \in {2, 3} : run_queue' = add_to_run_queue(k, ptr)
  BY DEF HandleTimeout
<1>2. ptr \in Tid /\ ~InRunQueue(ptr)
  BY <1>1, InHandle
<1>3. /\ priority' \in [Tid -> Nat] /\ priority'[ptr] \in {PriorityT2, PriorityT3}
      /\ \A s \in Tid : s # ptr => priority'[s] = priority[s]
  BY <1>1, <1>2, Types, MlfqAssumption
<1>4. Counted'
  BY <1>1, <1>2, <1>3, SecondAppendCounted DEF WInv
<1> QED  BY <1>1, <1>4 DEF WInv, ChosenFirst

LEMMA HandleExitWakeCounts == ASSUME IInv, WInv, HandleExitWake PROVE WInv'
<1> DEFINE j == join_waiting_queue[wait_ptr].tcb
<1>1. /\ phase = "handle" /\ phase' = phase /\ wait_ptr <= Len(join_waiting_queue)
      /\ priority' = [priority EXCEPT ![j] = PriorityT1]
      /\ run_queue' = add_to_run_queue(1, j)
  BY DEF HandleExitWake, Exits
<1>2. j \in Tid /\ Waiting(j)
  <2>1. wait_ptr \in 1 .. Len(join_waiting_queue)
    BY <1>1 DEF IInv, TypeOK, SchedTypeOK, JoinTypeOK
  <2>2. join_waiting_queue[wait_ptr] \in Waiter
    BY <2>1 DEF IInv, TypeOK, JoinTypeOK
  <2> QED  BY <2>1, <2>2 DEF Waiter, Waiting
<1>3. ~InRunQueue(j)
  BY <1>1, <1>2, InHandle
<1> HIDE DEF j
<1>4. /\ priority' \in [Tid -> Nat] /\ priority'[j] = PriorityT1
      /\ \A s \in Tid : s # j => priority'[s] = priority[s]
  BY <1>1, <1>2, Types
<1>5. Counted'
  BY <1>1, <1>2, <1>3, <1>4, FirstAppendCounted DEF WInv
<1> QED  BY <1>1, <1>5 DEF WInv, ChosenFirst

(* get_highest_priority() compares the first threads of the two queues.       *)
LEMMA DispatchCounts == ASSUME IInv, OInv, WInv, Dispatch PROVE WInv'
<1> USE DropType
<1>1. /\ run_queue' = run_queue /\ priority' = priority
      /\ current_queue_number' = get_highest_priority /\ get_highest_priority # 0
  BY DEF Dispatch
<1>2. Counted'
  BY <1>1, SameCounted DEF WInv
<1> DEFINE h(k) == priority[Head(run_queue[k])]
<1>3. ASSUME NEW k \in {1, 2}, NEW t \in Tid, InQueue(t, k)
      PROVE  /\ run_queue[k] # << >> /\ h(k) \in Nat /\ priority[t] \in Nat
             /\ k = 1 => h(k) >= priority[t]
             /\ k = 2 => h(k) + Drop >= priority[t]
  <2>1. PICK i \in 1 .. Len(run_queue[k]) : run_queue[k][i] = t
    BY <1>3 DEF InQueue
  <2>2. /\ run_queue[k] \in Seq(Tid) /\ run_queue[k] # << >>
        /\ 1 \in 1 .. Len(run_queue[k]) /\ Head(run_queue[k]) = run_queue[k][1]
        /\ run_queue[k][1] \in Tid /\ (i = 1 \/ 1 < i)
    BY <2>1, TwoQueues
  <2>3. h(k) \in Nat /\ priority[t] \in Nat
    BY <2>2, Types
  <2>4. CASE i = 1
    BY <2>1, <2>2, <2>3, <2>4
  <2>5. CASE 1 < i /\ k = 1
    BY <2>1, <2>2, <2>3, <2>5 DEF OInv, FirstQueueOrdered
  <2>6. CASE 1 < i /\ k = 2
    BY <2>1, <2>2, <2>3, <2>6 DEF WInv, Counted, AlmostOrdered
  <2> QED  BY <2>2, <2>3, <2>4, <2>5, <2>6
<1>4. /\ get_highest_priority = 1 =>
           run_queue[1] # << >> /\ (run_queue[2] # << >> => ~(h(2) > h(1)))
      /\ get_highest_priority = 2 =>
           run_queue[2] # << >> /\ (run_queue[1] # << >> => h(2) > h(1))
  BY DEF get_highest_priority, HeadPriority, IInv
<1>5. \A k \in {1, 2} : run_queue[k] # << >> => h(k) \in Nat
  <2> SUFFICES ASSUME NEW k \in {1, 2}, run_queue[k] # << >> PROVE h(k) \in Nat
    OBVIOUS
  <2>1. run_queue[k] \in Seq(Tid)
    BY TwoQueues
  <2> QED  BY <2>1, Types
<1> HIDE DEF h
<1>6. ASSUME get_highest_priority = 1, NEW t \in Tid, InQueue(t, 2)
      PROVE  h(1) + Drop >= priority[t]
  <2>1. run_queue[2] # << >> /\ h(2) + Drop >= priority[t] /\ priority[t] \in Nat
    BY <1>3, <1>6
  <2>2. h(1) \in Nat /\ h(2) \in Nat /\ ~(h(2) > h(1))
    BY <1>4, <1>5, <1>6, <2>1
  <2> QED  BY <2>1, <2>2
<1>7. ASSUME get_highest_priority = 2, NEW t \in Tid, InQueue(t, 1)
      PROVE  h(2) > priority[t]
  <2>1. run_queue[1] # << >> /\ h(1) >= priority[t] /\ priority[t] \in Nat
    BY <1>3, <1>7
  <2>2. h(1) \in Nat /\ h(2) \in Nat /\ h(2) > h(1)
    BY <1>4, <1>5, <1>7, <2>1
  <2> QED  BY <2>1, <2>2
<1>8. priority'[get_current_thread'] = h(get_highest_priority)
  BY <1>1 DEF get_current_thread, h
<1>9. \A t \in Tid, k \in {1, 2} : InQueue(t, k)' <=> InQueue(t, k)
  BY <1>1 DEF InQueue
<1>10. ChosenFirst'
  BY <1>1, <1>6, <1>7, <1>8, <1>9 DEF ChosenFirst
<1> QED  BY <1>2, <1>10 DEF WInv

(* The rest change no queue and no priority. *)
LEMMA OthersCount ==
  ASSUME IInv, WInv, queueVars' = queueVars, thread_number' = thread_number,
         phase' = phase \/ phase' # "thread"
  PROVE  WInv'
<1>1. run_queue' = run_queue /\ priority' = priority
      /\ current_queue_number' = current_queue_number
  BY DEF queueVars
<1>2. Counted'
  BY <1>1, SameCounted DEF WInv
<1>3. ChosenFirst'
  BY <1>1 DEF WInv, ChosenFirst, get_current_thread, InQueue
<1> QED  BY <1>2, <1>3 DEF WInv

LEMMA StepKeepsCounts == ASSUME IInv, OInv, WInv, [Next]_vars PROVE WInv'
<1>1. CASE Create
  BY <1>1, CreateFirstCounts, CreateThreadCounts, CreateAddCounts DEF Create
<1>2. ASSUME NEW t \in Tid, ThreadStep(t) PROVE WInv'
  <2>1. Yield(t) \/ Tick(t) => WInv'
    BY PassCounted DEF Yield, Tick
  <2>2. \/ \E u \in Tid : JoinExited(t, u) \/ JoinWait(t, u)
        \/ JoinReturn(t) \/ ExitStart(t) \/ ExitReturn(t)
        => WInv'
    BY OthersCount DEF JoinExited, JoinWait, JoinReturn, ExitStart, ExitReturn, schedVars,
                       threadVars
  <2> QED  BY <1>2, <2>1, <2>2 DEF ThreadStep
<1>3. CASE SchedStep
  <2>1. HandleBlock \/ HandleExitSkip \/ HandleExitDone \/ Stall => WInv'
    BY OthersCount DEF HandleBlock, HandleExitSkip, HandleExitDone, Stall, threadVars
  <2> QED  BY <1>3, <2>1, HandleTimeoutCounts, HandleExitWakeCounts, DispatchCounts
           DEF SchedStep
<1>4. CASE UNCHANGED vars
  BY <1>4, OthersCount DEF vars, threadVars, schedVars
<1> QED  BY <1>1, <1>2, <1>3, <1>4 DEF Next

LEMMA InitCounts == ASSUME Init PROVE WInv
<1>1. \A t \in Tid : ~InQueue(t, 1) /\ ~InQueue(t, 2)
  BY DEF Init, InQueue
<1>2. LowEnough /\ AlmostOrdered
  BY DEF Init, LowEnough, AlmostOrdered
<1> QED  BY <1>1, <1>2 DEF WInv, Counted, FirstCounted, SecondCounted, ChosenFirst

LEMMA CountsBound == ASSUME IInv, WInv PROVE WaitBounded
<1> SUFFICES ASSUME NEW t \in Tid
             PROVE  /\ InQueue(t, 1) => priority[t] <= PriorityT1 + MaxThreads - 1
                    /\ InQueue(t, 2) => priority[t] <= PriorityT1 + Drop + MaxThreads - 1
  BY DEF WaitBounded, Drop
<1>1. /\ priority[t] \in Nat /\ PriorityT1 \in Nat /\ Drop \in Nat
      /\ MaxThreads \in Nat /\ MaxThreads >= 2
  BY Types, DropType, MlfqAssumption
<1>2. Cardinality(AheadInFirst(t)) \in Nat /\ Cardinality(AheadInSecond(t)) \in Nat
  <2>1. AheadInFirst(t) \subseteq Tid /\ AheadInSecond(t) \subseteq Tid
    BY DEF AheadInFirst, AheadInSecond
  <2> QED  BY <2>1, FewerThreads
<1>3. InQueue(t, 1) /\ priority[t] > PriorityT1 =>
        priority[t] + Cardinality(AheadInFirst(t)) <= PriorityT1 + MaxThreads - 1
  BY DEF WInv, Counted, FirstCounted
<1>4. InQueue(t, 2) /\ priority[t] > PriorityT1 + Drop =>
        priority[t] + Cardinality(AheadInSecond(t)) <= PriorityT1 + Drop + MaxThreads - 1
  BY DEF WInv, Counted, SecondCounted
<1> QED  BY <1>1, <1>2, <1>3, <1>4

(* The priority of a ready thread is bounded: it is chosen after at most as   *)
(* many passes as there are threads, counted from when its priority passes    *)
(* that of a new thread, or passes it by Drop if it is in the second queue.   *)
THEOREM WaitsAreBounded == Spec => []WaitBounded
<1>1. Init => IInv /\ OInv /\ WInv
  BY InitInv, InitOrders, InitCounts
<1>2. IInv /\ OInv /\ WInv /\ [Next]_vars => IInv' /\ OInv' /\ WInv'
  BY StepKeepsInv, StepKeepsOrder, StepKeepsCounts
<1>3. IInv /\ WInv => WaitBounded
  BY CountsBound
<1> QED  BY <1>1, <1>2, <1>3, PTL DEF Spec
=============================================================================
