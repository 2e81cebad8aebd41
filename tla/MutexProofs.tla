---------------------------- MODULE MutexProofs ----------------------------
(***************************************************************************)
(* Proofs about Mutex.  The invariant of MlfqProofs does not hold once a   *)
(* mutex is locked: a thread that is marked as blocked may be stopped      *)
(* before it is in the waiting list, and one that is woken twice is queued *)
(* twice.  What is left of it is here, and suffices for the types and for  *)
(* the thread that get_current_thread() names; the lock word is proved     *)
(* about for a program with one mutex.                                     *)
(***************************************************************************)
EXTENDS Mutex, MlfqProofs, FiniteSetTheorems

(* What stays true of threads and queues whatever the mutexes do.             *)
SchedulerFacts ==
  /\ QueueTypeOK /\ ThreadTypeOK /\ JoinTypeOK
  /\ phase \in {"thread", "handle", "dispatch", "stalled", "undefined"}
  /\ ptr \in Tid /\ wait_ptr \in 1 .. Len(join_waiting_queue) + 1
  /\ CurrentIsExecuting
  /\ run_queue[3] = << >>
  /\ phase \in {"handle", "dispatch"} => ptr = cpu /\ thread_number > 0
  /\ pc[Main] = "create_add" => thread_number > 1
  /\ thread_number = 0 => run_queue[1] = << >> /\ run_queue[2] = << >>

(* Where main is in init and destroy, which it may call before it creates a   *)
(* thread; no thread is in lock or unlock before the first mypthread_create.  *)
Setup == {"init_word", "init_mid", "destroy_flag"}

CallsAfterCreate ==
  \A t \in Tid : mpc[t] \notin Setup \cup {"none"} => thread_number > 0

SetupIsMains ==
  /\ \A t \in Tid : mpc[t] \in Setup => t = Main
  /\ mpc[Main] \in {"init_word", "init_mid"} => mutex_id < MaxMid

XInv == MutexTypeOK /\ SchedulerFacts /\ CallsAfterCreate /\ SetupIsMains
---------------------------------------------------------------------------
(* Threads and scheduler. *)

LEMMA Facts ==
  ASSUME SchedulerFacts
  PROVE  /\ RunQueueType
         /\ \A k \in 1 .. 3 : run_queue[k] \in Seq(Tid) /\ Len(run_queue[k]) \in Nat
         /\ current_queue_number \in 1 .. 3 /\ priority \in [Tid -> Nat \ {0}]
         /\ join_waiting_queue \in Seq(Waiter) /\ Len(join_waiting_queue) \in Nat
         /\ thread_number \in Nat /\ cpu \in Tid /\ ptr \in Tid
<1>1. run_queue \in [1 .. 3 -> Seq(Tid)] /\ join_waiting_queue \in Seq(Waiter)
  BY DEF SchedulerFacts, QueueTypeOK, JoinTypeOK
<1>2. \A k \in 1 .. 3 : run_queue[k] \in Seq(Tid)
  BY <1>1
<1>3. /\ \A k \in 1 .. 3 : Len(run_queue[k]) \in Nat
      /\ Len(join_waiting_queue) \in Nat
  BY <1>1, <1>2
<1>4. current_queue_number \in 1 .. 3 /\ priority \in [Tid -> Nat \ {0}]
  BY DEF SchedulerFacts, QueueTypeOK
<1>5. thread_number \in Nat /\ cpu \in Tid /\ ptr \in Tid
  BY MlfqAssumption DEF SchedulerFacts, ThreadTypeOK
<1> QED  BY <1>1, <1>2, <1>3, <1>4, <1>5 DEF RunQueueType

(* A thread that calls is the first of the current queue.                     *)
LEMMA CallerFirst ==
  ASSUME SchedulerFacts, NEW t \in Tid, Executing(t), thread_number > 0
  PROVE  /\ phase = "thread" /\ cpu = t /\ get_current_thread = t
         /\ run_queue[current_queue_number] # << >>
BY DEF SchedulerFacts, CurrentIsExecuting, Executing

(* A thread is put into a queue, by a caller or by the scheduler.             *)
LEMMA AddKeepsFacts ==
  ASSUME SchedulerFacts, NEW t \in Tid, NEW num \in 1 .. 3, thread_number > 0,
         run_queue' = add_to_run_queue(num, t), priority' \in [Tid -> Nat \ {0}],
         current_queue_number' = current_queue_number,
         UNCHANGED threadVars,
         phase' = phase \/ (phase = "handle" /\ phase' = "dispatch"),
         ptr' = ptr, JoinTypeOK', wait_ptr' \in 1 .. Len(join_waiting_queue') + 1,
         pc' \in [Tid -> PC], pc'[Main] = "create_add" => thread_number > 1
  PROVE  SchedulerFacts'
<1>1. /\ RunQueueType' /\ run_queue'[3] = << >>
      /\ \A k \in 1 .. 3 : run_queue[k] # << >> =>
           run_queue'[k] # << >> /\ Head(run_queue'[k]) = Head(run_queue[k])
  BY Facts, AddMember DEF SchedulerFacts
<1>2. QueueTypeOK'
  BY <1>1, Facts DEF QueueTypeOK, RunQueueType
<1>3. ThreadTypeOK'
  BY DEF SchedulerFacts, ThreadTypeOK, threadVars
<1>4. CurrentIsExecuting'
  <2> SUFFICES ASSUME phase' = "thread"
               PROVE  /\ run_queue'[current_queue_number'] # << >>
                      /\ get_current_thread' = cpu'
    BY DEF CurrentIsExecuting
  <2>1. run_queue[current_queue_number] # << >> /\ get_current_thread = cpu
    BY DEF SchedulerFacts, CurrentIsExecuting
  <2>2. PICK k \in 1 .. 3 : k = current_queue_number
    BY Facts
  <2>3. run_queue'[k] # << >> /\ Head(run_queue'[k]) = Head(run_queue[k])
    BY <1>1, <2>1, <2>2
  <2> QED  BY <2>1, <2>2, <2>3 DEF get_current_thread, threadVars
<1>5. /\ thread_number' = thread_number /\ cpu' = cpu
  BY DEF threadVars
<1>6. /\ phase' \in {"thread", "handle", "dispatch", "stalled", "undefined"}
      /\ phase' \in {"handle", "dispatch"} => ptr' = cpu' /\ thread_number' > 0
  BY <1>5 DEF SchedulerFacts
<1>7. ptr' \in Tid /\ wait_ptr' \in 1 .. Len(join_waiting_queue') + 1
  BY DEF SchedulerFacts
<1>8. thread_number' # 0 /\ (pc'[Main] = "create_add" => thread_number' > 1)
  BY <1>5
<1> QED  BY <1>1, <1>2, <1>3, <1>4, <1>6, <1>7, <1>8 DEF SchedulerFacts

(* The current thread is taken off, in any library call or by the signal.     *)
LEMMA DescheduleKeepsFacts ==
  ASSUME SchedulerFacts, NEW t \in Tid, Executing(t), thread_number > 0, Deschedule,
         pc' \in [Tid -> PC], pc'[Main] = "create_add" => pc[Main] = "create_add"
  PROVE  SchedulerFacts'
<1>1. /\ run_queue[current_queue_number] # << >> /\ get_current_thread = t /\ cpu = t
  BY CallerFirst
<1>2. PICK k \in 1 .. 3 : k = current_queue_number
  BY Facts
<1>3. /\ run_queue' = [run_queue EXCEPT ![k] = Tail(@)] /\ priority' = age(run_queue')
      /\ ptr' = cpu /\ phase' = "handle" /\ wait_ptr' = 1
      /\ current_queue_number' = current_queue_number
      /\ UNCHANGED threadVars /\ UNCHANGED joinVars
  BY <1>1, <1>2 DEF Deschedule
<1>4. run_queue[k] \in Seq(Tid) /\ run_queue[k] # << >> /\ Tail(run_queue[k]) \in Seq(Tid)
  BY <1>1, <1>2, Facts
<1>5. run_queue' \in [1 .. 3 -> Seq(Tid)]
  BY <1>3, <1>4, Facts DEF RunQueueType
<1>6. run_queue'[3] = << >>
  BY <1>1, <1>2, <1>3, Facts DEF SchedulerFacts, RunQueueType
<1>7. priority' \in [Tid -> Nat \ {0}]
  <2>1. priority \in [Tid -> Nat \ {0}]
    BY Facts
  <2> QED  BY <1>3, <1>5, <2>1, AgeType DEF RunQueueType
<1>8. QueueTypeOK' /\ ThreadTypeOK'
  BY <1>3, <1>5, <1>7, Facts DEF QueueTypeOK, SchedulerFacts, ThreadTypeOK, threadVars
<1>9. JoinTypeOK' /\ wait_ptr' \in 1 .. Len(join_waiting_queue') + 1
  <2>1. JoinTypeOK /\ join_waiting_queue' = join_waiting_queue
    BY <1>3 DEF SchedulerFacts, joinVars
  <2>2. JoinTypeOK'
    BY <1>3, <2>1 DEF JoinTypeOK, joinVars
  <2> QED  BY <1>3, <2>1, <2>2, Facts
<1>10. /\ thread_number' = thread_number /\ thread_number' > 0 /\ cpu' = cpu
       /\ pc'[Main] = "create_add" => thread_number' > 1
  BY <1>3 DEF threadVars, SchedulerFacts
<1>11. CurrentIsExecuting'
  BY <1>3 DEF CurrentIsExecuting
<1>12. ptr' \in Tid /\ ptr' = cpu'
  BY <1>3, <1>10, Facts
<1> QED  BY <1>3, <1>6, <1>8, <1>9, <1>10, <1>11, <1>12 DEF SchedulerFacts

(* A call that changes neither queues nor phase.                              *)
LEMMA CallKeepsFacts ==
  ASSUME SchedulerFacts, UNCHANGED <<run_queue, current_queue_number, phase, ptr, wait_ptr, cpu>>,
         priority' \in [Tid -> Nat \ {0}], ThreadTypeOK', JoinTypeOK',
         Len(join_waiting_queue') \in Nat, Len(join_waiting_queue') >= Len(join_waiting_queue),
         \/ thread_number' = thread_number
         \/ thread_number > 0 /\ thread_number' > 1,
         pc'[Main] = "create_add" => thread_number' > 1
  PROVE  SchedulerFacts'
<1>1. wait_ptr \in 1 .. Len(join_waiting_queue') + 1
  BY Facts DEF SchedulerFacts
<1>2. QueueTypeOK'
  BY Facts DEF QueueTypeOK, SchedulerFacts
<1>3. CurrentIsExecuting'
  BY Facts DEF SchedulerFacts, CurrentIsExecuting, get_current_thread
<1>4. /\ phase \in {"thread", "handle", "dispatch", "stalled", "undefined"} /\ ptr \in Tid
      /\ run_queue[3] = << >>
      /\ phase \in {"handle", "dispatch"} => ptr = cpu /\ thread_number > 0
      /\ thread_number = 0 => run_queue[1] = << >> /\ run_queue[2] = << >>
  BY DEF SchedulerFacts
<1>5. /\ thread_number > 0 => thread_number' > 0
      /\ thread_number' = 0 => thread_number = 0
  BY Facts, MlfqAssumption DEF ThreadTypeOK
<1> QED  BY <1>1, <1>2, <1>3, <1>4, <1>5, Facts DEF SchedulerFacts

LEMMA MutexInitFacts ==
  ASSUME MutexInit PROVE SchedulerFacts /\ CallsAfterCreate /\ SetupIsMains
<1>1. Init /\ \A t \in Tid : mpc[t] = "none"
  BY DEF MutexInit
<1>2. TypeOK /\ CurrentIsExecuting /\ run_queue[3] = << >>
  BY <1>1, InitInv DEF IInv
<1> QED  BY <1>1, <1>2, MainIsThread
         DEF SchedulerFacts, CallsAfterCreate, SetupIsMains, Setup, TypeOK, SchedTypeOK, Init

LEMMA CreateKeepsFacts == ASSUME SchedulerFacts, Create PROVE SchedulerFacts'
<1>1. ASSUME CreateFirst PROVE SchedulerFacts'
  <2>1. /\ thread_number = 0 /\ run_queue[1] = << >> /\ run_queue[2] = << >>
        /\ run_queue[3] = << >> /\ Main \in Tid
    BY <1>1, MainIsThread DEF CreateFirst, SchedulerFacts
  <2>2. run_queue' = [run_queue EXCEPT ![1] = <<Main>>]
    <3>1. run_queue' = [run_queue EXCEPT ![1] = Append(run_queue[1], Main)]
      BY <1>1 DEF CreateFirst, add_to_run_queue
    <3> QED  BY <2>1, <3>1
  <2>3. /\ run_queue' \in [1 .. 3 -> Seq(Tid)] /\ run_queue'[1] = <<Main>>
        /\ run_queue'[3] = << >>
    BY <2>1, <2>2, Facts DEF RunQueueType
  <2>4. QueueTypeOK'
    <3>1. current_queue_number' = 1 /\ priority' = [priority EXCEPT ![Main] = PriorityT1]
      BY <1>1 DEF CreateFirst
    <3>2. priority' \in [Tid -> Nat \ {0}]
      BY <3>1, Facts, PrioritiesPositive
    <3> QED  BY <2>3, <3>1, <3>2 DEF QueueTypeOK
  <2>5. ThreadTypeOK'
    BY <1>1, <2>1, MlfqAssumption
       DEF ThreadTypeOK, CreateFirst, SchedulerFacts, PC, Timeout, Exit, Block
  <2>6. JoinTypeOK' /\ wait_ptr' \in 1 .. Len(join_waiting_queue') + 1
    BY <1>1 DEF JoinTypeOK, CreateFirst, SchedulerFacts, joinVars, schedVars
  <2>7. phase' = "thread" /\ ptr' \in Tid /\ thread_number' = 1 /\ cpu' = Main
        /\ current_queue_number' = 1 /\ pc'[Main] # "create_add"
    BY <1>1, <2>1 DEF CreateFirst, SchedulerFacts, schedVars, Executing, ThreadTypeOK
  <2>8. CurrentIsExecuting'
    BY <2>3, <2>7 DEF CurrentIsExecuting, get_current_thread
  <2> QED  BY <2>3, <2>4, <2>5, <2>6, <2>7, <2>8 DEF SchedulerFacts
<1>2. ASSUME CreateThread PROVE SchedulerFacts'
  <2>1. /\ thread_number \in 1 .. MaxThreads - 1 /\ thread_number' = thread_number + 1
        /\ priority' = [priority EXCEPT ![thread_number] = PriorityT1]
        /\ yield_purpose' = [yield_purpose EXCEPT ![thread_number] = Timeout]
        /\ pc' = [pc EXCEPT ![Main] = "create_add"]
        /\ current_thread' = current_thread
    BY <1>2 DEF CreateThread
  <2>2. /\ UNCHANGED <<run_queue, current_queue_number, phase, ptr, wait_ptr, cpu>>
        /\ UNCHANGED joinVars
    BY <1>2 DEF CreateThread, schedVars
  <2>3. priority' \in [Tid -> Nat \ {0}]
    BY <2>1, Facts, PrioritiesPositive
  <2>4. thread_number > 0 /\ thread_number' > 1 /\ thread_number' \in 0 .. MaxThreads
    BY <2>1, MlfqAssumption
  <2>5. ThreadTypeOK'
    BY <2>1, <2>2, <2>4 DEF ThreadTypeOK, SchedulerFacts, PC, Timeout, Exit, Block
  <2>6. JoinTypeOK' /\ join_waiting_queue' = join_waiting_queue
    BY <2>2 DEF JoinTypeOK, SchedulerFacts, joinVars
  <2>7. Len(join_waiting_queue') \in Nat /\ Len(join_waiting_queue') >= Len(join_waiting_queue)
    BY <2>6, Facts
  <2> QED  BY <2>2, <2>3, <2>4, <2>5, <2>6, <2>7, CallKeepsFacts
<1>3. ASSUME CreateAdd PROVE SchedulerFacts'
  <2>1. PICK n : n = thread_number - 1
    OBVIOUS
  <2>2. /\ run_queue' = add_to_run_queue(1, n) /\ pc[Main] = "create_add"
        /\ pc' = [pc EXCEPT ![Main] = "user"]
        /\ priority' = priority /\ current_queue_number' = current_queue_number
        /\ UNCHANGED threadVars /\ UNCHANGED joinVars /\ UNCHANGED schedVars
    BY <1>3, <2>1 DEF CreateAdd
  <2>3. n \in Tid /\ thread_number > 0
    BY <2>1, <2>2, MlfqAssumption DEF SchedulerFacts, ThreadTypeOK, Tid
  <2>4. JoinTypeOK' /\ wait_ptr' \in 1 .. Len(join_waiting_queue') + 1
        /\ phase' = phase /\ ptr' = ptr
    BY <2>2 DEF JoinTypeOK, SchedulerFacts, joinVars, schedVars
  <2>5. pc' \in [Tid -> PC] /\ pc'[Main] # "create_add"
    BY <2>2, MainIsThread DEF SchedulerFacts, ThreadTypeOK, PC
  <2>6. priority' \in [Tid -> Nat \ {0}] /\ 1 \in 1 .. 3
    BY <2>2, Facts
  <2> QED  BY <2>2, <2>3, <2>4, <2>5, <2>6, AddKeepsFacts
<1> QED  BY <1>1, <1>2, <1>3 DEF Create

LEMMA ThreadStepKeepsFacts ==
  ASSUME SchedulerFacts, NEW t \in Tid, ThreadStep(t) PROVE SchedulerFacts'
<1>1. ASSUME NEW u \in Tid, JoinExited(t, u) PROVE SchedulerFacts'
  <2>1. /\ UNCHANGED <<queueVars, threadVars, schedVars, pc, join_waiting_queue>>
        /\ exit_thread_list' = exit_thread_list
        /\ join_target' = [join_target EXCEPT ![t] = u]
        /\ join_ret' = [join_ret EXCEPT ![t] = 1]
        /\ \E s \in {NoSlot, Unset} : slot' = [slot EXCEPT ![t] = s]
    BY <1>1 DEF JoinExited
  <2>2. JoinTypeOK'
    BY <2>1 DEF JoinTypeOK, SchedulerFacts
  <2>3. ThreadTypeOK'
    BY <2>1 DEF ThreadTypeOK, SchedulerFacts, threadVars
  <2>4. /\ UNCHANGED <<run_queue, current_queue_number, phase, ptr, wait_ptr, cpu>>
        /\ priority' = priority /\ join_waiting_queue' = join_waiting_queue
        /\ thread_number' = thread_number /\ pc' = pc
    BY <2>1 DEF queueVars, threadVars, schedVars
  <2>5. pc'[Main] = "create_add" => thread_number' > 1
    BY <2>4 DEF SchedulerFacts
  <2> QED  BY <2>2, <2>3, <2>4, <2>5, Facts, CallKeepsFacts
<1>2. ASSUME NEW u \in Tid, JoinWait(t, u) PROVE SchedulerFacts'
  <2>1. /\ Executing(t) /\ u < thread_number /\ thread_number > 0 /\ u \in Nat
    BY <1>2, MainIsThread, Facts DEF JoinWait
  <2>2. get_current_thread = t
    BY <2>1, CallerFirst
  <2>3. /\ UNCHANGED <<queueVars, schedVars, exit_thread_list, thread_number,
                       current_thread, cpu>>
        /\ join_waiting_queue' = Append(join_waiting_queue, [tcb |-> t, tid |-> u])
        /\ yield_purpose' = [yield_purpose EXCEPT ![t] = Block]
        /\ pc' = [pc EXCEPT ![t] = "join_yield"]
        /\ join_target' = [join_target EXCEPT ![t] = u]
        /\ join_ret' = [join_ret EXCEPT ![t] = -1]
        /\ \E s \in {NoSlot, Unset} : slot' = [slot EXCEPT ![t] = s]
    BY <1>2, <2>2 DEF JoinWait
  <2>4. /\ join_waiting_queue' \in Seq(Waiter)
        /\ Len(join_waiting_queue') = Len(join_waiting_queue) + 1
    BY <2>3, Facts, AddJoin
  <2>5. JoinTypeOK'
    BY <2>3, <2>4 DEF JoinTypeOK, SchedulerFacts
  <2>6. ThreadTypeOK'
    BY <2>3 DEF ThreadTypeOK, SchedulerFacts, PC, Timeout, Exit, Block
  <2>7. /\ UNCHANGED <<run_queue, current_queue_number, phase, ptr, wait_ptr, cpu>>
        /\ priority' = priority /\ thread_number' = thread_number
    BY <2>3 DEF queueVars, schedVars
  <2>8. pc'[Main] = "create_add" => thread_number' > 1
    BY <2>3, <2>7, MainIsThread DEF SchedulerFacts, ThreadTypeOK
  <2>9. Len(join_waiting_queue') \in Nat /\ Len(join_waiting_queue') >= Len(join_waiting_queue)
    BY <2>4, Facts
  <2> QED  BY <2>5, <2>6, <2>7, <2>8, <2>9, Facts, CallKeepsFacts
<1>3. ASSUME JoinReturn(t) PROVE SchedulerFacts'
  <2>1. /\ UNCHANGED <<queueVars, threadVars, schedVars, join_waiting_queue,
                       exit_thread_list, join_target, slot>>
        /\ join_ret' = [join_ret EXCEPT ![t] = 0] /\ pc' = [pc EXCEPT ![t] = "user"]
    BY <1>3 DEF JoinReturn
  <2>2. JoinTypeOK' /\ ThreadTypeOK'
    BY <2>1 DEF JoinTypeOK, ThreadTypeOK, SchedulerFacts, threadVars, PC
  <2>3. /\ UNCHANGED <<run_queue, current_queue_number, phase, ptr, wait_ptr, cpu>>
        /\ priority' = priority /\ join_waiting_queue' = join_waiting_queue
        /\ thread_number' = thread_number
    BY <2>1 DEF queueVars, threadVars, schedVars
  <2>4. pc'[Main] = "create_add" => thread_number' > 1
    BY <2>1, <2>3, MainIsThread DEF SchedulerFacts, ThreadTypeOK
  <2> QED  BY <2>2, <2>3, <2>4, Facts, CallKeepsFacts
<1>4. ASSUME ExitStart(t) PROVE SchedulerFacts'
  <2>1. Executing(t) /\ thread_number > 0
    BY <1>4 DEF ExitStart
  <2>2. get_current_thread = t
    BY <2>1, CallerFirst
  <2>3. /\ UNCHANGED <<queueVars, schedVars, join_waiting_queue, exit_thread_list,
                       join_target, join_ret, thread_number, current_thread, cpu>>
        /\ yield_purpose' = [yield_purpose EXCEPT ![t] = Exit]
        /\ pc' = [pc EXCEPT ![t] = "exit_yield"]
        /\ slot' = [j \in Tid |->
             IF WaitsFor(j, t) /\ slot[j] # NoSlot THEN t ELSE slot[j]]
    BY <1>4, <2>2 DEF ExitStart
  <2>4. JoinTypeOK' /\ ThreadTypeOK'
    BY <2>3 DEF JoinTypeOK, ThreadTypeOK, SchedulerFacts, PC, Timeout, Exit, Block
  <2>5. /\ UNCHANGED <<run_queue, current_queue_number, phase, ptr, wait_ptr, cpu>>
        /\ priority' = priority /\ join_waiting_queue' = join_waiting_queue
        /\ thread_number' = thread_number
    BY <2>3 DEF queueVars, schedVars
  <2>6. pc'[Main] = "create_add" => thread_number' > 1
    BY <2>3, <2>5, MainIsThread DEF SchedulerFacts, ThreadTypeOK
  <2> QED  BY <2>4, <2>5, <2>6, Facts, CallKeepsFacts
<1>5. ASSUME Yield(t) PROVE SchedulerFacts'
  <2>1. /\ Executing(t) /\ thread_number > 0 /\ Deschedule
        /\ pc[t] \in {"user", "join_yield", "exit_yield"}
        /\ pc' = [pc EXCEPT ![t] = CASE @ = "user" -> "user"
                                     [] @ = "join_yield" -> "join_return"
                                     [] @ = "exit_yield" -> "exited"]
    BY <1>5 DEF Yield
  <2>2. pc \in [Tid -> PC]
    BY DEF SchedulerFacts, ThreadTypeOK
  <2>3. pc' \in [Tid -> PC]
    BY <2>1, <2>2 DEF PC
  <2>4. pc'[Main] = "create_add" => pc[Main] = "create_add"
    BY <2>1, <2>2, MainIsThread
  <2> QED  BY <2>1, <2>3, <2>4, DescheduleKeepsFacts
<1>6. ASSUME Tick(t) PROVE SchedulerFacts'
  <2>1. /\ Executing(t) /\ thread_number > 0 /\ Deschedule /\ pc' = pc
    BY <1>6 DEF Tick
  <2>2. pc' \in [Tid -> PC]
    BY <2>1 DEF SchedulerFacts, ThreadTypeOK
  <2> QED  BY <2>1, <2>2, DescheduleKeepsFacts
<1>7. ASSUME ExitReturn(t) PROVE SchedulerFacts'
  <2>1. /\ UNCHANGED queueVars /\ UNCHANGED threadVars /\ UNCHANGED joinVars
        /\ UNCHANGED schedVars /\ pc' = [pc EXCEPT ![t] = "user"]
    BY <1>7 DEF ExitReturn
  <2>2. JoinTypeOK' /\ ThreadTypeOK'
    BY <2>1 DEF JoinTypeOK, ThreadTypeOK, SchedulerFacts, joinVars, threadVars, PC
  <2>3. /\ UNCHANGED <<run_queue, current_queue_number, phase, ptr, wait_ptr, cpu>>
        /\ priority' = priority /\ join_waiting_queue' = join_waiting_queue
        /\ thread_number' = thread_number
    BY <2>1 DEF queueVars, threadVars, joinVars, schedVars
  <2>4. pc'[Main] = "create_add" => thread_number' > 1
    BY <2>1, <2>3, MainIsThread DEF SchedulerFacts, ThreadTypeOK
  <2> QED  BY <2>2, <2>3, <2>4, Facts, CallKeepsFacts
<1> QED  BY <1>1, <1>2, <1>3, <1>4, <1>5, <1>6, <1>7 DEF ThreadStep

LEMMA SchedStepKeepsFacts == ASSUME SchedulerFacts, SchedStep PROVE SchedulerFacts'
<1>1. ASSUME HandleTimeout PROVE SchedulerFacts'
  <2>1. /\ phase = "handle" /\ phase' = "dispatch" /\ thread_number > 0
        /\ \E p \in {PriorityT2, PriorityT3} : priority' = [priority EXCEPT ![ptr] = p]
        /\ UNCHANGED threadVars /\ UNCHANGED joinVars
        /\ UNCHANGED <<pc, current_queue_number, ptr, wait_ptr>>
    BY <1>1 DEF HandleTimeout, SchedulerFacts
  <2>2. PICK num \in 1 .. 3 : run_queue' = add_to_run_queue(num, ptr)
    BY <1>1 DEF HandleTimeout
  <2>3. priority' \in [Tid -> Nat \ {0}]
    BY <2>1, Facts, PrioritiesPositive
  <2>4. JoinTypeOK' /\ wait_ptr' \in 1 .. Len(join_waiting_queue') + 1
    BY <2>1 DEF JoinTypeOK, SchedulerFacts, joinVars
  <2>5. pc' \in [Tid -> PC] /\ (pc'[Main] = "create_add" => thread_number > 1)
    BY <2>1 DEF SchedulerFacts, ThreadTypeOK
  <2> QED  BY <2>1, <2>2, <2>3, <2>4, <2>5, Facts, AddKeepsFacts
<1>2. ASSUME HandleBlock PROVE SchedulerFacts'
  <2>1. /\ phase' = "dispatch" /\ ptr = cpu /\ thread_number > 0
        /\ yield_purpose' = [yield_purpose EXCEPT ![ptr] = Timeout]
        /\ UNCHANGED queueVars /\ UNCHANGED joinVars
        /\ UNCHANGED <<pc, thread_number, current_thread, cpu, ptr, wait_ptr>>
    BY <1>2 DEF HandleBlock, SchedulerFacts
  <2>2. QueueTypeOK' /\ run_queue'[3] = << >>
    BY <2>1 DEF SchedulerFacts, QueueTypeOK, queueVars
  <2>3. ThreadTypeOK' /\ (pc'[Main] = "create_add" => thread_number' > 1)
    BY <2>1 DEF SchedulerFacts, ThreadTypeOK, Timeout, Exit, Block
  <2>4. JoinTypeOK' /\ wait_ptr' \in 1 .. Len(join_waiting_queue') + 1
    BY <2>1 DEF JoinTypeOK, SchedulerFacts, joinVars
  <2>5. ptr' \in Tid /\ thread_number' > 0 /\ thread_number' \in Nat
    BY <2>1, Facts
  <2> QED  BY <2>1, <2>2, <2>3, <2>4, <2>5 DEF SchedulerFacts, CurrentIsExecuting
<1>3. ASSUME HandleExitWake PROVE SchedulerFacts'
  <2>1. /\ phase = "handle" /\ phase' = phase /\ thread_number > 0
        /\ wait_ptr \in 1 .. Len(join_waiting_queue)
        /\ join_waiting_queue' = UnlinkJoin(wait_ptr) /\ wait_ptr' = 1
        /\ UNCHANGED threadVars
        /\ UNCHANGED <<pc, current_queue_number, exit_thread_list, join_target, join_ret,
                       slot, ptr>>
    BY <1>3, Facts DEF HandleExitWake, Exits, SchedulerFacts
  <2>2. join_waiting_queue[wait_ptr].tcb \in Tid
    <3>1. join_waiting_queue[wait_ptr] \in Waiter
      BY <2>1, Facts
    <3> QED  BY <3>1 DEF Waiter
  <2>3. PICK j \in Tid : j = join_waiting_queue[wait_ptr].tcb
    BY <2>2
  <2>4. /\ priority' = [priority EXCEPT ![j] = PriorityT1]
        /\ run_queue' = add_to_run_queue(1, j) /\ 1 \in 1 .. 3
    BY <1>3, <2>3 DEF HandleExitWake
  <2>5. priority' \in [Tid -> Nat \ {0}]
    BY <2>4, Facts, PrioritiesPositive
  <2>6. join_waiting_queue' \in Seq(Waiter) /\ Len(join_waiting_queue') \in Nat
    BY <2>1, Facts DEF UnlinkJoin
  <2>7. JoinTypeOK' /\ wait_ptr' \in 1 .. Len(join_waiting_queue') + 1
    BY <2>1, <2>6 DEF JoinTypeOK, SchedulerFacts
  <2>8. pc' \in [Tid -> PC] /\ (pc'[Main] = "create_add" => thread_number > 1)
    BY <2>1 DEF SchedulerFacts, ThreadTypeOK
  <2> QED  BY <2>1, <2>3, <2>4, <2>5, <2>7, <2>8, AddKeepsFacts
<1>4. ASSUME HandleExitSkip PROVE SchedulerFacts'
  <2>1. /\ wait_ptr' = wait_ptr + 1 /\ wait_ptr \in 1 .. Len(join_waiting_queue)
        /\ UNCHANGED queueVars /\ UNCHANGED threadVars /\ UNCHANGED joinVars
        /\ UNCHANGED <<pc, phase, ptr>>
    BY <1>4, Facts DEF HandleExitSkip, SchedulerFacts
  <2>2. QueueTypeOK' /\ ThreadTypeOK' /\ JoinTypeOK' /\ CurrentIsExecuting'
    BY <2>1 DEF SchedulerFacts, QueueTypeOK, ThreadTypeOK, JoinTypeOK, queueVars, threadVars,
                joinVars, CurrentIsExecuting, get_current_thread
  <2>3. wait_ptr' \in 1 .. Len(join_waiting_queue') + 1
    BY <2>1, Facts DEF joinVars
  <2> QED  BY <2>1, <2>2, <2>3 DEF SchedulerFacts, queueVars, threadVars
<1>5. ASSUME HandleExitDone PROVE SchedulerFacts'
  <2>1. /\ phase = "handle" /\ phase' = "dispatch" /\ wait_ptr' = 1
        /\ ptr = cpu /\ thread_number > 0
        /\ exit_thread_list' = exit_thread_list \cup {ptr}
        /\ UNCHANGED queueVars /\ UNCHANGED threadVars
        /\ UNCHANGED <<pc, join_waiting_queue, join_target, join_ret, slot, ptr>>
    BY <1>5 DEF HandleExitDone, Exits, SchedulerFacts
  <2>2. QueueTypeOK' /\ ThreadTypeOK' /\ CurrentIsExecuting'
    BY <2>1 DEF SchedulerFacts, QueueTypeOK, ThreadTypeOK, queueVars, threadVars,
                CurrentIsExecuting
  <2>3. JoinTypeOK'
    BY <2>1, Facts DEF SchedulerFacts, JoinTypeOK
  <2>4. wait_ptr' \in 1 .. Len(join_waiting_queue') + 1
    BY <2>1, Facts
  <2> QED  BY <2>1, <2>2, <2>3, <2>4 DEF SchedulerFacts, queueVars, threadVars
<1>6. ASSUME Dispatch PROVE SchedulerFacts'
  <2>1. PICK k : k = get_highest_priority
    OBVIOUS
  <2>2. k \in {1, 2} /\ run_queue[k] # << >>
    BY <1>6, <2>1 DEF get_highest_priority, SchedulerFacts, Dispatch
  <2>3. PICK next \in Tid : next = Head(run_queue[k])
    BY <2>2, Facts
  <2>4. /\ phase' = "thread" /\ current_queue_number' = k /\ ptr = cpu /\ thread_number > 0
        /\ cpu' = IF next = ptr THEN cpu ELSE next
        /\ current_thread' \in {current_thread, next}
        /\ UNCHANGED joinVars
        /\ UNCHANGED <<pc, run_queue, priority, yield_purpose, thread_number, ptr, wait_ptr>>
    BY <1>6, <2>1, <2>2, <2>3 DEF Dispatch, SchedulerFacts
  <2>5. cpu' = next
    BY <2>4
  <2>6. QueueTypeOK' /\ ThreadTypeOK'
    <3>1. run_queue' \in [1 .. 3 -> Seq(Tid)] /\ priority' \in [Tid -> Nat \ {0}]
      BY <2>4, Facts DEF RunQueueType
    <3>2. k \in 1 .. 3
      BY <2>2
    <3>3. ThreadTypeOK'
      BY <2>3, <2>4, <2>5 DEF SchedulerFacts, ThreadTypeOK
    <3> QED  BY <2>4, <3>1, <3>2, <3>3 DEF QueueTypeOK
  <2>7. JoinTypeOK' /\ wait_ptr' \in 1 .. Len(join_waiting_queue') + 1
    BY <2>4 DEF JoinTypeOK, SchedulerFacts, joinVars
  <2>8. CurrentIsExecuting'
    BY <2>2, <2>3, <2>4, <2>5 DEF CurrentIsExecuting, get_current_thread
  <2> QED  BY <2>4, <2>6, <2>7, <2>8 DEF SchedulerFacts
<1>7. ASSUME Stall PROVE SchedulerFacts'
  BY <1>7 DEF Stall, SchedulerFacts, QueueTypeOK, ThreadTypeOK, JoinTypeOK, queueVars,
              threadVars, joinVars, CurrentIsExecuting
<1> QED  BY <1>1, <1>2, <1>3, <1>4, <1>5, <1>6, <1>7 DEF SchedStep

LEMMA SameKeepsFacts == ASSUME SchedulerFacts, UNCHANGED mlfqVars PROVE SchedulerFacts'
BY DEF SchedulerFacts, QueueTypeOK, ThreadTypeOK, JoinTypeOK, mlfqVars, queueVars, threadVars,
       joinVars, schedVars, CurrentIsExecuting, get_current_thread

(* The mutex calls that touch threads or queues.                              *)
LEMMA MutexStepKeepsFacts ==
  ASSUME XInv, NEW t \in Tid, MutexStep(t) PROVE SchedulerFacts'
<1>1. SchedulerFacts /\ (mpc[t] \notin Setup \cup {"none"} => thread_number > 0)
  BY DEF XInv, CallsAfterCreate
<1>2. ASSUME LockMark(t) PROVE SchedulerFacts'
  <2>1. get_current_thread = t
    BY <1>1, <1>2, CallerFirst DEF LockMark, At, Setup
  <2>2. /\ yield_purpose' = [yield_purpose EXCEPT ![t] = Block]
        /\ UNCHANGED queueVars /\ UNCHANGED joinVars /\ UNCHANGED schedVars
        /\ UNCHANGED <<pc, thread_number, current_thread, cpu>>
    BY <1>2, <2>1 DEF LockMark
  <2>3. ThreadTypeOK' /\ JoinTypeOK'
    BY <1>1, <2>2 DEF SchedulerFacts, ThreadTypeOK, JoinTypeOK, joinVars, Timeout, Exit, Block
  <2>4. /\ UNCHANGED <<run_queue, current_queue_number, phase, ptr, wait_ptr, cpu>>
        /\ priority' = priority /\ join_waiting_queue' = join_waiting_queue
        /\ (pc'[Main] = "create_add" => thread_number' > 1)
    BY <1>1, <2>2 DEF queueVars, joinVars, schedVars, SchedulerFacts
  <2> QED  BY <1>1, <2>2, <2>3, <2>4, Facts, CallKeepsFacts
<1>3. ASSUME LockYield(t) PROVE SchedulerFacts'
  <2>1. Executing(t) /\ thread_number > 0 /\ Deschedule /\ pc' = pc
    BY <1>1, <1>3 DEF LockYield, At, Setup
  <2>2. pc' \in [Tid -> PC]
    BY <1>1, <2>1 DEF SchedulerFacts, ThreadTypeOK
  <2> QED  BY <1>1, <2>1, <2>2, DescheduleKeepsFacts
<1>4. ASSUME WalkWake(t) PROVE SchedulerFacts'
  <2>1. PICK w : w = node[mptr[t]].thread
    OBVIOUS
  <2>2. /\ priority' = [priority EXCEPT ![w] = PriorityT1]
        /\ run_queue' = add_to_run_queue(1, w) /\ 1 \in 1 .. 3
        /\ UNCHANGED <<current_queue_number, threadVars, joinVars, schedVars, pc>>
        /\ thread_number > 0 /\ mptr[t] \in allocated
    BY <1>1, <1>4, <2>1 DEF WalkWake, At, Setup
  <2>3. w \in Tid
    <3>1. mptr[t] \in NodeId
      BY <2>2 DEF XInv, MutexTypeOK
    <3>2. node[mptr[t]] \in [thread : Tid, mutex_lock : 0 .. MaxMid, next : NodeId \cup {Null}]
      BY <3>1 DEF XInv, MutexTypeOK
    <3> QED  BY <2>1, <3>2
  <2>4. priority' \in [Tid -> Nat \ {0}]
    BY <1>1, <2>2, Facts, PrioritiesPositive
  <2>5. /\ JoinTypeOK' /\ wait_ptr' \in 1 .. Len(join_waiting_queue') + 1
        /\ pc' \in [Tid -> PC] /\ (pc'[Main] = "create_add" => thread_number > 1)
        /\ phase' = phase /\ ptr' = ptr
    BY <1>1, <2>2 DEF JoinTypeOK, SchedulerFacts, ThreadTypeOK, joinVars, schedVars
  <2> QED  BY <1>1, <2>2, <2>3, <2>4, <2>5, AddKeepsFacts
<1>5. ASSUME Dangling(t) PROVE SchedulerFacts'
  BY <1>1, <1>5 DEF Dangling, SchedulerFacts, QueueTypeOK, ThreadTypeOK, JoinTypeOK, queueVars,
                    threadVars, joinVars, CurrentIsExecuting
<1>6. ASSUME \/ \E m \in Mutexes : LockCheck(t, m)
             \/ LockTas(t) \/ LockOwn(t) \/ LockLast(t) \/ LockAdd(t) \/ LockReturn(t)
             \/ UnlockCheck(t) \/ UnlockRelease(t) \/ UnlockTid(t) \/ UnlockList(t)
             \/ WalkSkip(t) \/ WalkUnlink(t) \/ WalkFree(t) \/ WalkDone(t)
      PROVE  SchedulerFacts'
  <2>1. UNCHANGED mlfqVars
    BY <1>6 DEF LockCheck, LockTas, LockOwn, LockLast, LockAdd, LockReturn, UnlockCheck,
                UnlockRelease, UnlockTid, UnlockList, WalkSkip, WalkUnlink, WalkFree, WalkDone
  <2> QED  BY <1>1, <2>1, SameKeepsFacts
<1> QED  BY <1>2, <1>3, <1>4, <1>5, <1>6 DEF MutexStep

---------------------------------------------------------------------------
(* The types of the mutex variables, in four parts. *)

FieldTypes ==
  /\ initialized \in [Mutexes -> BOOLEAN]
  /\ mutex_tid \in [Mutexes -> Tid \cup {-1}]
  /\ mid \in [Mutexes -> 0 .. MaxMid] /\ mutex_id \in 0 .. MaxMid

ListTypes ==
  /\ mutex_waiting_queue \in NodeId \cup {Null}
  /\ node \in [NodeId -> [thread : Tid, mutex_lock : 0 .. MaxMid,
                          next : NodeId \cup {Null}]]
  /\ allocated \subseteq NodeId

LockTypes ==
  /\ mutex_lock \in [Mutexes -> {0, 1}]
  /\ acquired \in [Mutexes -> SUBSET Tid]
  /\ locks \in 0 .. MaxLocks

NeedsNode == {"lock_last", "lock_add", "wake", "free"}

LocalTypes ==
  /\ mpc \in [Tid -> MutexPC]
  /\ marg \in [Tid -> Mutexes \cup {NoMutex}]
  /\ mptr \in [Tid -> NodeId \cup {Null}]
  /\ mpre \in [Tid -> NodeId \cup {Null}]
  /\ \A t \in Tid : mpc[t] = "none" <=> marg[t] = NoMutex
  /\ \A t \in Tid : mpc[t] \in NeedsNode => mptr[t] # Null

LEMMA TypeParts == MutexTypeOK <=> FieldTypes /\ ListTypes /\ LockTypes /\ LocalTypes
BY DEF MutexTypeOK, FieldTypes, ListTypes, LockTypes, LocalTypes, NeedsNode

LEMMA TypePartsKept ==
  ASSUME FieldTypes', ListTypes', LockTypes', LocalTypes' PROVE MutexTypeOK'
BY DEF MutexTypeOK, FieldTypes, ListTypes, LockTypes, LocalTypes, NeedsNode

(* A thread goes on to the next label of its call.                            *)
LEMMA Moves ==
  ASSUME LocalTypes, NEW t \in Tid, NEW label \in MutexPC, Goto(t, label),
         NEW m \in Mutexes \cup {NoMutex}, marg' = [marg EXCEPT ![t] = m],
         label = "none" <=> m = NoMutex,
         NEW p \in NodeId \cup {Null}, mptr' = [mptr EXCEPT ![t] = p],
         label \in NeedsNode => p # Null,
         NEW q \in NodeId \cup {Null}, mpre' = [mpre EXCEPT ![t] = q]
  PROVE  LocalTypes'
<1>1. /\ mpc' \in [Tid -> MutexPC] /\ mpc'[t] = label
      /\ marg' \in [Tid -> Mutexes \cup {NoMutex}] /\ marg'[t] = m
      /\ mptr' \in [Tid -> NodeId \cup {Null}] /\ mptr'[t] = p
      /\ mpre' \in [Tid -> NodeId \cup {Null}]
      /\ \A s \in Tid : s # t => mpc'[s] = mpc[s] /\ marg'[s] = marg[s] /\ mptr'[s] = mptr[s]
  BY DEF LocalTypes, Goto
<1>2. \A s \in Tid : mpc'[s] = "none" <=> marg'[s] = NoMutex
  BY <1>1 DEF LocalTypes
<1>3. \A s \in Tid : mpc'[s] \in NeedsNode => mptr'[s] # Null
  BY <1>1 DEF LocalTypes
<1> QED  BY <1>1, <1>2, <1>3 DEF LocalTypes

LEMMA SameLocals ==
  ASSUME LocalTypes, NEW t \in Tid
  PROVE  /\ marg[t] \in Mutexes \cup {NoMutex} /\ marg = [marg EXCEPT ![t] = marg[t]]
         /\ mptr[t] \in NodeId \cup {Null} /\ mptr = [mptr EXCEPT ![t] = mptr[t]]
         /\ mpre[t] \in NodeId \cup {Null} /\ mpre = [mpre EXCEPT ![t] = mpre[t]]
         /\ mpc[t] # "none" => marg[t] \in Mutexes
BY DEF LocalTypes

LEMMA NodeFacts ==
  ASSUME ListTypes
  PROVE  /\ \A n \in allocated : n \in NodeId /\ n # Null
         /\ \A n \in NodeId : /\ node[n].next \in NodeId \cup {Null}
                              /\ node[n].thread \in Tid
         /\ Null \notin NodeId
<1>1. Null \notin NodeId
  BY MutexAssumption DEF NodeId, Null
<1>2. \A n \in NodeId : node[n] \in [thread : Tid, mutex_lock : 0 .. MaxMid,
                                     next : NodeId \cup {Null}]
  BY DEF ListTypes
<1> QED  BY <1>1, <1>2 DEF ListTypes

(* A pointer of a node is changed.                                            *)
LEMMA Relinked ==
  ASSUME ListTypes, NEW n \in NodeId, NEW p \in NodeId \cup {Null},
         node' = [node EXCEPT ![n].next = p],
         mutex_waiting_queue' = mutex_waiting_queue, allocated' = allocated
  PROVE  ListTypes'
<1>1. node[n] \in [thread : Tid, mutex_lock : 0 .. MaxMid, next : NodeId \cup {Null}]
  BY DEF ListTypes
<1>2. [node[n] EXCEPT !.next = p]
        \in [thread : Tid, mutex_lock : 0 .. MaxMid, next : NodeId \cup {Null}]
  BY <1>1
<1>3. node' = [node EXCEPT ![n] = [node[n] EXCEPT !.next = p]]
  OBVIOUS
<1> QED  BY <1>2, <1>3 DEF ListTypes

LEMMA InitTypes == ASSUME MutexInit PROVE MutexTypeOK
<1>1. NodeId \subseteq Nat /\ MaxMid \in Nat /\ MaxLocks \in Nat /\ Main \in Tid
  BY MutexAssumption, MainIsThread DEF NodeId
<1>2. FieldTypes /\ LockTypes
  BY <1>1, MainIsThread DEF MutexInit, FieldTypes, LockTypes, Main
<1>3. ListTypes
  BY <1>1 DEF MutexInit, ListTypes
<1>4. LocalTypes
  BY DEF MutexInit, LocalTypes, MutexPC, NeedsNode
<1> QED  BY <1>2, <1>3, <1>4, TypeParts

(* The first statement of init, destroy and lock, after which the caller is   *)
(* in a call for m.                                                           *)
LEMMA FirstTypes ==
  ASSUME XInv, NEW m \in Mutexes, NEW t \in Tid,
         LockCheck(t, m) \/ (t = Main /\ (InitFlag(m) \/ DestroyTas(m)))
  PROVE  MutexTypeOK'
<1>1. FieldTypes /\ ListTypes /\ LockTypes /\ LocalTypes
  BY TypeParts DEF XInv
<1>2. FieldTypes' /\ ListTypes'
  BY <1>1 DEF LockCheck, InitFlag, DestroyTas, FieldTypes, ListTypes, fieldVars, listVars
<1>3. LockTypes'
  <2>1. CASE LockCheck(t, m)
    <3>1. locks \in 0 .. MaxLocks /\ locks < MaxLocks /\ locks' = locks + 1
      BY <1>1, <2>1 DEF LockTypes, LockCheck
    <3>2. locks' \in 0 .. MaxLocks
      BY <3>1, MutexAssumption
    <3> QED  BY <1>1, <2>1, <3>2 DEF LockTypes, LockCheck
  <2>2. CASE InitFlag(m) \/ DestroyTas(m)
    BY <1>1, <2>2 DEF InitFlag, DestroyTas, LockTypes, lockVars
  <2> QED  BY <2>1, <2>2
<1>4. PICK label \in {"lock_tas", "init_word", "destroy_flag"} : Goto(t, label)
  BY DEF LockCheck, InitFlag, DestroyTas
<1>5. label \in MutexPC /\ label # "none" /\ label \notin NeedsNode
  BY DEF MutexPC, NeedsNode
<1>6. marg' = [marg EXCEPT ![t] = m] /\ mptr' = mptr /\ mpre' = mpre /\ m # NoMutex
  BY MutexAssumption DEF LockCheck, InitFlag, DestroyTas
<1>7. LocalTypes'
  BY <1>1, <1>4, <1>5, <1>6, SameLocals, Moves
<1> QED  BY <1>2, <1>3, <1>7, TypePartsKept

(* The others of init and destroy.                                            *)
LEMMA SetupTypes == ASSUME XInv, InitWord \/ InitMid \/ DestroyFlag PROVE MutexTypeOK'
<1>1. /\ FieldTypes /\ ListTypes /\ LockTypes /\ LocalTypes /\ Main \in Tid
      /\ marg[Main] \in Mutexes /\ marg[Main] # NoMutex
  <2>1. mpc[Main] # "none"
    BY DEF InitWord, InitMid, DestroyFlag, At
  <2> QED  BY <2>1, TypeParts, SameLocals, MainIsThread, MutexAssumption DEF XInv
<1>2. ListTypes' /\ LockTypes'
  BY <1>1 DEF InitWord, InitMid, DestroyFlag, ListTypes, LockTypes, listVars, lockVars
<1>3. FieldTypes'
  <2>1. CASE InitMid
    <3>1. PICK m \in Mutexes : m = marg[Main]
      BY <1>1
    <3>2. /\ mutex_id \in 0 .. MaxMid /\ mutex_id < MaxMid /\ mutex_id' = mutex_id + 1
          /\ mid' = [mid EXCEPT ![m] = mutex_id] /\ UNCHANGED <<initialized, mutex_tid>>
      BY <1>1, <2>1, <3>1 DEF InitMid, At, FieldTypes, XInv, SetupIsMains
    <3>3. mutex_id' \in 0 .. MaxMid
      BY <3>2, MutexAssumption
    <3> QED  BY <1>1, <3>2, <3>3 DEF FieldTypes
  <2>2. CASE InitWord \/ DestroyFlag
    BY <1>1, <2>2 DEF InitWord, DestroyFlag, FieldTypes, fieldVars
  <2> QED  BY <2>1, <2>2
<1>4. LocalTypes'
  <2>1. CASE InitWord
    <3>1. /\ Goto(Main, "init_mid") /\ "init_mid" \in MutexPC /\ "init_mid" \notin NeedsNode
          /\ UNCHANGED localVars
      BY <2>1 DEF InitWord, MutexPC, NeedsNode
    <3> QED  BY <1>1, <3>1, SameLocals, Moves DEF localVars
  <2>2. CASE InitMid \/ DestroyFlag
    <3>1. /\ Goto(Main, "none") /\ "none" \in MutexPC /\ "none" \notin NeedsNode
          /\ marg' = [marg EXCEPT ![Main] = NoMutex] /\ UNCHANGED <<mptr, mpre>>
      BY <2>2 DEF InitMid, DestroyFlag, MutexPC, NeedsNode
    <3> QED  BY <1>1, <3>1, SameLocals, Moves
  <2> QED  BY <2>1, <2>2
<1> QED  BY <1>2, <1>3, <1>4, TypePartsKept

LEMMA LockTasTypes == ASSUME XInv, NEW t \in Tid, LockTas(t) PROVE MutexTypeOK'
<1>1. /\ FieldTypes /\ ListTypes /\ LockTypes /\ LocalTypes
      /\ marg[t] \in Mutexes /\ marg[t] # NoMutex
  BY TypeParts, SameLocals, MutexAssumption DEF XInv, LockTas, At
<1>2. FieldTypes' /\ ListTypes'
  BY <1>1 DEF LockTas, FieldTypes, ListTypes, fieldVars, listVars
<1>3. LockTypes'
  <2>1. PICK m \in Mutexes : m = marg[t]
    BY <1>1
  <2>2. /\ locks' = locks /\ mutex_lock' = [mutex_lock EXCEPT ![m] = 1]
        /\ acquired' = [acquired EXCEPT ![m] = @ \cup {t}] \/ acquired' = acquired
    BY <2>1 DEF LockTas
  <2> QED  BY <1>1, <2>2 DEF LockTypes
<1>4. PICK label \in {"lock_own", "lock_mark"} : Goto(t, label)
  BY DEF LockTas
<1>5. label \in MutexPC /\ label # "none" /\ label \notin NeedsNode /\ UNCHANGED localVars
  BY DEF MutexPC, NeedsNode, LockTas
<1>6. LocalTypes'
  BY <1>1, <1>4, <1>5, SameLocals, Moves DEF localVars
<1> QED  BY <1>2, <1>3, <1>6, TypePartsKept

LEMMA LockMarkTypes == ASSUME XInv, NEW t \in Tid, LockMark(t) PROVE MutexTypeOK'
<1>1. FieldTypes /\ ListTypes /\ LockTypes /\ LocalTypes
  BY TypeParts DEF XInv
<1>2. FieldTypes' /\ LockTypes'
  BY <1>1 DEF LockMark, FieldTypes, LockTypes, fieldVars, lockVars
<1>3. marg[t] \in Mutexes /\ thread_number > 0 /\ Executing(t)
  BY <1>1, SameLocals DEF LockMark, At, XInv, CallsAfterCreate, Setup
<1>4. get_current_thread = t
  BY <1>3, CallerFirst DEF XInv
<1>5. PICK n \in NodeId :
        /\ node' = [node EXCEPT ![n] = [thread |-> t, mutex_lock |-> mid[marg[t]],
                                        next |-> Null]]
        /\ allocated' = allocated \cup {n} /\ mptr' = [mptr EXCEPT ![t] = n]
  BY <1>4 DEF LockMark
<1>6. [thread |-> t, mutex_lock |-> mid[marg[t]], next |-> Null]
        \in [thread : Tid, mutex_lock : 0 .. MaxMid, next : NodeId \cup {Null}]
  BY <1>1, <1>3 DEF FieldTypes
<1>7. ListTypes'
  BY <1>1, <1>5, <1>6 DEF ListTypes, LockMark
<1>8. /\ Goto(t, "lock_last") /\ "lock_last" \in MutexPC /\ n # Null
      /\ marg' = marg /\ mpre' = mpre
  BY <1>1, NodeFacts DEF LockMark, MutexPC
<1>9. /\ marg' = [marg EXCEPT ![t] = marg[t]] /\ mpre' = [mpre EXCEPT ![t] = mpre[t]]
      /\ "lock_last" # "none" /\ marg[t] # NoMutex /\ mpre[t] \in NodeId \cup {Null}
  BY <1>1, <1>3, <1>8, SameLocals, MutexAssumption
<1>10. LocalTypes'
  <2>1. /\ LocalTypes /\ n \in NodeId \cup {Null} /\ marg[t] \in Mutexes \cup {NoMutex}
        /\ mptr' = [mptr EXCEPT ![t] = n]
    BY <1>1, <1>3, <1>5
  <2> QED  BY <2>1, <1>8, <1>9, Moves
<1> QED  BY <1>2, <1>7, <1>10, TypePartsKept

LEMMA LockTypesKept ==
  ASSUME XInv, NEW t \in Tid,
         LockOwn(t) \/ LockLast(t) \/ LockAdd(t) \/ LockYield(t) \/ LockReturn(t)
  PROVE  MutexTypeOK'
<1>1. /\ FieldTypes /\ ListTypes /\ LockTypes /\ LocalTypes
      /\ mpc[t] # "none" => marg[t] \in Mutexes /\ marg[t] # NoMutex
  BY TypeParts, SameLocals, MutexAssumption DEF XInv
<1>2. ASSUME LockOwn(t) PROVE MutexTypeOK'
  <2>1. get_current_thread = t /\ marg[t] \in Mutexes
    BY <1>1, <1>2, CallerFirst DEF LockOwn, At, XInv, CallsAfterCreate, Setup
  <2>2. FieldTypes' /\ ListTypes' /\ LockTypes'
    BY <1>1, <1>2, <2>1 DEF LockOwn, FieldTypes, ListTypes, LockTypes, listVars, lockVars
  <2>3. /\ Goto(t, "held") /\ "held" \in MutexPC /\ "held" \notin NeedsNode
        /\ UNCHANGED localVars
    BY <1>2 DEF LockOwn, MutexPC, NeedsNode
  <2>4. LocalTypes'
    BY <1>1, <2>1, <2>3, SameLocals, Moves, MutexAssumption DEF localVars
  <2> QED  BY <2>2, <2>4, TypePartsKept
<1>3. ASSUME LockLast(t) PROVE MutexTypeOK'
  <2>1. FieldTypes' /\ ListTypes' /\ LockTypes'
    BY <1>1, <1>3 DEF LockLast, FieldTypes, ListTypes, LockTypes, fieldVars, listVars, lockVars
  <2>2. /\ Goto(t, "lock_add") /\ "lock_add" \in MutexPC /\ mpc[t] = "lock_last"
        /\ marg' = marg /\ mptr' = mptr /\ marg[t] \in Mutexes /\ Listed \subseteq NodeId
    BY <1>1, <1>3 DEF LockLast, At, MutexPC, ListTypes
  <2>3. PICK q \in NodeId \cup {Null} : mpre' = [mpre EXCEPT ![t] = q]
    BY <1>1, <1>3, <2>2, SameLocals DEF LockLast
  <2>4. /\ mptr[t] # Null /\ mptr[t] \in NodeId \cup {Null}
        /\ mptr' = [mptr EXCEPT ![t] = mptr[t]] /\ marg' = [marg EXCEPT ![t] = marg[t]]
        /\ "lock_add" # "none" /\ marg[t] # NoMutex
    BY <1>1, <2>2, MutexAssumption DEF LocalTypes, NeedsNode
  <2>5. LocalTypes'
    BY <1>1, <2>2, <2>3, <2>4, Moves
  <2> QED  BY <2>1, <2>5, TypePartsKept
<1>4. ASSUME LockAdd(t) PROVE MutexTypeOK'
  <2>1. FieldTypes' /\ LockTypes'
    BY <1>1, <1>4 DEF LockAdd, FieldTypes, LockTypes, fieldVars, lockVars
  <2>2. mptr[t] \in NodeId \cup {Null}
    BY <1>1, SameLocals
  <2>3. ListTypes'
    <3>1. CASE mpre[t] = Null
      <4>1. mutex_waiting_queue' = mptr[t] /\ node' = node /\ allocated' = allocated
        BY <1>1, <1>4, <3>1, NodeFacts DEF LockAdd
      <4> QED  BY <1>1, <2>2, <4>1 DEF ListTypes
    <3>2. CASE mpre[t] # Null
      <4>1. /\ mpre[t] \in allocated /\ allocated' = allocated
            /\ node' = [node EXCEPT ![mpre[t]].next = mptr[t]]
            /\ mutex_waiting_queue' = mutex_waiting_queue
        BY <1>4, <3>2 DEF LockAdd
      <4> QED  BY <1>1, <2>2, <4>1, NodeFacts, Relinked
    <3> QED  BY <3>1, <3>2
  <2>4. /\ Goto(t, "lock_wait") /\ "lock_wait" \in MutexPC /\ "lock_wait" \notin NeedsNode
        /\ marg' = marg /\ mptr' = [mptr EXCEPT ![t] = Null]
        /\ mpre' = [mpre EXCEPT ![t] = Null] /\ marg[t] \in Mutexes
    BY <1>1, <1>4 DEF LockAdd, At, MutexPC, NeedsNode
  <2>5. LocalTypes'
    BY <1>1, <2>4, SameLocals, Moves, MutexAssumption
  <2> QED  BY <2>1, <2>3, <2>5, TypePartsKept
<1>5. ASSUME LockYield(t) \/ LockReturn(t) PROVE MutexTypeOK'
  <2>1. FieldTypes' /\ ListTypes' /\ LockTypes'
    BY <1>1, <1>5 DEF LockYield, LockReturn, FieldTypes, ListTypes, LockTypes, fieldVars,
                      listVars, lockVars
  <2>2. PICK label \in {"lock_return", "held"} : Goto(t, label)
    BY <1>5 DEF LockYield, LockReturn
  <2>3. /\ label \in MutexPC /\ label # "none" /\ label \notin NeedsNode
        /\ UNCHANGED localVars /\ marg[t] \in Mutexes
    BY <1>1, <1>5 DEF LockYield, LockReturn, At, MutexPC, NeedsNode
  <2>4. LocalTypes'
    BY <1>1, <2>2, <2>3, SameLocals, Moves, MutexAssumption DEF localVars
  <2> QED  BY <2>1, <2>4, TypePartsKept
<1> QED  BY <1>2, <1>3, <1>4, <1>5

LEMMA UnlockTypesKept ==
  ASSUME XInv, NEW t \in Tid,
         UnlockCheck(t) \/ UnlockRelease(t) \/ UnlockTid(t) \/ UnlockList(t)
  PROVE  MutexTypeOK'
<1>1. /\ FieldTypes /\ ListTypes /\ LockTypes /\ LocalTypes
      /\ mpc[t] # "none" => marg[t] \in Mutexes /\ marg[t] # NoMutex
  BY TypeParts, SameLocals, MutexAssumption DEF XInv
<1>2. ASSUME UnlockCheck(t) PROVE MutexTypeOK'
  <2>1. FieldTypes' /\ ListTypes' /\ LockTypes'
    BY <1>1, <1>2 DEF UnlockCheck, FieldTypes, ListTypes, LockTypes, fieldVars, listVars,
                      lockVars
  <2>2. mptr' = mptr /\ mpre' = mpre /\ marg[t] \in Mutexes
    BY <1>1, <1>2 DEF UnlockCheck, At
  <2>3. CASE Goto(t, "unlock_release") /\ UNCHANGED marg
    <3>1. "unlock_release" \in MutexPC /\ "unlock_release" \notin NeedsNode
      BY DEF MutexPC, NeedsNode
    <3>2. LocalTypes'
      BY <1>1, <2>2, <2>3, <3>1, SameLocals, Moves, MutexAssumption
    <3> QED  BY <2>1, <3>2, TypePartsKept
  <2>4. CASE Goto(t, "none") /\ marg' = [marg EXCEPT ![t] = NoMutex]
    <3>1. "none" \in MutexPC /\ "none" \notin NeedsNode
      BY DEF MutexPC, NeedsNode
    <3>2. LocalTypes'
      BY <1>1, <2>2, <2>4, <3>1, SameLocals, Moves
    <3> QED  BY <2>1, <3>2, TypePartsKept
  <2> QED  BY <1>2, <2>3, <2>4 DEF UnlockCheck
<1>3. ASSUME UnlockRelease(t) PROVE MutexTypeOK'
  <2>1. FieldTypes' /\ ListTypes'
    BY <1>1, <1>3 DEF UnlockRelease, FieldTypes, ListTypes, fieldVars, listVars
  <2>2. LockTypes'
    BY <1>1, <1>3 DEF UnlockRelease, LockTypes
  <2>3. /\ Goto(t, "unlock_tid") /\ "unlock_tid" \in MutexPC /\ "unlock_tid" \notin NeedsNode
        /\ UNCHANGED localVars /\ marg[t] \in Mutexes
    BY <1>1, <1>3 DEF UnlockRelease, At, MutexPC, NeedsNode
  <2>4. LocalTypes'
    BY <1>1, <2>3, SameLocals, Moves, MutexAssumption DEF localVars
  <2> QED  BY <2>1, <2>2, <2>4, TypePartsKept
<1>4. ASSUME UnlockTid(t) PROVE MutexTypeOK'
  <2>1. FieldTypes' /\ ListTypes' /\ LockTypes'
    BY <1>1, <1>4 DEF UnlockTid, FieldTypes, ListTypes, LockTypes, listVars, lockVars
  <2>2. /\ Goto(t, "unlock_list") /\ "unlock_list" \in MutexPC
        /\ "unlock_list" \notin NeedsNode /\ UNCHANGED localVars /\ marg[t] \in Mutexes
    BY <1>1, <1>4 DEF UnlockTid, At, MutexPC, NeedsNode
  <2>3. LocalTypes'
    BY <1>1, <2>2, SameLocals, Moves, MutexAssumption DEF localVars
  <2> QED  BY <2>1, <2>3, TypePartsKept
<1>5. ASSUME UnlockList(t) PROVE MutexTypeOK'
  <2>1. FieldTypes' /\ ListTypes' /\ LockTypes'
    BY <1>1, <1>5 DEF UnlockList, FieldTypes, ListTypes, LockTypes, fieldVars, listVars,
                      lockVars
  <2>2. /\ Goto(t, "walk") /\ "walk" \in MutexPC /\ "walk" \notin NeedsNode
        /\ mptr' = [mptr EXCEPT ![t] = mutex_waiting_queue]
        /\ mpre' = [mpre EXCEPT ![t] = Null] /\ marg' = marg /\ marg[t] \in Mutexes
        /\ mutex_waiting_queue \in NodeId \cup {Null}
    BY <1>1, <1>5 DEF UnlockList, At, MutexPC, NeedsNode, ListTypes
  <2>3. LocalTypes'
    BY <1>1, <2>2, SameLocals, Moves, MutexAssumption
  <2> QED  BY <2>1, <2>3, TypePartsKept
<1> QED  BY <1>2, <1>3, <1>4, <1>5

LEMMA WalkTypesKept ==
  ASSUME XInv, NEW t \in Tid,
         WalkSkip(t) \/ WalkUnlink(t) \/ WalkWake(t) \/ WalkFree(t) \/ WalkDone(t) \/ Dangling(t)
  PROVE  MutexTypeOK'
<1>1. /\ FieldTypes /\ ListTypes /\ LockTypes /\ LocalTypes
      /\ mpc[t] # "none" => marg[t] \in Mutexes /\ marg[t] # NoMutex
  BY TypeParts, SameLocals, MutexAssumption DEF XInv
<1>2. ASSUME WalkSkip(t) PROVE MutexTypeOK'
  <2>1. FieldTypes' /\ ListTypes' /\ LockTypes'
    BY <1>1, <1>2 DEF WalkSkip, FieldTypes, ListTypes, LockTypes, fieldVars, listVars,
                      lockVars
  <2>2. PICK p \in NodeId \cup {Null} : p = node[mptr[t]].next
    BY <1>1, <1>2, NodeFacts DEF WalkSkip
  <2>3. /\ mpc' = mpc /\ mpc[t] = "walk" /\ marg' = marg
        /\ mptr' = [mptr EXCEPT ![t] = p] /\ mpre' = [mpre EXCEPT ![t] = mptr[t]]
        /\ mptr[t] \in NodeId \cup {Null}
    BY <1>1, <1>2, <2>2, SameLocals DEF WalkSkip, At
  <2>4. Goto(t, "walk") /\ "walk" \in MutexPC /\ "walk" \notin NeedsNode
    BY <1>1, <2>3 DEF Goto, LocalTypes, MutexPC, NeedsNode
  <2>5. marg' = [marg EXCEPT ![t] = marg[t]] /\ marg[t] # NoMutex
        /\ marg[t] \in Mutexes \cup {NoMutex} /\ "walk" # "none"
    BY <1>1, <2>3, SameLocals
  <2>6. LocalTypes'
    BY <1>1, <2>3, <2>4, <2>5, Moves
  <2> QED  BY <2>1, <2>6, TypePartsKept
<1>3. ASSUME WalkUnlink(t) PROVE MutexTypeOK'
  <2>1. FieldTypes' /\ LockTypes'
    BY <1>1, <1>3 DEF WalkUnlink, FieldTypes, LockTypes, fieldVars, lockVars
  <2>2. /\ mptr[t] \in allocated /\ allocated' = allocated /\ mpc[t] = "walk"
        /\ Goto(t, "wake") /\ "wake" \in MutexPC /\ "wake" # "none"
        /\ UNCHANGED localVars
    BY <1>3 DEF WalkUnlink, At, MutexPC
  <2>3. PICK p \in NodeId \cup {Null} : p = node[mptr[t]].next
    BY <1>1, <2>2, NodeFacts
  <2>4. ListTypes'
    <3>1. CASE mpre[t] = Null
      <4>1. mutex_waiting_queue' = p /\ node' = node
        BY <1>3, <2>3, <3>1 DEF WalkUnlink
      <4> QED  BY <1>1, <2>2, <4>1 DEF ListTypes
    <3>2. CASE mpre[t] # Null
      <4>1. /\ mpre[t] \in allocated /\ node' = [node EXCEPT ![mpre[t]].next = p]
            /\ mutex_waiting_queue' = mutex_waiting_queue
        BY <1>3, <2>3, <3>2 DEF WalkUnlink
      <4> QED  BY <1>1, <2>2, <4>1, NodeFacts, Relinked
    <3> QED  BY <3>1, <3>2
  <2>5. mptr[t] # Null /\ marg[t] # NoMutex
    BY <1>1, <2>2, NodeFacts
  <2>6. LocalTypes'
    BY <1>1, <2>2, <2>5, SameLocals, Moves DEF localVars
  <2> QED  BY <2>1, <2>4, <2>6, TypePartsKept
<1>4. ASSUME WalkWake(t) PROVE MutexTypeOK'
  <2>1. FieldTypes' /\ ListTypes' /\ LockTypes'
    BY <1>1, <1>4 DEF WalkWake, FieldTypes, ListTypes, LockTypes, fieldVars, listVars,
                      lockVars
  <2>2. /\ mptr[t] \in allocated /\ mpc[t] = "wake"
        /\ Goto(t, "free") /\ "free" \in MutexPC /\ "free" # "none" /\ UNCHANGED localVars
    BY <1>4 DEF WalkWake, At, MutexPC
  <2>3. mptr[t] # Null /\ marg[t] # NoMutex
    BY <1>1, <2>2, NodeFacts
  <2>4. LocalTypes'
    BY <1>1, <2>2, <2>3, SameLocals, Moves DEF localVars
  <2> QED  BY <2>1, <2>4, TypePartsKept
<1>5. ASSUME WalkFree(t) PROVE MutexTypeOK'
  <2>1. FieldTypes' /\ ListTypes' /\ LockTypes'
    BY <1>1, <1>5 DEF WalkFree, FieldTypes, ListTypes, LockTypes, fieldVars, lockVars
  <2>2. PICK p \in NodeId \cup {Null} : p = node[mptr[t]].next
    BY <1>1, <1>5, NodeFacts DEF WalkFree
  <2>3. /\ Goto(t, "walk") /\ "walk" \in MutexPC /\ "walk" \notin NeedsNode
        /\ mptr' = [mptr EXCEPT ![t] = p] /\ marg' = marg /\ mpre' = mpre
        /\ "walk" # "none" /\ mpc[t] = "free"
    BY <1>5, <2>2 DEF WalkFree, At, MutexPC, NeedsNode
  <2>4. LocalTypes'
    BY <1>1, <2>3, SameLocals, Moves
  <2> QED  BY <2>1, <2>4, TypePartsKept
<1>6. ASSUME WalkDone(t) PROVE MutexTypeOK'
  <2>1. FieldTypes' /\ ListTypes' /\ LockTypes'
    BY <1>1, <1>6 DEF WalkDone, FieldTypes, ListTypes, LockTypes, fieldVars, listVars,
                      lockVars
  <2>2. /\ Goto(t, "none") /\ "none" \in MutexPC /\ "none" \notin NeedsNode
        /\ mptr' = mptr /\ marg' = [marg EXCEPT ![t] = NoMutex]
        /\ mpre' = [mpre EXCEPT ![t] = Null]
    BY <1>6 DEF WalkDone, MutexPC, NeedsNode
  <2>3. LocalTypes'
    BY <1>1, <2>2, SameLocals, Moves
  <2> QED  BY <2>1, <2>3, TypePartsKept
<1>7. ASSUME Dangling(t) PROVE MutexTypeOK'
  <2>1. UNCHANGED mutexVars
    BY <1>7 DEF Dangling
  <2>2. FieldTypes' /\ ListTypes' /\ LockTypes'
    BY <1>1, <2>1 DEF mutexVars, FieldTypes, ListTypes, LockTypes, fieldVars, listVars, lockVars
  <2>3. LocalTypes'
    BY <1>1, <2>1 DEF mutexVars, LocalTypes, localVars
  <2> QED  BY <2>2, <2>3, TypePartsKept
<1> QED  BY <1>2, <1>3, <1>4, <1>5, <1>6, <1>7

LEMMA SameMutexTypes == ASSUME MutexTypeOK, UNCHANGED mutexVars PROVE MutexTypeOK'
<1>1. FieldTypes /\ ListTypes /\ LockTypes /\ LocalTypes
  BY TypeParts
<1>2. FieldTypes' /\ ListTypes' /\ LockTypes'
  BY <1>1 DEF mutexVars, FieldTypes, ListTypes, LockTypes, fieldVars, listVars, lockVars
<1>3. LocalTypes'
  BY <1>1 DEF mutexVars, LocalTypes, localVars
<1> QED  BY <1>2, <1>3, TypePartsKept

LEMMA MutexStepKeepsTypes == ASSUME XInv, NEW t \in Tid, MutexStep(t) PROVE MutexTypeOK'
BY FirstTypes, LockTasTypes, LockMarkTypes, LockTypesKept, UnlockTypesKept, WalkTypesKept DEF MutexStep

LEMMA CreateFirstKeepsTypes == ASSUME XInv, MutexCreateFirst PROVE MutexTypeOK'
<1>1. FieldTypes /\ ListTypes /\ LockTypes /\ LocalTypes
  BY TypeParts DEF XInv
<1>2. FieldTypes' /\ ListTypes' /\ LockTypes'
  BY <1>1, MutexAssumption
     DEF MutexCreateFirst, FieldTypes, ListTypes, LockTypes, listVars, lockVars
<1>3. LocalTypes'
  BY <1>1 DEF MutexCreateFirst, LocalTypes, localVars
<1> QED  BY <1>2, <1>3, TypePartsKept

---------------------------------------------------------------------------
(* The invariant of the types. *)

(* A mutex is first locked by a thread that mypthread_create knows, and       *)
(* thread_number does not fall.                                               *)
LEMMA StepKeepsCalls ==
  ASSUME XInv, [MutexNext]_allVars PROVE CallsAfterCreate' /\ SetupIsMains'
<1>1. /\ CallsAfterCreate /\ SetupIsMains /\ mpc \in [Tid -> MutexPC]
      /\ thread_number \in Nat /\ Main \in Tid
  BY Facts, MainIsThread DEF XInv, MutexTypeOK
<1>2. ASSUME NEW t \in Tid, MutexStep(t) PROVE CallsAfterCreate' /\ SetupIsMains'
  <2>1. thread_number' = thread_number /\ thread_number > 0 /\ mutex_id' = mutex_id
    BY <1>1, <1>2
       DEF MutexStep, CallsAfterCreate, Setup, At, mlfqVars, threadVars, LockCheck, LockTas,
           LockOwn, LockMark, LockLast, LockAdd, LockYield, LockReturn, UnlockCheck,
           UnlockRelease, UnlockTid, UnlockList, WalkSkip, WalkUnlink, WalkWake, WalkFree,
           WalkDone, Dangling, Deschedule, fieldVars, mutexVars
  <2>2. mpc' = mpc \/ \E label : label \notin Setup /\ mpc' = [mpc EXCEPT ![t] = label]
    BY <1>2
       DEF MutexStep, Setup, Goto, LockCheck, LockTas, LockOwn, LockMark, LockLast, LockAdd,
           LockYield, LockReturn, UnlockCheck, UnlockRelease, UnlockTid, UnlockList, WalkSkip,
           WalkUnlink, WalkWake, WalkFree, WalkDone, Dangling, mutexVars
  <2>3. \A s \in Tid : mpc'[s] \in Setup => mpc'[s] = mpc[s]
    BY <1>1, <2>2
  <2> QED  BY <1>1, <2>1, <2>3 DEF CallsAfterCreate, SetupIsMains, Setup
<1>3. ASSUME mpc' = mpc, thread_number' \in Nat,
             thread_number' = thread_number \/ thread_number' > 0,
             mutex_id' = mutex_id \/ mpc[Main] = "none"
      PROVE  CallsAfterCreate' /\ SetupIsMains'
  BY <1>1, <1>3 DEF CallsAfterCreate, SetupIsMains
<1>4. ASSUME \/ \E m \in Mutexes : InitFlag(m) \/ DestroyTas(m)
             \/ InitWord \/ InitMid \/ DestroyFlag
      PROVE  CallsAfterCreate' /\ SetupIsMains'
  <2>1. PICK label \in Setup \cup {"none"} :
          /\ mpc' = [mpc EXCEPT ![Main] = label]
          /\ label \in {"init_word", "init_mid"} =>
               mutex_id' = mutex_id /\ mutex_id < MaxMid
    BY <1>1, <1>4 DEF InitFlag, DestroyTas, InitWord, InitMid, DestroyFlag, At, Goto, Setup,
                      SetupIsMains, fieldVars
  <2>2. thread_number' = thread_number
    BY <1>4 DEF InitFlag, DestroyTas, InitWord, InitMid, DestroyFlag, mlfqVars, threadVars
  <2>3. mpc'[Main] = label /\ \A s \in Tid : s # Main => mpc'[s] = mpc[s]
    BY <1>1, <2>1
  <2> QED  BY <1>1, <2>1, <2>2, <2>3 DEF CallsAfterCreate, SetupIsMains, Setup
<1>5. ASSUME NEW t \in Tid, MutexTick(t) \/ OtherCall(t)
      PROVE  CallsAfterCreate' /\ SetupIsMains'
  <2>1. mpc' = mpc /\ thread_number' = thread_number /\ mutex_id' = mutex_id
    BY <1>5 DEF MutexTick, OtherCall, mutexVars, fieldVars, Tick, ThreadStep, JoinExited,
                JoinWait, JoinReturn, ExitStart, ExitReturn, Yield, Deschedule, threadVars
  <2> QED  BY <1>1, <1>3, <2>1
<1>6. ASSUME OtherCreate \/ MutexCreateFirst PROVE CallsAfterCreate' /\ SetupIsMains'
  <2>1. /\ mpc' = mpc /\ mpc[Main] = "none"
        /\ \/ thread_number' = thread_number \/ thread_number' = 1
           \/ thread_number' = thread_number + 1
    BY <1>6 DEF OtherCreate, MutexCreateFirst, mutexVars, CreateFirst, CreateThread, CreateAdd,
                threadVars
  <2> QED  BY <1>1, <1>3, <2>1
<1>7. ASSUME SchedulerStep \/ UNCHANGED allVars PROVE CallsAfterCreate' /\ SetupIsMains'
  <2>1. mpc' = mpc /\ thread_number' = thread_number /\ mutex_id' = mutex_id
    BY <1>7 DEF SchedulerStep, SchedStep, mutexVars, fieldVars, allVars, vars, HandleTimeout,
                HandleBlock, HandleExitWake, HandleExitSkip, HandleExitDone, Dispatch, Stall,
                threadVars
  <2> QED  BY <1>1, <1>3, <2>1
<1> QED  BY <1>2, <1>4, <1>5, <1>6, <1>7 DEF MutexNext

LEMMA StepKeepsX == ASSUME XInv, [MutexNext]_allVars PROVE XInv'
<1>1. SchedulerFacts /\ MutexTypeOK
  BY DEF XInv
<1>2. MutexTypeOK'
  <2>1. ASSUME NEW t \in Tid, MutexTick(t) \/ OtherCall(t) PROVE UNCHANGED mutexVars
    BY <2>1 DEF MutexTick, OtherCall
  <2>2. OtherCreate \/ SchedulerStep \/ UNCHANGED allVars => UNCHANGED mutexVars
    BY DEF OtherCreate, SchedulerStep, allVars
  <2> QED  BY <1>1, <2>1, <2>2, FirstTypes, SetupTypes, MainIsThread, MutexStepKeepsTypes,
              CreateFirstKeepsTypes, SameMutexTypes DEF MutexNext
<1>3. SchedulerFacts'
  <2>1. ASSUME \/ \E m \in Mutexes : InitFlag(m) \/ DestroyTas(m)
               \/ InitWord \/ InitMid \/ DestroyFlag
        PROVE  UNCHANGED mlfqVars
    BY <2>1 DEF InitFlag, InitWord, InitMid, DestroyTas, DestroyFlag
  <2>2. ASSUME NEW t \in Tid, MutexTick(t) \/ OtherCall(t) PROVE ThreadStep(t)
    BY <2>2 DEF MutexTick, OtherCall, ThreadStep
  <2>3. OtherCreate \/ MutexCreateFirst => Create
    BY DEF OtherCreate, MutexCreateFirst, Create
  <2>4. SchedulerStep => SchedStep
    BY DEF SchedulerStep
  <2>5. UNCHANGED allVars => UNCHANGED mlfqVars
    BY DEF allVars, vars, mlfqVars
  <2> QED  BY <1>1, <2>1, <2>2, <2>3, <2>4, <2>5, SameKeepsFacts, MutexStepKeepsFacts,
              ThreadStepKeepsFacts, CreateKeepsFacts, SchedStepKeepsFacts DEF MutexNext
<1> QED  BY <1>2, <1>3, StepKeepsCalls DEF XInv

(* What the types and get_current_thread() rest on holds whatever the threads *)
(* do with the mutexes of mypthread.c.                                        *)
THEOREM MutexInvariant == MutexSpec => []XInv
<1>1. MutexInit => XInv
  BY InitTypes, MutexInitFacts DEF XInv
<1>2. XInv /\ [MutexNext]_allVars => XInv'
  BY StepKeepsX
<1> QED  BY <1>1, <1>2, PTL DEF MutexSpec

(* The variables have their types in any program with mutexes; a pointer that *)
(* lock or unlock is about to follow is never the null pointer.               *)
THEOREM MutexTypesCorrect == MutexSpec => []MutexTypeOK
<1>1. XInv => MutexTypeOK
  BY DEF XInv
<1> QED  BY <1>1, MutexInvariant, PTL

(* get_current_thread() names the executing thread in lock and unlock, too:   *)
(* lock records it as the owner and as the waiter, unlock compares it.        *)
THEOREM MutexCurrentCorrect == MutexSpec => []CurrentIsExecuting
<1>1. XInv => CurrentIsExecuting
  BY DEF XInv, SchedulerFacts
<1> QED  BY <1>1, MutexInvariant, PTL

---------------------------------------------------------------------------
(* The lock word while main is in init or destroy. *)

(* While the flag of m is not set, or main has set it and has yet to clear    *)
(* the word, no thread has won; a thread on its way to the test-and-set, which *)
(* saw the flag before destroy cleared it, finds the word that destroy set.   *)
Closed(m) == ~initialized[m] \/ (marg[Main] = m /\ mpc[Main] = "init_word")

WordKept(m) ==
  /\ Closed(m) =>
       /\ acquired[m] = {}
       /\ \A t \in Tid : marg[t] = m /\ mpc[t] = "lock_tas" => mutex_lock[m] = 1
  /\ marg[Main] = m /\ mpc[Main] = "destroy_flag" => acquired[m] = {} /\ mutex_lock[m] = 1
  /\ marg[Main] = m /\ mpc[Main] = "init_word" => initialized[m]

LEMMA OthersStay ==
  ASSUME LocalTypes, NEW t \in Tid, NEW label, Goto(t, label)
  PROVE  mpc'[t] = label /\ \A s \in Tid : s # t => mpc'[s] = mpc[s]
BY DEF LocalTypes, Goto

(* The word, the flag and the winners of m stay; no thread comes to its       *)
(* test-and-set, and main neither enters nor leaves the calls that prepare m. *)
LEMMA WordQuiet ==
  ASSUME NEW m, WordKept(m), acquired'[m] = acquired[m], mutex_lock'[m] = mutex_lock[m],
         initialized'[m] = initialized[m],
         \A t \in Tid : marg'[t] = m /\ mpc'[t] = "lock_tas" => marg[t] = m /\ mpc[t] = "lock_tas",
         \A l \in {"init_word", "destroy_flag"} :
           marg'[Main] = m /\ mpc'[Main] = l => marg[Main] = m /\ mpc[Main] = l
  PROVE  WordKept(m)'
BY DEF WordKept, Closed

(* main's statements in init and destroy, for m and for another mutex.        *)
LEMMA SetupKeepsWord ==
  ASSUME XInv, NEW m \in Mutexes, WordKept(m), \A t \in acquired[m] : mutex_lock[m] = 1,
         \/ \E n \in Mutexes : InitFlag(n) \/ DestroyTas(n)
         \/ InitWord \/ InitMid \/ DestroyFlag
  PROVE  WordKept(m)'
<1>1. /\ LocalTypes /\ Main \in Tid /\ NoMutex # m
      /\ initialized \in [Mutexes -> BOOLEAN] /\ mutex_lock \in [Mutexes -> {0, 1}]
      /\ mpc[Main] # "none" => marg[Main] \in Mutexes
  BY TypeParts, MainIsThread, SameLocals, MutexAssumption DEF XInv, LockTypes, FieldTypes
<1>2. ASSUME NEW n \in Mutexes, InitFlag(n) PROVE WordKept(m)'
  <2>1. /\ Goto(Main, "init_word") /\ marg' = [marg EXCEPT ![Main] = n]
        /\ ~initialized[n] /\ initialized' = [initialized EXCEPT ![n] = TRUE]
        /\ UNCHANGED <<acquired, mutex_lock>>
    BY <1>2 DEF InitFlag, lockVars
  <2>2. mpc'[Main] = "init_word" /\ \A s \in Tid : s # Main => mpc'[s] = mpc[s]
    BY <1>1, <2>1, OthersStay
  <2>3. marg'[Main] = n /\ \A s \in Tid : s # Main => marg'[s] = marg[s]
    BY <1>1, <2>1 DEF LocalTypes
  <2>4. initialized'[n] /\ (n # m => initialized'[m] = initialized[m])
    BY <1>1, <2>1
  <2> QED  BY <1>1, <2>1, <2>2, <2>3, <2>4 DEF WordKept, Closed
<1>3. ASSUME NEW n \in Mutexes, DestroyTas(n) PROVE WordKept(m)'
  <2>1. /\ Goto(Main, "destroy_flag") /\ marg' = [marg EXCEPT ![Main] = n]
        /\ initialized[n] /\ mutex_lock[n] = 0 /\ mpc[Main] = "none"
        /\ mutex_lock' = [mutex_lock EXCEPT ![n] = 1]
        /\ UNCHANGED <<acquired, initialized>>
    BY <1>3 DEF DestroyTas, At, fieldVars
  <2>2. mpc'[Main] = "destroy_flag" /\ \A s \in Tid : s # Main => mpc'[s] = mpc[s]
    BY <1>1, <2>1, OthersStay
  <2>3. marg'[Main] = n /\ \A s \in Tid : s # Main => marg'[s] = marg[s]
    BY <1>1, <2>1 DEF LocalTypes
  <2>4. mutex_lock'[n] = 1 /\ (n # m => mutex_lock'[m] = mutex_lock[m])
    BY <1>1, <2>1
  <2> QED  BY <1>1, <2>1, <2>2, <2>3, <2>4 DEF WordKept, Closed
<1>4. ASSUME InitWord PROVE WordKept(m)'
  <2>1. PICK n \in Mutexes : n = marg[Main] /\ mpc[Main] = "init_word"
    BY <1>1, <1>4 DEF InitWord, At
  <2>2. /\ mpc'[Main] = "init_mid" /\ marg' = marg
        /\ \A s \in Tid : s # Main => mpc'[s] = mpc[s]
        /\ UNCHANGED <<acquired, initialized>>
        /\ n # m => mutex_lock'[m] = mutex_lock[m]
    BY <1>1, <1>4, <2>1, OthersStay DEF InitWord, fieldVars, localVars
  <2> QED  BY <1>1, <2>1, <2>2 DEF WordKept, Closed
<1>5. ASSUME InitMid \/ DestroyFlag PROVE WordKept(m)'
  <2>1. PICK n \in Mutexes : n = marg[Main]
    BY <1>1, <1>5 DEF InitMid, DestroyFlag, At
  <2>2. /\ mpc[Main] \in {"init_mid", "destroy_flag"}
        /\ mpc'[Main] = "none" /\ marg'[Main] = NoMutex
        /\ \A s \in Tid : s # Main => mpc'[s] = mpc[s] /\ marg'[s] = marg[s]
        /\ UNCHANGED <<acquired, mutex_lock>>
        /\ n # m \/ mpc[Main] = "init_mid" => initialized'[m] = initialized[m]
    BY <1>1, <1>5, <2>1, OthersStay DEF LocalTypes, InitMid, DestroyFlag, At, lockVars
  <2> QED  BY <1>1, <2>1, <2>2 DEF WordKept, Closed
<1> QED  BY <1>2, <1>3, <1>4, <1>5

(* A step in lock and unlock.                                                 *)
LEMMA CallKeepsWord ==
  ASSUME XInv, EarlyUse = {}, NEW m \in Mutexes, WordKept(m),
         \A t \in acquired[m] : mutex_lock[m] = 1,
         \A t \in Tid : marg[t] = m /\ mpc[t] = "unlock_release" => t \in acquired[m],
         NEW t \in Tid, MutexStep(t)
  PROVE  WordKept(m)'
<1>1. /\ LocalTypes /\ Main \in Tid /\ NoMutex # m
      /\ acquired \in [Mutexes -> SUBSET Tid] /\ mutex_lock \in [Mutexes -> {0, 1}]
      /\ mpc[t] # "none" => marg[t] \in Mutexes
  BY TypeParts, MainIsThread, SameLocals, MutexAssumption DEF XInv, LockTypes
<1>2. ASSUME NEW n \in Mutexes, LockCheck(t, n) PROVE WordKept(m)'
  <2>1. /\ mpc'[t] = "lock_tas" /\ marg'[t] = n /\ initialized[n] /\ ~InInit(n)
        /\ \A s \in Tid : s # t => mpc'[s] = mpc[s] /\ marg'[s] = marg[s]
        /\ UNCHANGED <<acquired, mutex_lock, initialized>>
    BY <1>1, <1>2, OthersStay DEF LocalTypes, LockCheck, fieldVars
  <2>2. n = m => ~Closed(m) /\ ~Closed(m)'
    BY <1>1, <2>1 DEF Closed, InInit
  <2> QED  BY <1>1, <2>1, <2>2 DEF WordKept, Closed
<1>3. ASSUME LockTas(t) PROVE WordKept(m)'
  <2>1. PICK n \in Mutexes : n = marg[t] /\ mpc[t] = "lock_tas"
    BY <1>1, <1>3 DEF LockTas, At
  <2>2. /\ mpc'[t] \in {"lock_own", "lock_mark"} /\ marg' = marg
        /\ \A s \in Tid : s # t => mpc'[s] = mpc[s]
        /\ initialized' = initialized /\ mutex_lock'[n] = 1
        /\ n # m => mutex_lock'[m] = mutex_lock[m] /\ acquired'[m] = acquired[m]
        /\ mutex_lock[n] = 1 => acquired'[n] = acquired[n]
    BY <1>1, <1>3, <2>1, OthersStay DEF LockTas, fieldVars, localVars
  <2> QED  BY <1>1, <2>1, <2>2 DEF WordKept, Closed
<1>4. ASSUME UnlockRelease(t) PROVE WordKept(m)'
  <2>1. PICK n \in Mutexes : n = marg[t] /\ mpc[t] = "unlock_release"
    BY <1>1, <1>4 DEF UnlockRelease, At
  <2>2. /\ mpc'[t] = "unlock_tid" /\ marg' = marg
        /\ \A s \in Tid : s # t => mpc'[s] = mpc[s]
        /\ initialized' = initialized
        /\ n # m => mutex_lock'[m] = mutex_lock[m] /\ acquired'[m] = acquired[m]
    BY <1>1, <1>4, <2>1, OthersStay DEF UnlockRelease, fieldVars, localVars
  <2>3. n = m => acquired[m] # {}
    BY <2>1
  <2> QED  BY <1>1, <2>1, <2>2, <2>3 DEF WordKept, Closed
<1>5. ASSUME \/ LockOwn(t) \/ LockMark(t) \/ LockLast(t) \/ LockAdd(t) \/ LockYield(t)
             \/ LockReturn(t) \/ UnlockCheck(t) \/ UnlockTid(t) \/ UnlockList(t)
             \/ WalkUnlink(t) \/ WalkWake(t) \/ WalkFree(t) \/ WalkDone(t)
      PROVE  WordKept(m)'
  <2>1. PICK label \in MutexPC \ (Setup \cup {"lock_tas"}) : Goto(t, label)
    BY <1>5 DEF LockOwn, LockMark, LockLast, LockAdd, LockYield, LockReturn, UnlockCheck,
                UnlockTid, UnlockList, WalkUnlink, WalkWake, WalkFree, WalkDone, MutexPC, Setup
  <2>2. /\ UNCHANGED <<acquired, mutex_lock, initialized>>
        /\ \/ marg' = [marg EXCEPT ![t] = NoMutex]
           \/ marg' = marg
    BY <1>5 DEF LockOwn, LockMark, LockLast, LockAdd, LockYield, LockReturn, UnlockCheck,
                UnlockTid, UnlockList, WalkUnlink, WalkWake, WalkFree, WalkDone, lockVars,
                fieldVars, localVars
  <2>3. /\ mpc'[t] = label
        /\ \A s \in Tid : s # t => mpc'[s] = mpc[s] /\ marg'[s] = marg[s]
    BY <1>1, <2>1, <2>2, OthersStay DEF LocalTypes
  <2>4. label \notin {"lock_tas", "init_word", "destroy_flag"}
    BY DEF Setup
  <2> QED  BY <1>1, <2>2, <2>3, <2>4, WordQuiet
<1>6. ASSUME WalkSkip(t) \/ Dangling(t) PROVE WordKept(m)'
  <2>1. UNCHANGED <<acquired, mutex_lock, initialized, mpc, marg>>
    BY <1>6 DEF WalkSkip, Dangling, mutexVars, fieldVars, lockVars, localVars
  <2> QED  BY <2>1, WordQuiet
<1> QED  BY <1>2, <1>3, <1>4, <1>5, <1>6 DEF MutexStep

LEMMA StepKeepsWord ==
  ASSUME XInv, EarlyUse = {}, NEW m \in Mutexes, WordKept(m),
         \A t \in acquired[m] : mutex_lock[m] = 1,
         \A t \in Tid : marg[t] = m /\ mpc[t] = "unlock_release" => t \in acquired[m],
         [MutexNext]_allVars
  PROVE  WordKept(m)'
<1>1. ASSUME UNCHANGED <<acquired, mutex_lock, initialized, mpc, marg>> PROVE WordKept(m)'
  BY <1>1, WordQuiet
<1>2. ASSUME NEW t \in Tid, MutexTick(t) \/ OtherCall(t) PROVE WordKept(m)'
  BY <1>1, <1>2 DEF MutexTick, OtherCall, mutexVars, fieldVars, lockVars, localVars
<1>3. ASSUME OtherCreate \/ MutexCreateFirst \/ SchedulerStep PROVE WordKept(m)'
  BY <1>1, <1>3 DEF OtherCreate, MutexCreateFirst, SchedulerStep, mutexVars, fieldVars,
                    lockVars, localVars
<1>4. ASSUME UNCHANGED allVars PROVE WordKept(m)'
  BY <1>1, <1>4 DEF allVars, mutexVars, fieldVars, lockVars, localVars
<1> QED  BY <1>2, <1>3, <1>4, SetupKeepsWord, CallKeepsWord DEF MutexNext

---------------------------------------------------------------------------
(* A program with one mutex. *)

(* mutex->mutex_lock is 1 while a thread has won the test-and-set, and no     *)
(* second thread wins it; only the winner gets to the statement that clears   *)
(* it.                                                                        *)
OneWinner(m) ==
  /\ \A t \in acquired[m] : mutex_lock[m] = 1
  /\ \A s, t \in acquired[m] : s = t
  /\ \A t \in Tid : mpc[t] \in {"lock_own", "unlock_release"} => t \in acquired[m]

OnceQueued(t) ==
  \A k, l \in 1 .. 3 :
    \A i \in 1 .. Len(run_queue[k]), j \in 1 .. Len(run_queue[l]) :
      run_queue[k][i] = t /\ run_queue[l][j] = t => k = l /\ i = j

OnceWaiting(t) ==
  \A i, j \in 1 .. Len(join_waiting_queue) :
    join_waiting_queue[i].tcb = t /\ join_waiting_queue[j].tcb = t => i = j

Releases(t) ==
  mpc[t] \in {"unlock_release", "unlock_tid", "unlock_list", "walk", "wake", "free"}

(* As long as no thread has released the mutex none is woken by it: main is   *)
(* in the queues once, and when it waits for the mutex it does not return.    *)
MainOnce ==
  /\ OnceQueued(Main) /\ OnceWaiting(Main)
  /\ phase = "handle" /\ ptr = Main =>
       /\ ~InRunQueue(Main)
       /\ InLock(Main) \/ Waiting(Main) => yield_purpose[Main] = Block
  /\ Waiting(Main) =>
       mpc[Main] = "none" /\ pc[Main] \in {"join_yield", "join_return"} /\ thread_number > 0
  /\ Waiting(Main) /\ InRunQueue(Main) =>
       Executing(Main) /\ yield_purpose[Main] = Block /\ pc[Main] = "join_yield"
  /\ InLock(Main) /\ InRunQueue(Main) => yield_purpose[Main] = Block
  /\ mpc[Main] = "lock_return" => ~InRunQueue(Main)

MainSingle == ~Releases(Main) /\ mpc[Main] # "held" /\ MainOnce

Unwoken == (\A t \in Tid : ~Releases(t)) /\ MainSingle

(* After a stall of the scheduler a thread goes on that was not ready.        *)
Live == phase \notin {"stalled", "undefined"}

(* mutex->tid names the owner, which may be about to clear it, or it is still *)
(* the 0 of a static mutex, main's tid, and no thread has unlocked it yet.    *)
TidTrue(m) ==
  Live => \A t \in Tid : mutex_tid[m] = t =>
    \/ t \in acquired[m] /\ mpc[t] \in {"held", "unlock_release"}
    \/ mpc[t] = "unlock_tid"
    \/ t = Main /\ Unwoken

(* Appending a thread that is nowhere, and taking off the first one.          *)
LEMMA AddOnce ==
  ASSUME RunQueueType, NEW num \in 1 .. 3, NEW t \in Tid, NEW s \in Tid,
         run_queue' = add_to_run_queue(num, t),
         OnceQueued(s), s # t \/ ~InRunQueue(s)
  PROVE  OnceQueued(s)'
<1> DEFINE m == IF num = 1 THEN 1 ELSE 2
<1>1. /\ m \in 1 .. 3
      /\ run_queue' = [run_queue EXCEPT ![m] = Append(run_queue[m], t)]
  BY DEF add_to_run_queue
<1> HIDE DEF m
<1>2. PICK n \in Nat : n = Len(run_queue[m])
  BY <1>1 DEF RunQueueType
<1>3. /\ \A k \in 1 .. 3 : k # m => run_queue'[k] = run_queue[k]
      /\ Len(run_queue'[m]) = n + 1 /\ run_queue'[m][n + 1] = t
      /\ \A i \in 1 .. n : run_queue'[m][i] = run_queue[m][i]
  BY <1>1, <1>2 DEF RunQueueType
<1>4. ASSUME NEW k \in 1 .. 3, NEW i \in 1 .. Len(run_queue'[k]), run_queue'[k][i] = s
      PROVE  \/ i \in 1 .. Len(run_queue[k]) /\ run_queue[k][i] = s
             \/ k = m /\ i = n + 1 /\ s = t
  <2>1. CASE k # m
    BY <1>3, <1>4, <2>1
  <2>2. CASE k = m
    <3>1. i \in 1 .. n \/ i = n + 1
      BY <1>2, <1>3, <2>2
    <3> QED  BY <1>2, <1>3, <1>4, <2>2, <3>1
  <2> QED  BY <2>1, <2>2
<1>5. s = t => \A k \in 1 .. 3 : \A i \in 1 .. Len(run_queue[k]) : run_queue[k][i] # s
  BY DEF InRunQueue, InQueue
<1> QED  BY <1>4, <1>5 DEF OnceQueued

LEMMA RemoveOnce ==
  ASSUME RunQueueType, NEW m \in 1 .. 3, run_queue[m] # << >>, NEW s \in Tid,
         run_queue' = [run_queue EXCEPT ![m] = Tail(@)], OnceQueued(s)
  PROVE  /\ OnceQueued(s)'
         /\ InRunQueue(s)' => InRunQueue(s)
         /\ s = Head(run_queue[m]) => InRunQueue(s) /\ ~InRunQueue(s)'
<1>1. /\ run_queue[m] \in Seq(Tid) /\ run_queue'[m] = Tail(run_queue[m])
      /\ \A k \in 1 .. 3 : k # m => run_queue'[k] = run_queue[k]
      /\ \A k \in 1 .. 3 : run_queue[k] \in Seq(Tid) /\ run_queue'[k] \in Seq(Tid)
  BY DEF RunQueueType
<1>2. /\ 1 \in 1 .. Len(run_queue[m]) /\ Head(run_queue[m]) = run_queue[m][1]
      /\ \A i \in 1 .. Len(run_queue'[m]) :
           i + 1 \in 1 .. Len(run_queue[m]) /\ run_queue'[m][i] = run_queue[m][i + 1]
  <2>1. \A q \in Seq(Tid) : q # << >> =>
          /\ 1 \in 1 .. Len(q) /\ Head(q) = q[1]
          /\ \A i \in 1 .. Len(Tail(q)) : i + 1 \in 1 .. Len(q) /\ Tail(q)[i] = q[i + 1]
    OBVIOUS
  <2>2. PICK q \in Seq(Tid) : q = run_queue[m] /\ q # << >>
    BY <1>1
  <2>3. /\ 1 \in 1 .. Len(q) /\ Head(q) = q[1]
        /\ \A i \in 1 .. Len(Tail(q)) : i + 1 \in 1 .. Len(q) /\ Tail(q)[i] = q[i + 1]
    BY <2>1, <2>2, Zenon
  <2> QED  BY <1>1, <2>2, <2>3
<1> DEFINE Old(k, i) == IF k = m THEN i + 1 ELSE i
<1>3. ASSUME NEW k \in 1 .. 3, NEW i \in 1 .. Len(run_queue'[k])
      PROVE  /\ i \in Nat /\ Old(k, i) \in 1 .. Len(run_queue[k])
             /\ run_queue'[k][i] = run_queue[k][Old(k, i)]
             /\ k = m => Old(k, i) # 1
  <2>1. i \in Nat /\ i >= 1
    BY <1>1
  <2>2. CASE k = m
    BY <1>2, <2>1, <2>2
  <2>3. CASE k # m
    BY <1>1, <2>1, <2>3
  <2> QED  BY <2>2, <2>3
<1>4. ASSUME NEW k \in 1 .. 3, NEW l \in 1 .. 3,
             NEW i \in 1 .. Len(run_queue'[k]), NEW j \in 1 .. Len(run_queue'[l]),
             run_queue'[k][i] = s, run_queue'[l][j] = s
      PROVE  k = l /\ i = j
  <2>1. k = l /\ Old(k, i) = Old(l, j)
    <3> HIDE DEF Old
    <3>1. PICK a \in 1 .. Len(run_queue[k]) : a = Old(k, i) /\ run_queue[k][a] = s
      <4>1. Old(k, i) \in 1 .. Len(run_queue[k]) /\ run_queue'[k][i] = run_queue[k][Old(k, i)]
        BY <1>3
      <4> QED  BY <1>4, <4>1
    <3>2. PICK b \in 1 .. Len(run_queue[l]) : b = Old(l, j) /\ run_queue[l][b] = s
      <4>1. Old(l, j) \in 1 .. Len(run_queue[l]) /\ run_queue'[l][j] = run_queue[l][Old(l, j)]
        BY <1>3
      <4> QED  BY <1>4, <4>1
    <3>3. k = l /\ a = b
      BY <3>1, <3>2 DEF OnceQueued
    <3> QED  BY <3>1, <3>2, <3>3
  <2> QED  BY <1>3, <2>1
<1> HIDE DEF Old
<1>5. InRunQueue(s)' => InRunQueue(s)
  BY <1>3 DEF InRunQueue, InQueue
<1>6. ASSUME s = Head(run_queue[m]) PROVE InRunQueue(s) /\ ~InRunQueue(s)'
  <2>1. \A k \in 1 .. 3 : \A i \in 1 .. Len(run_queue[k]) :
          run_queue[k][i] = s => k = m /\ i = 1
    BY <1>2, <1>6 DEF OnceQueued
  <2>2. InRunQueue(s)
    BY <1>2, <1>6 DEF InRunQueue, InQueue
  <2>3. ASSUME NEW k \in 1 .. 3, NEW i \in 1 .. Len(run_queue'[k]), run_queue'[k][i] = s
        PROVE  FALSE
    <3>1. PICK a \in 1 .. Len(run_queue[k]) :
            run_queue[k][a] = s /\ (k = m => a # 1)
      BY <1>3, <2>3
    <3> QED  BY <2>1, <3>1
  <2> QED  BY <2>2, <2>3 DEF InRunQueue, InQueue
<1>7. OnceQueued(s)'
  <2>1. \A k, l \in 1 .. 3 :
          \A i \in 1 .. Len(run_queue'[k]), j \in 1 .. Len(run_queue'[l]) :
            run_queue'[k][i] = s /\ run_queue'[l][j] = s => k = l /\ i = j
    <3> TAKE k, l \in 1 .. 3
    <3> TAKE i \in 1 .. Len(run_queue'[k]), j \in 1 .. Len(run_queue'[l])
    <3> HAVE run_queue'[k][i] = s /\ run_queue'[l][j] = s
    <3> QED  BY <1>4
  <2> QED  BY <2>1, Zenon DEF OnceQueued
<1> QED  BY <1>5, <1>6, <1>7

LEMMA SameOnce ==
  /\ run_queue' = run_queue =>
       \A t \in Tid : /\ OnceQueued(t)' <=> OnceQueued(t)
                      /\ InRunQueue(t)' <=> InRunQueue(t)
  /\ join_waiting_queue' = join_waiting_queue =>
       \A t \in Tid : /\ OnceWaiting(t)' <=> OnceWaiting(t)
                      /\ Waiting(t)' <=> Waiting(t)
BY DEF OnceQueued, InRunQueue, InQueue, OnceWaiting, Waiting

LEMMA AddOnceWaiting ==
  ASSUME join_waiting_queue \in Seq(Waiter), NEW t \in Tid, NEW u \in Tid, NEW s \in Tid,
         join_waiting_queue' = Append(join_waiting_queue, [tcb |-> t, tid |-> u]),
         OnceWaiting(s), s # t \/ ~Waiting(s)
  PROVE  OnceWaiting(s)'
<1> DEFINE w == [tcb |-> t, tid |-> u]
<1>1. w \in Waiter /\ w.tcb = t
  BY DEF Waiter
<1> HIDE DEF w
<1>2. PICK n \in Nat : n = Len(join_waiting_queue)
  OBVIOUS
<1>3. /\ Len(join_waiting_queue') = n + 1 /\ join_waiting_queue'[n + 1] = w
      /\ \A i \in 1 .. n : join_waiting_queue'[i] = join_waiting_queue[i]
  BY <1>1, <1>2 DEF w
<1>4. ASSUME NEW i \in 1 .. n + 1, join_waiting_queue'[i].tcb = s
      PROVE  \/ i \in 1 .. n /\ join_waiting_queue[i].tcb = s /\ s # t
             \/ i = n + 1 /\ s = t
  <2>1. i \in 1 .. n \/ i = n + 1
    BY <1>2
  <2>2. CASE i \in 1 .. n
    <3>1. join_waiting_queue[i].tcb = s
      BY <1>3, <1>4, <2>2
    <3> QED  BY <1>2, <2>2, <3>1 DEF Waiting
  <2>3. CASE i = n + 1
    BY <1>1, <1>3, <1>4, <2>3
  <2> QED  BY <2>1, <2>2, <2>3
<1> QED  BY <1>2, <1>3, <1>4 DEF OnceWaiting

LEMMA UnlinkOnce ==
  ASSUME join_waiting_queue \in Seq(Waiter), NEW n \in 1 .. Len(join_waiting_queue),
         join_waiting_queue' = UnlinkJoin(n), NEW s \in Tid, OnceWaiting(s)
  PROVE  /\ OnceWaiting(s)'
         /\ Waiting(s)' => Waiting(s) /\ s # join_waiting_queue[n].tcb
<1>1. /\ Len(join_waiting_queue) \in Nat
      /\ Len(join_waiting_queue') = Len(join_waiting_queue) - n
      /\ \A i \in 1 .. Len(join_waiting_queue') :
           join_waiting_queue'[i] = join_waiting_queue[i + n]
  BY DEF UnlinkJoin
<1>2. \A i \in 1 .. Len(join_waiting_queue') :
        i \in Nat /\ i + n \in 1 .. Len(join_waiting_queue) /\ i + n # n
  BY <1>1
<1>3. OnceWaiting(s)'
  <2> SUFFICES ASSUME NEW i \in 1 .. Len(join_waiting_queue'),
                      NEW j \in 1 .. Len(join_waiting_queue'),
                      join_waiting_queue'[i].tcb = s, join_waiting_queue'[j].tcb = s
               PROVE  i = j
    BY DEF OnceWaiting
  <2>1. i + n = j + n
    BY <1>1, <1>2 DEF OnceWaiting
  <2> QED  BY <1>2, <2>1
<1>4. ASSUME Waiting(s)' PROVE Waiting(s) /\ s # join_waiting_queue[n].tcb
  <2>1. PICK i \in 1 .. Len(join_waiting_queue') : join_waiting_queue'[i].tcb = s
    BY <1>4 DEF Waiting
  <2>2. i + n \in 1 .. Len(join_waiting_queue) /\ join_waiting_queue[i + n].tcb = s
    BY <1>1, <1>2, <2>1
  <2> QED  BY <1>2, <2>2 DEF Waiting, OnceWaiting
<1> QED  BY <1>3, <1>4
(* What a step keeps that moves neither main nor a queue.                     *)
LEMMA Untouched ==
  ASSUME MainSingle, UNCHANGED <<run_queue, join_waiting_queue, phase, ptr, thread_number, cpu>>,
         yield_purpose'[Main] = yield_purpose[Main],
         Waiting(Main) => pc'[Main] = pc[Main],
         ~Releases(Main)', mpc'[Main] # "held",
         Waiting(Main) => mpc'[Main] = "none",
         InLock(Main)' => InLock(Main),
         mpc'[Main] = "lock_return" => mpc[Main] = "lock_return"
  PROVE  MainSingle'
<1>1. /\ OnceQueued(Main)' <=> OnceQueued(Main)
      /\ InRunQueue(Main)' <=> InRunQueue(Main)
      /\ OnceWaiting(Main)' <=> OnceWaiting(Main)
      /\ Waiting(Main)' <=> Waiting(Main)
  BY SameOnce, MainIsThread
<1>2. MainOnce'
  BY <1>1 DEF MainSingle, MainOnce, Executing
<1> QED  BY <1>2 DEF MainSingle

LEMMA MovesSingle ==
  ASSUME LocalTypes, MainSingle, UNCHANGED mlfqVars, NEW t \in Tid, NEW label, Goto(t, label),
         t = Main =>
           /\ label \notin {"unlock_release", "unlock_tid", "unlock_list", "walk", "wake", "free"}
           /\ label \notin {"held", "lock_return"} /\ ~Waiting(Main)
           /\ label \in {"lock_last", "lock_add", "lock_wait"} => InLock(Main)
  PROVE  MainSingle'
<1>1. mpc'[t] = label /\ \A s \in Tid : s # t => mpc'[s] = mpc[s]
  BY DEF LocalTypes, Goto
<1>2. ~Releases(Main)'
  BY <1>1, MainIsThread DEF MainSingle, Releases
<1>3. /\ mpc'[Main] # "held" /\ (Waiting(Main) => mpc'[Main] = "none")
      /\ InLock(Main)' => InLock(Main)
      /\ mpc'[Main] = "lock_return" => mpc[Main] = "lock_return"
  BY <1>1, MainIsThread DEF MainSingle, MainOnce, InLock
<1>4. UNCHANGED <<run_queue, join_waiting_queue, phase, ptr, thread_number, cpu,
                  yield_purpose, pc>>
  BY DEF mlfqVars, queueVars, threadVars, joinVars, schedVars
<1> QED  BY <1>2, <1>3, <1>4, Untouched

(* The current thread is taken off the processor.                             *)
LEMMA DescheduleSingle ==
  ASSUME SchedulerFacts, MainSingle, NEW t \in Tid, Executing(t), thread_number > 0, Deschedule,
         ~Releases(Main)', mpc'[Main] # "held",
         Waiting(Main) =>
           mpc'[Main] = "none" /\ pc'[Main] \in {"join_yield", "join_return"},
         InLock(Main)' => InLock(Main),
         mpc'[Main] = "lock_return" => mpc[Main] = "lock_return" \/ t = Main
  PROVE  MainSingle'
<1>1. /\ run_queue[current_queue_number] # << >> /\ get_current_thread = t /\ cpu = t
  BY CallerFirst
<1>2. PICK k \in 1 .. 3 : k = current_queue_number
  BY Facts
<1>3. /\ run_queue' = [run_queue EXCEPT ![k] = Tail(@)] /\ run_queue[k] # << >>
      /\ t = Head(run_queue[k]) /\ ptr' = t /\ phase' = "handle"
      /\ join_waiting_queue' = join_waiting_queue
      /\ yield_purpose' = yield_purpose /\ thread_number' = thread_number
  BY <1>1, <1>2 DEF Deschedule, get_current_thread, threadVars, joinVars
<1>4. /\ OnceQueued(Main)' /\ (InRunQueue(Main)' => InRunQueue(Main))
      /\ Main = t => InRunQueue(Main) /\ ~InRunQueue(Main)'
  <2>1. RunQueueType /\ OnceQueued(Main)
    BY Facts DEF MainSingle, MainOnce
  <2> QED  BY <1>3, <2>1, RemoveOnce, MainIsThread
<1>5. OnceWaiting(Main)' /\ (Waiting(Main)' <=> Waiting(Main))
  BY <1>3, SameOnce, MainIsThread DEF MainSingle, MainOnce
<1>6. t = Main => (InLock(Main)' \/ Waiting(Main)' => yield_purpose'[Main] = Block)
  BY <1>3, <1>4, <1>5 DEF MainSingle, MainOnce
<1>7. ~(Waiting(Main)' /\ InRunQueue(Main)')
  <2>1. Waiting(Main) /\ InRunQueue(Main) => Main = t
    BY <1>1 DEF MainSingle, MainOnce, Executing
  <2> QED  BY <1>4, <1>5, <2>1
<1>8. InLock(Main)' /\ InRunQueue(Main)' => yield_purpose'[Main] = Block
  BY <1>3, <1>4 DEF MainSingle, MainOnce
<1>9. mpc'[Main] = "lock_return" => ~InRunQueue(Main)'
  BY <1>4 DEF MainSingle, MainOnce
<1>10. MainOnce'
  BY <1>3, <1>4, <1>5, <1>6, <1>7, <1>8, <1>9 DEF MainSingle, MainOnce
<1> QED  BY <1>10 DEF MainSingle

(* A thread is queued: it is not main, or main is neither queued nor waiting. *)
LEMMA AddedSingle ==
  ASSUME SchedulerFacts, MainSingle, NEW num \in 1 .. 3, NEW t \in Tid,
         run_queue' = add_to_run_queue(num, t),
         t = Main => ~InRunQueue(Main) /\ ~InLock(Main) /\ ~Waiting(Main)',
         t = Main => ~(phase' = "handle" /\ ptr' = Main),
         mpc'[Main] = mpc[Main], UNCHANGED <<yield_purpose, cpu, thread_number, ptr>>,
         OnceWaiting(Main)', Waiting(Main)' => Waiting(Main),
         Waiting(Main) => pc'[Main] = pc[Main],
         phase' = phase \/ (phase = "handle" /\ phase' = "dispatch")
  PROVE  MainSingle'
<1>1. OnceQueued(Main)' /\ (InRunQueue(Main)' <=> InRunQueue(Main) \/ Main = t)
  BY Facts, AddOnce, AddMember, MainIsThread DEF MainSingle, MainOnce
<1>2. ~Releases(Main)' /\ mpc'[Main] # "held" /\ (InLock(Main)' <=> InLock(Main))
  BY DEF MainSingle, Releases, InLock
<1>3. phase' = "handle" /\ ptr' = Main =>
        /\ ~InRunQueue(Main)'
        /\ InLock(Main)' \/ Waiting(Main)' => yield_purpose'[Main] = Block
  BY <1>1, <1>2 DEF MainSingle, MainOnce
<1>4. Waiting(Main)' => /\ mpc'[Main] = "none" /\ thread_number' > 0
                        /\ pc'[Main] \in {"join_yield", "join_return"}
  BY DEF MainSingle, MainOnce
<1>5. Waiting(Main)' /\ InRunQueue(Main)' =>
        Executing(Main)' /\ yield_purpose'[Main] = Block /\ pc'[Main] = "join_yield"
  <2> SUFFICES ASSUME Waiting(Main)', InRunQueue(Main)'
               PROVE  Executing(Main)' /\ yield_purpose'[Main] = Block
                      /\ pc'[Main] = "join_yield"
    OBVIOUS
  <2>1. Waiting(Main) /\ InRunQueue(Main)
    BY <1>1
  <2>2. /\ Executing(Main) /\ yield_purpose[Main] = Block /\ pc[Main] = "join_yield"
    BY <2>1 DEF MainSingle, MainOnce
  <2> QED  BY <2>1, <2>2 DEF Executing
<1>6. InLock(Main)' /\ InRunQueue(Main)' => yield_purpose'[Main] = Block
  BY <1>1, <1>2 DEF MainSingle, MainOnce
<1>7. mpc'[Main] = "lock_return" => ~InRunQueue(Main)'
  BY <1>1, <1>2 DEF MainSingle, MainOnce, InLock
<1>8. MainOnce'
  BY <1>1, <1>3, <1>4, <1>5, <1>6, <1>7 DEF MainOnce
<1> QED  BY <1>2, <1>8 DEF MainSingle
(* Main runs, and is neither in a call of the mutex nor in one of join.       *)
LEMMA IdleMain ==
  ASSUME MainSingle, phase' = "thread", UNCHANGED mpc, mpc[Main] = "none",
         OnceQueued(Main)', OnceWaiting(Main)', ~Waiting(Main)'
  PROVE  MainSingle'
BY DEF MainSingle, MainOnce, InLock, Releases

LEMMA CallerQueued ==
  ASSUME SchedulerFacts, NEW t \in Tid, Executing(t), thread_number > 0 PROVE InRunQueue(t)
<1>1. PICK k \in 1 .. 3 : k = current_queue_number
  BY Facts
<1>2. run_queue[k] # << >> /\ t = Head(run_queue[k]) /\ run_queue[k] \in Seq(Tid)
  BY <1>1, CallerFirst, Facts DEF get_current_thread
<1>3. 1 \in 1 .. Len(run_queue[k]) /\ run_queue[k][1] = t
  BY <1>2
<1> QED  BY <1>3 DEF InRunQueue, InQueue

LEMMA CreateSingle ==
  ASSUME SchedulerFacts, MainSingle, Create, mpc[Main] = "none", UNCHANGED mpc PROVE MainSingle'
<1>1. /\ Executing(Main) /\ phase = "thread" /\ pc[Main] \in {"user", "create", "create_add"}
      /\ UNCHANGED joinVars /\ UNCHANGED schedVars
  BY DEF Create, CreateFirst, CreateThread, CreateAdd, Executing
<1>2. phase' = "thread" /\ join_waiting_queue' = join_waiting_queue
  BY <1>1 DEF joinVars, schedVars
<1>3. ~Waiting(Main)' /\ OnceWaiting(Main)'
  BY <1>1, <1>2, SameOnce, MainIsThread DEF MainSingle, MainOnce
<1>4. OnceQueued(Main)'
  <2>1. OnceQueued(Main) /\ RunQueueType /\ 1 \in 1 .. 3
    BY Facts DEF MainSingle, MainOnce
  <2>2. CASE CreateFirst
    <3>1. thread_number = 0 /\ run_queue' = add_to_run_queue(1, Main)
      BY <2>2 DEF CreateFirst
    <3>2. \A k \in 1 .. 3 : run_queue[k] = << >>
      BY <3>1 DEF SchedulerFacts
    <3>3. ~InRunQueue(Main)
      BY <3>2 DEF InRunQueue, InQueue
    <3> QED  BY <2>1, <3>1, <3>3, AddOnce, MainIsThread
  <2>3. CASE CreateThread
    BY <2>1, <2>3, SameOnce, MainIsThread DEF CreateThread
  <2>4. CASE CreateAdd
    <3>1. thread_number > 1 /\ thread_number \in 0 .. MaxThreads
      BY <2>4 DEF CreateAdd, SchedulerFacts, ThreadTypeOK
    <3>2. PICK n \in Tid : n = thread_number - 1 /\ n # Main
      BY <3>1, MlfqAssumption DEF Tid, Main
    <3>3. run_queue' = add_to_run_queue(1, n)
      BY <2>4, <3>2 DEF CreateAdd
    <3> QED  BY <2>1, <3>2, <3>3, AddOnce, MainIsThread
  <2> QED  BY <2>2, <2>3, <2>4 DEF Create
<1> QED  BY <1>2, <1>3, <1>4, IdleMain

LEMMA ThreadStepSingle ==
  ASSUME SchedulerFacts, Live, MainSingle, NEW t \in Tid, ThreadStep(t), mpc[t] = "none",
         UNCHANGED mpc
  PROVE  MainSingle'
<1>1. /\ ~Releases(Main)'
      /\ mpc'[Main] # "held" /\ (Waiting(Main) => mpc'[Main] = "none")
      /\ InLock(Main)' => InLock(Main)
      /\ mpc'[Main] = "lock_return" => mpc[Main] = "lock_return"
  BY DEF MainSingle, MainOnce, Releases, InLock
<1>2. phase = "thread" /\ cpu = t /\ Executing(t)
  BY DEF ThreadStep, JoinExited, JoinWait, JoinReturn, ExitStart, ExitReturn, Yield, Tick,
         Executing, OnProcessor, Live
<1>3. pc \in [Tid -> PC] /\ yield_purpose \in [Tid -> {Timeout, Exit, Block}]
  BY DEF SchedulerFacts, ThreadTypeOK
<1>4. OnceQueued(Main) /\ OnceWaiting(Main)
  BY DEF MainSingle, MainOnce
<1>5. ASSUME NEW u \in Tid, JoinExited(t, u) PROVE MainSingle'
  <2>1. UNCHANGED <<queueVars, threadVars, schedVars, pc, join_waiting_queue>>
    BY <1>5 DEF JoinExited
  <2>2. UNCHANGED <<run_queue, join_waiting_queue, phase, ptr, thread_number, cpu,
                    yield_purpose, pc>>
    BY <2>1 DEF queueVars, threadVars, schedVars
  <2> QED  BY <1>1, <2>2, Untouched
<1>6. ASSUME NEW u \in Tid, JoinWait(t, u) PROVE MainSingle'
  <2>1. /\ u < thread_number /\ thread_number > 0 /\ pc[t] = "user"
    BY <1>6, MainIsThread, Facts DEF JoinWait
  <2>2. get_current_thread = t /\ InRunQueue(t)
    BY <1>2, <2>1, CallerFirst, CallerQueued
  <2>3. /\ UNCHANGED queueVars /\ UNCHANGED schedVars
        /\ UNCHANGED <<thread_number, current_thread, cpu>>
        /\ join_waiting_queue' = Append(join_waiting_queue, [tcb |-> t, tid |-> u])
        /\ yield_purpose' = [yield_purpose EXCEPT ![t] = Block]
        /\ pc' = [pc EXCEPT ![t] = "join_yield"]
    BY <1>6, <2>2 DEF JoinWait
  <2>4. t = Main => ~Waiting(Main)
    BY <2>1 DEF MainSingle, MainOnce
  <2>5. /\ OnceWaiting(Main)' /\ (Waiting(Main)' <=> Waiting(Main) \/ Main = t)
    BY <1>4, <2>3, <2>4, Facts, AddOnceWaiting, AddJoin, MainIsThread
  <2>6. OnceQueued(Main)' /\ (InRunQueue(Main)' <=> InRunQueue(Main))
    BY <1>4, <2>3, SameOnce, MainIsThread DEF queueVars
  <2>7. /\ phase' = "thread" /\ cpu' = t /\ thread_number' = thread_number
    BY <1>2, <2>3 DEF schedVars
  <2>8. CASE t = Main
    <3>1. yield_purpose'[Main] = Block /\ pc'[Main] = "join_yield" /\ mpc'[Main] = "none"
      BY <1>3, <2>3, <2>8
    <3>2. MainOnce'
      BY <2>1, <2>5, <2>6, <2>7, <2>8, <3>1 DEF MainOnce, Executing, InLock
    <3> QED  BY <1>1, <3>2 DEF MainSingle
  <2>9. CASE t # Main
    <3>1. yield_purpose'[Main] = yield_purpose[Main] /\ pc'[Main] = pc[Main]
      BY <1>3, <2>3, <2>9, MainIsThread
    <3>2. ~(Waiting(Main) /\ InRunQueue(Main))
      BY <1>2, <2>9 DEF MainSingle, MainOnce, Executing
    <3>3. MainOnce'
      BY <1>1, <2>5, <2>6, <2>7, <2>9, <3>1, <3>2 DEF MainSingle, MainOnce
    <3> QED  BY <1>1, <3>3 DEF MainSingle
  <2> QED  BY <2>8, <2>9
<1>7. ASSUME JoinReturn(t) \/ ExitStart(t) PROVE MainSingle'
  <2>1. /\ UNCHANGED queueVars /\ UNCHANGED schedVars
        /\ UNCHANGED <<thread_number, current_thread, cpu, join_waiting_queue>>
        /\ \E l : pc' = [pc EXCEPT ![t] = l]
    BY <1>7 DEF JoinReturn, ExitStart, threadVars
  <2>2. UNCHANGED <<run_queue, join_waiting_queue, phase, ptr, thread_number, cpu>>
    BY <2>1 DEF queueVars, schedVars
  <2>3. CASE t = Main
    <3>1. ~Waiting(Main)
      <4>1. Waiting(Main) => pc[Main] = "join_yield"
        BY <1>2, <2>3, CallerQueued DEF MainSingle, MainOnce
      <4> QED  BY <1>7, <2>3, <4>1 DEF JoinReturn, ExitStart
    <3>2. OnceQueued(Main)' /\ OnceWaiting(Main)' /\ ~Waiting(Main)'
      BY <1>4, <2>2, <3>1, SameOnce, MainIsThread
    <3> QED  BY <1>2, <2>2, <2>3, <3>2, IdleMain
  <2>4. CASE t # Main
    <3>1. pc'[Main] = pc[Main]
      BY <1>3, <2>1, <2>4, MainIsThread
    <3>2. yield_purpose'[Main] = yield_purpose[Main]
      <4>1. CASE JoinReturn(t)
        BY <4>1 DEF JoinReturn, threadVars
      <4>2. CASE ExitStart(t)
        <5>1. thread_number > 0
          BY <4>2 DEF ExitStart
        <5>2. yield_purpose' = [yield_purpose EXCEPT ![t] = Exit]
          BY <1>2, <4>2, <5>1, CallerFirst DEF ExitStart
        <5> QED  BY <1>3, <2>4, <5>2, MainIsThread
      <4> QED  BY <1>7, <4>1, <4>2
    <3> QED  BY <1>1, <2>2, <3>1, <3>2, Untouched
  <2> QED  BY <2>3, <2>4
<1>8. ASSUME Yield(t) PROVE MainSingle'
  <2>1. /\ thread_number > 0 /\ Deschedule
        /\ pc[t] \in {"user", "join_yield", "exit_yield"}
        /\ pc' = [pc EXCEPT ![t] = CASE @ = "user" -> "user"
                                     [] @ = "join_yield" -> "join_return"
                                     [] @ = "exit_yield" -> "exited"]
    BY <1>8 DEF Yield
  <2>2. Waiting(Main) => pc[Main] \in {"join_yield", "join_return"}
    BY DEF MainSingle, MainOnce
  <2>3. Waiting(Main) => pc'[Main] \in {"join_yield", "join_return"}
    BY <1>3, <2>1, <2>2, MainIsThread
  <2> QED  BY <1>1, <1>2, <2>1, <2>3, DescheduleSingle
<1>9. ASSUME Tick(t) PROVE MainSingle'
  <2>1. /\ thread_number > 0 /\ Deschedule /\ pc' = pc
    BY <1>9 DEF Tick
  <2>2. Waiting(Main) => pc'[Main] \in {"join_yield", "join_return"}
    BY <2>1 DEF MainSingle, MainOnce
  <2> QED  BY <1>1, <1>2, <2>1, <2>2, DescheduleSingle
<1>10. ~ExitReturn(t)
  BY DEF ExitReturn, Live
<1> QED  BY <1>5, <1>6, <1>7, <1>8, <1>9, <1>10 DEF ThreadStep
LEMMA SchedulerSingle ==
  ASSUME MainSingle, phase \in {"handle", "dispatch"},
         UNCHANGED <<run_queue, join_waiting_queue, mpc, pc, thread_number>>,
         phase' = "handle" => phase = "handle" /\ ptr' = ptr /\ yield_purpose' = yield_purpose,
         yield_purpose'[Main] = yield_purpose[Main] \/ ~InRunQueue(Main)
  PROVE  MainSingle'
<1>1. /\ OnceQueued(Main)' <=> OnceQueued(Main)
      /\ InRunQueue(Main)' <=> InRunQueue(Main)
      /\ OnceWaiting(Main)' <=> OnceWaiting(Main)
      /\ Waiting(Main)' <=> Waiting(Main)
  BY SameOnce, MainIsThread
<1>2. ~(Waiting(Main) /\ InRunQueue(Main))
  BY DEF MainSingle, MainOnce, Executing
<1>3. ~Releases(Main)' /\ mpc'[Main] # "held" /\ (InLock(Main)' <=> InLock(Main))
  BY DEF MainSingle, Releases, InLock
<1>4. MainOnce'
  BY <1>1, <1>2, <1>3 DEF MainSingle, MainOnce
<1> QED  BY <1>3, <1>4 DEF MainSingle

LEMMA SchedStepSingle ==
  ASSUME SchedulerFacts, MainSingle, SchedStep, UNCHANGED mpc PROVE MainSingle'
<1>1. phase \in {"handle", "dispatch"}
  BY DEF SchedStep, HandleTimeout, HandleBlock, HandleExitWake, HandleExitSkip, HandleExitDone,
         Exits, Dispatch, Stall
<1>2. ASSUME HandleTimeout PROVE MainSingle'
  <2>1. /\ phase = "handle" /\ phase' = "dispatch" /\ yield_purpose[ptr] = Timeout
        /\ UNCHANGED threadVars /\ UNCHANGED joinVars
        /\ pc' = pc /\ ptr' = ptr
    BY <1>2 DEF HandleTimeout
  <2>2. PICK num \in 1 .. 3 : run_queue' = add_to_run_queue(num, ptr)
    BY <1>2 DEF HandleTimeout
  <2>3. /\ UNCHANGED <<yield_purpose, cpu, thread_number, join_waiting_queue>>
    BY <2>1 DEF threadVars, joinVars
  <2>4. OnceWaiting(Main)' /\ (Waiting(Main)' <=> Waiting(Main))
    BY <2>3, SameOnce, MainIsThread DEF MainSingle, MainOnce
  <2>5. ptr = Main => ~InRunQueue(Main) /\ ~InLock(Main) /\ ~Waiting(Main)'
    BY <2>1, <2>4 DEF MainSingle, MainOnce, Timeout, Block
  <2>6. ptr \in Tid
    BY Facts
  <2> QED  BY <2>1, <2>2, <2>3, <2>4, <2>5, <2>6, AddedSingle
<1>3. ASSUME HandleBlock PROVE MainSingle'
  <2>1. /\ phase = "handle" /\ phase' = "dispatch"
        /\ yield_purpose' = [yield_purpose EXCEPT ![ptr] = Timeout]
        /\ UNCHANGED queueVars /\ UNCHANGED joinVars /\ pc' = pc /\ thread_number' = thread_number
    BY <1>3 DEF HandleBlock
  <2>2. UNCHANGED <<run_queue, join_waiting_queue>>
    BY <2>1 DEF queueVars, joinVars
  <2>3. yield_purpose'[Main] = yield_purpose[Main] \/ ~InRunQueue(Main)
    <3>1. CASE ptr = Main
      BY <2>1, <3>1 DEF MainSingle, MainOnce
    <3>2. CASE ptr # Main
      <4>1. yield_purpose \in [Tid -> {Timeout, Exit, Block}]
        BY DEF SchedulerFacts, ThreadTypeOK
      <4> QED  BY <2>1, <3>2, <4>1, MainIsThread
    <3> QED  BY <3>1, <3>2
  <2> QED  BY <1>1, <2>1, <2>2, <2>3, SchedulerSingle
<1>4. ASSUME HandleExitWake PROVE MainSingle'
  <2>1. /\ phase = "handle" /\ phase' = phase /\ yield_purpose[ptr] = Exit
        /\ wait_ptr \in 1 .. Len(join_waiting_queue)
        /\ join_waiting_queue' = UnlinkJoin(wait_ptr)
        /\ UNCHANGED threadVars /\ pc' = pc /\ ptr' = ptr
    BY <1>4, Facts DEF HandleExitWake, Exits, SchedulerFacts
  <2>2. join_waiting_queue[wait_ptr].tcb \in Tid
    <3>1. join_waiting_queue[wait_ptr] \in Waiter
      BY <2>1, Facts
    <3> QED  BY <3>1 DEF Waiter
  <2>3. PICK j \in Tid : j = join_waiting_queue[wait_ptr].tcb
    BY <2>2
  <2>4. run_queue' = add_to_run_queue(1, j) /\ 1 \in 1 .. 3
    BY <1>4, <2>3 DEF HandleExitWake
  <2>5. OnceWaiting(Main)' /\ (Waiting(Main)' => Waiting(Main) /\ Main # j)
    <3>1. join_waiting_queue \in Seq(Waiter) /\ OnceWaiting(Main)
      BY Facts DEF MainSingle, MainOnce
    <3> QED  BY <2>1, <2>3, <3>1, UnlinkOnce, MainIsThread
  <2>6. j = Main => ~InRunQueue(Main) /\ ~InLock(Main) /\ ~Waiting(Main)' /\ ptr # Main
    <3>1. j = Main => Waiting(Main)
      BY <2>1, <2>3 DEF Waiting
    <3>2. Waiting(Main) => mpc[Main] = "none" /\ ~InRunQueue(Main)
      BY <2>1 DEF MainSingle, MainOnce, Executing
    <3>3. Waiting(Main) => ptr # Main
      BY <2>1 DEF MainSingle, MainOnce, Exit, Block
    <3> QED  BY <2>5, <3>1, <3>2, <3>3 DEF InLock
  <2>7. mpc'[Main] = mpc[Main] /\ UNCHANGED <<yield_purpose, cpu, thread_number, ptr>>
    BY <2>1 DEF threadVars
  <2> QED  BY <2>1, <2>3, <2>4, <2>5, <2>6, <2>7, AddedSingle
<1>5. ASSUME HandleExitSkip \/ HandleExitDone PROVE MainSingle'
  <2>1. /\ UNCHANGED queueVars /\ UNCHANGED threadVars
        /\ UNCHANGED <<pc, join_waiting_queue, ptr>>
        /\ phase = "handle"
    BY <1>5 DEF HandleExitSkip, HandleExitDone, joinVars, Exits
  <2>2. UNCHANGED <<run_queue, join_waiting_queue, mpc, pc, thread_number, yield_purpose, ptr>>
    BY <2>1 DEF queueVars, threadVars
  <2> QED  BY <1>1, <2>1, <2>2, SchedulerSingle
<1>6. ASSUME Dispatch \/ Stall PROVE MainSingle'
  <2>1. /\ UNCHANGED joinVars /\ UNCHANGED <<pc, run_queue, yield_purpose, thread_number>>
        /\ phase' # "handle"
    BY <1>6 DEF Dispatch, Stall, queueVars, threadVars
  <2>2. join_waiting_queue' = join_waiting_queue
    BY <2>1 DEF joinVars
  <2> QED  BY <1>1, <2>1, <2>2, SchedulerSingle
<1> QED  BY <1>2, <1>3, <1>4, <1>5, <1>6 DEF SchedStep
LEMMA MutexStepSingle ==
  ASSUME XInv, Live, MainSingle, NEW t \in Tid, MutexStep(t),
         t = Main => ~LockOwn(t) /\ ~Releases(Main)',
         WalkWake(t) => node[mptr[t]].thread # Main
  PROVE  MainSingle'
<1>1. /\ SchedulerFacts /\ LocalTypes
      /\ mpc[t] \notin Setup \cup {"none"} => thread_number > 0
      /\ OnProcessor(t) => Executing(t)
      /\ mpc \in [Tid -> MutexPC] /\ yield_purpose \in [Tid -> {Timeout, Exit, Block}]
  BY TypeParts DEF OnProcessor, Executing, Live, XInv, CallsAfterCreate, LocalTypes, SchedulerFacts, ThreadTypeOK
<1>2. mpc[Main] # "none" \/ pc[Main] = "user" => ~Waiting(Main)
  BY DEF MainSingle, MainOnce
<1>3. Executing(Main) /\ thread_number > 0 => InRunQueue(Main)
  BY <1>1, CallerQueued, MainIsThread
<1>4. ASSUME (\E m \in Mutexes : LockCheck(t, m)) \/ LockTas(t) PROVE MainSingle'
  <2>1. (pc[t] = "user" \/ mpc[t] # "none") /\ UNCHANGED mlfqVars
    BY <1>4 DEF LockCheck, LockTas, At
  <2>2. PICK label \in {"lock_tas", "lock_own", "lock_mark"} : Goto(t, label)
    BY <1>4 DEF LockCheck, LockTas
  <2> QED  BY <1>1, <1>2, <2>1, <2>2, MovesSingle
<1>5. ASSUME LockMark(t) PROVE MainSingle'
  <2>1. Executing(t) /\ mpc[t] = "lock_mark"
    BY <1>5 DEF LockMark, At
  <2>2. get_current_thread = t
    BY <1>1, <2>1, CallerFirst DEF Setup
  <2>3. /\ UNCHANGED queueVars /\ UNCHANGED joinVars /\ UNCHANGED schedVars
        /\ UNCHANGED <<pc, thread_number, cpu>>
        /\ yield_purpose' = [yield_purpose EXCEPT ![t] = Block]
        /\ mpc' = [mpc EXCEPT ![t] = "lock_last"]
    BY <1>5, <2>2 DEF LockMark, Goto
  <2>4. UNCHANGED <<run_queue, join_waiting_queue, phase, ptr, thread_number, cpu>>
    BY <2>3 DEF queueVars, joinVars, schedVars
  <2>5. CASE t = Main
    <3>1. ~Waiting(Main) /\ OnceQueued(Main) /\ OnceWaiting(Main) /\ phase = "thread"
      BY <1>2, <2>1, <2>5 DEF MainSingle, MainOnce, Executing
    <3>2. ~Waiting(Main)' /\ OnceQueued(Main)' /\ OnceWaiting(Main)' /\ phase' = "thread"
      BY <2>4, <3>1, SameOnce, MainIsThread
    <3>3. mpc'[Main] = "lock_last" /\ yield_purpose'[Main] = Block
      BY <1>1, <2>3, <2>5
    <3>4. MainOnce'
      BY <3>2, <3>3 DEF MainOnce
    <3> QED  BY <3>3, <3>4 DEF MainSingle, Releases
  <2>6. CASE t # Main
    <3>1. yield_purpose'[Main] = yield_purpose[Main] /\ mpc'[Main] = mpc[Main]
      BY <1>1, <2>3, <2>6, MainIsThread
    <3>2. /\ mpc'[Main] # "held" /\ (Waiting(Main) => mpc'[Main] = "none")
          /\ ~Releases(Main)' /\ (InLock(Main)' => InLock(Main))
      BY <3>1 DEF MainSingle, MainOnce, InLock, Releases
    <3> QED  BY <2>3, <2>4, <3>1, <3>2, Untouched
  <2> QED  BY <2>5, <2>6
<1>6. ASSUME LockLast(t) \/ LockAdd(t) PROVE MainSingle'
  <2>1. /\ mpc[t] \in {"lock_last", "lock_add"} /\ UNCHANGED mlfqVars
    BY <1>6 DEF LockLast, LockAdd, At
  <2>2. PICK label \in {"lock_add", "lock_wait"} : Goto(t, label)
    BY <1>6 DEF LockLast, LockAdd
  <2>3. t = Main => InLock(Main) /\ ~Waiting(Main)
    BY <1>2, <2>1 DEF InLock
  <2> QED  BY <1>1, <2>1, <2>2, <2>3, MovesSingle
<1>7. ASSUME LockYield(t) PROVE MainSingle'
  <2>1. /\ Executing(t) /\ mpc[t] = "lock_wait" /\ Deschedule /\ pc' = pc
        /\ mpc' = [mpc EXCEPT ![t] = "lock_return"] /\ thread_number > 0
    BY <1>1, <1>7 DEF LockYield, At, Goto, Setup
  <2>2. /\ mpc'[t] = "lock_return" /\ \A s \in Tid : s # t => mpc'[s] = mpc[s]
    BY <1>1, <2>1
  <2>3. /\ mpc'[Main] # "held" /\ (InLock(Main)' => InLock(Main))
        /\ ~Releases(Main)'
        /\ mpc'[Main] = "lock_return" => mpc[Main] = "lock_return" \/ t = Main
    BY <2>1, <2>2, MainIsThread DEF MainSingle, InLock, Releases
  <2>4. Waiting(Main) => mpc'[Main] = "none" /\ pc'[Main] \in {"join_yield", "join_return"}
    BY <1>2, <2>1, <2>2, MainIsThread DEF MainSingle, MainOnce
  <2> QED  BY <1>1, <2>1, <2>3, <2>4, DescheduleSingle
<1>8. ASSUME LockReturn(t) \/ UnlockCheck(t) PROVE MainSingle'
  <2>1. /\ Executing(t) /\ mpc[t] \in {"lock_return", "held"} /\ UNCHANGED mlfqVars
        /\ thread_number > 0
    BY <1>1, <1>8 DEF LockReturn, UnlockCheck, At, Setup
  <2>2. t # Main
    BY <1>1, <1>3, <2>1 DEF MainSingle, MainOnce
  <2>3. PICK label : Goto(t, label) /\ label \in {"held", "none", "unlock_release"}
    BY <1>8 DEF LockReturn, UnlockCheck
  <2> QED  BY <1>1, <2>1, <2>2, <2>3, MovesSingle
<1>9. ASSUME Dangling(t) PROVE MainSingle'
  <2>1. /\ Executing(t) /\ phase' = "undefined" /\ mpc[t] # "none"
        /\ UNCHANGED <<queueVars, threadVars, joinVars, pc, mutexVars>>
    BY <1>1, <1>9 DEF Dangling, At
  <2>2. UNCHANGED <<run_queue, join_waiting_queue, yield_purpose, thread_number, pc, mpc>>
    BY <2>1 DEF queueVars, threadVars, joinVars, mutexVars
  <2>3. /\ OnceQueued(Main)' <=> OnceQueued(Main)
        /\ InRunQueue(Main)' <=> InRunQueue(Main)
        /\ OnceWaiting(Main)' <=> OnceWaiting(Main)
        /\ Waiting(Main)' <=> Waiting(Main)
    BY <2>2, SameOnce, MainIsThread
  <2>4. ~(Waiting(Main) /\ InRunQueue(Main))
    <3>1. Waiting(Main) /\ InRunQueue(Main) => Executing(Main) /\ mpc[Main] = "none"
      BY DEF MainSingle, MainOnce
    <3> QED  BY <2>1, <3>1 DEF Executing
  <2>5. InLock(Main)' <=> InLock(Main)
    BY <2>2 DEF InLock
  <2>6. MainOnce'
    BY <2>1, <2>2, <2>3, <2>4, <2>5 DEF MainSingle, MainOnce
  <2> QED  BY <2>2, <2>6 DEF MainSingle, Releases
<1>10. ASSUME LockOwn(t) \/ UnlockRelease(t) \/ UnlockTid(t) \/ UnlockList(t)
              \/ WalkUnlink(t) \/ WalkFree(t) \/ WalkDone(t)
       PROVE  MainSingle'
  <2>1. UNCHANGED mlfqVars /\ \E label : Goto(t, label)
    BY <1>10 DEF LockOwn, UnlockRelease, UnlockTid, UnlockList, WalkUnlink, WalkFree, WalkDone
  <2>2. LockOwn(t) \/ Releases(t)
    BY <1>10 DEF UnlockRelease, UnlockTid, UnlockList, WalkUnlink, WalkFree, WalkDone, At, Releases
  <2>3. t # Main
    BY <2>2 DEF MainSingle
  <2> QED  BY <1>1, <2>1, <2>3, MovesSingle
<1>11. ASSUME WalkSkip(t) PROVE MainSingle'
  <2>1. UNCHANGED <<run_queue, join_waiting_queue, phase, ptr, thread_number, cpu,
                    yield_purpose, pc, mpc>>
    BY <1>11 DEF WalkSkip, mlfqVars, queueVars, threadVars, joinVars, schedVars
  <2>2. ~Releases(Main)' /\ mpc'[Main] # "held" /\ (Waiting(Main) => mpc'[Main] = "none")
    BY <2>1 DEF MainSingle, MainOnce, Releases
  <2>3. InLock(Main)' => InLock(Main)
    BY <2>1 DEF InLock
  <2> QED  BY <2>1, <2>2, <2>3, Untouched
<1>12. ASSUME WalkWake(t) PROVE MainSingle'
  <2>1. /\ mpc[t] = "wake" /\ mptr[t] \in allocated /\ Goto(t, "free")
        /\ run_queue' = add_to_run_queue(1, node[mptr[t]].thread)
        /\ UNCHANGED <<threadVars, joinVars, schedVars, pc>>
    BY <1>12 DEF WalkWake, At
  <2>2. PICK w \in Tid : w = node[mptr[t]].thread /\ w # Main
    BY <1>12, <2>1, NodeFacts, TypeParts DEF XInv
  <2>3. t # Main
    BY <2>1 DEF MainSingle, Releases
  <2>4. mpc'[Main] = mpc[Main]
    BY <1>1, <2>1, <2>3, MainIsThread DEF Goto
  <2>5. UNCHANGED <<join_waiting_queue, yield_purpose, cpu, thread_number, ptr, phase, pc>>
    BY <2>1 DEF threadVars, joinVars, schedVars
  <2>6. OnceWaiting(Main)' /\ (Waiting(Main)' <=> Waiting(Main))
    BY <2>5, SameOnce, MainIsThread DEF MainSingle, MainOnce
  <2>7. run_queue' = add_to_run_queue(1, w) /\ 1 \in 1 .. 3
    BY <2>1, <2>2
  <2> QED  BY <1>1, <2>2, <2>4, <2>5, <2>6, <2>7, AddedSingle
<1> QED  BY <1>4, <1>5, <1>6, <1>7, <1>8, <1>9, <1>10, <1>11, <1>12 DEF MutexStep

(* Every step keeps it but those by which main gets the mutex or releases it, *)
(* and an unlock that wakes main.                                             *)
LEMMA StepSingle ==
  ASSUME XInv, Live, MainSingle, [MutexNext]_allVars, ~LockOwn(Main), ~Releases(Main)',
         \A t \in Tid : WalkWake(t) => node[mptr[t]].thread # Main
  PROVE  MainSingle'
<1>1. SchedulerFacts /\ LocalTypes /\ Main \in Tid
  BY TypeParts, MainIsThread DEF XInv
<1>2. ASSUME UNCHANGED mlfqVars, UNCHANGED mpc PROVE MainSingle'
  <2>1. UNCHANGED <<run_queue, join_waiting_queue, phase, ptr, thread_number, cpu,
                    yield_purpose, pc>>
    BY <1>2 DEF mlfqVars, queueVars, threadVars, joinVars, schedVars
  <2>2. /\ mpc'[Main] # "held" /\ (Waiting(Main) => mpc'[Main] = "none")
        /\ InLock(Main)' => InLock(Main)
    BY <1>2 DEF MainSingle, MainOnce, InLock
  <2> QED  BY <1>2, <2>1, <2>2, Untouched
<1>3. ASSUME \/ \E m \in Mutexes : InitFlag(m) \/ DestroyTas(m)
             \/ InitWord \/ InitMid \/ DestroyFlag
      PROVE  MainSingle'
  <2>1. (pc[Main] = "user" \/ mpc[Main] # "none") /\ UNCHANGED mlfqVars
    BY <1>3 DEF InitFlag, InitWord, InitMid, DestroyTas, DestroyFlag, At
  <2>2. PICK label \in {"init_word", "init_mid", "destroy_flag", "none"} : Goto(Main, label)
    BY <1>3 DEF InitFlag, InitWord, InitMid, DestroyTas, DestroyFlag
  <2>3. ~Waiting(Main)
    BY <2>1 DEF MainSingle, MainOnce
  <2> QED  BY <1>1, <2>1, <2>2, <2>3, MovesSingle
<1>4. ASSUME NEW t \in Tid, MutexStep(t) PROVE MainSingle'
  BY <1>4, MutexStepSingle
<1>5. ASSUME NEW t \in Tid, MutexTick(t) PROVE MainSingle'
  <2>1. /\ Executing(t) /\ thread_number > 0 /\ Deschedule /\ pc' = pc /\ mpc' = mpc
    BY <1>5 DEF MutexTick, Tick, mutexVars
  <2>2. /\ mpc'[Main] # "held" /\ (InLock(Main)' => InLock(Main))
        /\ Waiting(Main) => mpc'[Main] = "none" /\ pc'[Main] \in {"join_yield", "join_return"}
    BY <2>1 DEF MainSingle, MainOnce, InLock
  <2> QED  BY <1>1, <2>1, <2>2, DescheduleSingle
<1>6. ASSUME NEW t \in Tid, OtherCall(t) PROVE MainSingle'
  BY <1>1, <1>6, ThreadStepSingle DEF OtherCall, mutexVars
<1>7. ASSUME OtherCreate \/ MutexCreateFirst PROVE MainSingle'
  BY <1>1, <1>7, CreateSingle DEF OtherCreate, MutexCreateFirst, Create, mutexVars
<1>8. ASSUME SchedulerStep PROVE MainSingle'
  BY <1>1, <1>8, SchedStepSingle DEF SchedulerStep, mutexVars
<1>9. ASSUME UNCHANGED allVars PROVE MainSingle'
  BY <1>2, <1>9 DEF allVars, vars, mlfqVars, mutexVars
<1> QED  BY <1>3, <1>4, <1>5, <1>6, <1>7, <1>8, <1>9 DEF MutexNext
(* As long as no thread is in unlock, none is woken.                          *)
LEMMA StepUnwoken ==
  ASSUME XInv, Live, Unwoken, [MutexNext]_allVars, \A t \in Tid : ~LockOwn(t),
         \A s \in Tid : ~Releases(s)'
  PROVE  Unwoken'
<1>1. \A t \in Tid : ~WalkWake(t)
  BY DEF WalkWake, At, Unwoken, Releases
<1> QED  BY <1>1, StepSingle, MainIsThread DEF Unwoken

LEMMA StaysLive == ASSUME [MutexNext]_allVars PROVE Live' => Live
<1>1. ASSUME NEW t \in Tid, MutexStep(t) PROVE Live' => Live
  BY <1>1 DEF MutexStep, Live, mlfqVars, schedVars, LockCheck, LockTas, LockOwn, LockMark,
              LockLast, LockAdd, LockYield, LockReturn, UnlockCheck, UnlockRelease, UnlockTid,
              UnlockList, WalkSkip, WalkUnlink, WalkWake, WalkFree, WalkDone, Dangling, At,
              Executing
<1>2. ASSUME NEW t \in Tid, MutexTick(t) \/ OtherCall(t) PROVE Live' => Live
  BY <1>2 DEF MutexTick, OtherCall, Live, Tick, ThreadStep, JoinExited, JoinWait, JoinReturn,
              ExitStart, ExitReturn, Yield, schedVars, Executing
<1>3. ASSUME OtherCreate \/ MutexCreateFirst \/ SchedulerStep PROVE Live' => Live
  BY <1>3 DEF OtherCreate, MutexCreateFirst, SchedulerStep, Live, CreateFirst, CreateThread,
              CreateAdd, SchedStep, HandleTimeout, HandleBlock, HandleExitWake,
              HandleExitSkip, HandleExitDone, Exits, Dispatch, Stall, schedVars
<1>4. ASSUME \/ \E m \in Mutexes : InitFlag(m) \/ DestroyTas(m)
             \/ InitWord \/ InitMid \/ DestroyFlag \/ UNCHANGED allVars
      PROVE  Live' => Live
  BY <1>4 DEF InitFlag, InitWord, InitMid, DestroyTas, DestroyFlag, allVars, vars, mlfqVars,
              schedVars, Live
<1> QED  BY <1>1, <1>2, <1>3, <1>4 DEF MutexNext

(* Unless a thread becomes the owner or releases, main stays unwoken.         *)
LEMMA StaysUnwoken ==
  ASSUME XInv, [MutexNext]_allVars,
         \A s \in Tid : mpc[s] = "lock_own" => mpc'[s] # "held",
         \A s \in Tid : Releases(s)' => Releases(s)
  PROVE  Live /\ Unwoken => Unwoken'
<1>1. \A t \in Tid : ~LockOwn(t)
  <2> SUFFICES ASSUME NEW t \in Tid, LockOwn(t) PROVE FALSE
    OBVIOUS
  <2>1. LocalTypes
    BY TypeParts DEF XInv
  <2>2. mpc[t] = "lock_own" /\ Goto(t, "held")
    BY DEF LockOwn, At
  <2> QED  BY <2>1, <2>2, OthersStay
<1> QED  BY <1>1, StepUnwoken DEF Unwoken

(* The steps that change neither the fields of the mutex nor the labels at    *)
(* which a thread owns it.                                                    *)
LEMMA QuietStep ==
  ASSUME XInv, NEW m, OneWinner(m), TidTrue(m), [MutexNext]_allVars,
         UNCHANGED <<mutex_tid, acquired, mutex_lock>>,
         \A s \in Tid :
           \/ mpc'[s] = mpc[s]
           \/ /\ mpc[s] \notin {"lock_own", "held", "unlock_release", "unlock_tid"}
              /\ mpc'[s] \notin {"lock_own", "unlock_release"}
              /\ Releases(s)' => Releases(s)
  PROVE  OneWinner(m)' /\ TidTrue(m)'
<1>1. (Live' => Live) /\ (Live /\ Unwoken => Unwoken')
  <2>1. \A s \in Tid : mpc[s] = "lock_own" => mpc'[s] # "held"
    OBVIOUS
  <2>2. \A s \in Tid : Releases(s)' => Releases(s)
    BY DEF Releases
  <2> QED  BY <2>1, <2>2, StaysUnwoken, StaysLive
<1>2. OneWinner(m)'
  BY DEF OneWinner
<1>3. TidTrue(m)'
  BY <1>1 DEF TidTrue
<1> QED  BY <1>2, <1>3

(* A thread in a call has the only mutex as its argument.                     *)
LEMMA OnlyMutex ==
  ASSUME XInv, NEW m, Mutexes = {m}, NEW t \in Tid, mpc[t] # "none"
  PROVE  /\ LocalTypes /\ marg[t] = m
         /\ Executing(t) /\ mpc[t] \notin Setup => get_current_thread = t
         /\ acquired \in [Mutexes -> SUBSET Tid] /\ acquired[m] \subseteq Tid
         /\ mutex_tid \in [Mutexes -> Tid \cup {-1}]
         /\ mutex_lock \in [Mutexes -> {0, 1}]
<1>1. LocalTypes /\ SchedulerFacts /\ (mpc[t] \notin Setup => thread_number > 0)
  BY TypeParts DEF XInv, CallsAfterCreate
<1>2. Executing(t) /\ mpc[t] \notin Setup => get_current_thread = t
  BY <1>1, CallerFirst
<1>3. marg[t] = m
  BY <1>1, SameLocals
<1>4. /\ acquired \in [Mutexes -> SUBSET Tid] /\ acquired[m] \subseteq Tid
      /\ mutex_tid \in [Mutexes -> Tid \cup {-1}]
      /\ mutex_lock \in [Mutexes -> {0, 1}]
  BY DEF XInv, MutexTypeOK
<1> QED  BY <1>1, <1>2, <1>3, <1>4

LEMMA LockKeepsWinner ==
  ASSUME XInv, NEW m, Mutexes = {m}, OneWinner(m), TidTrue(m), [MutexNext]_allVars,
         NEW t \in Tid, LockTas(t) \/ LockOwn(t)
  PROVE  OneWinner(m)' /\ TidTrue(m)'
<1>1. LocalTypes /\ marg[t] = m /\ (Live' => Live)
  <2>1. mpc[t] # "none"
    BY DEF LockTas, LockOwn, At
  <2> QED  BY <2>1, OnlyMutex, StaysLive
<1>2. CASE LockTas(t)
  <2>1. /\ mpc[t] = "lock_tas" /\ UNCHANGED fieldVars
        /\ mutex_lock' = [mutex_lock EXCEPT ![m] = 1]
        /\ \/ /\ mutex_lock[m] = 0 /\ Goto(t, "lock_own")
              /\ acquired' = [acquired EXCEPT ![m] = @ \cup {t}]
           \/ mutex_lock[m] = 1 /\ Goto(t, "lock_mark") /\ acquired' = acquired
    BY <1>1, <1>2 DEF LockTas, At
  <2>2. /\ mpc'[t] \in {"lock_own", "lock_mark"}
        /\ \A s \in Tid : s # t => mpc'[s] = mpc[s]
    BY <1>1, <2>1, OthersStay
  <2>3. Live /\ Unwoken => Unwoken'
    <3>1. \A s \in Tid : mpc[s] = "lock_own" => mpc'[s] # "held"
      BY <2>1, <2>2
    <3>2. \A s \in Tid : Releases(s)' => Releases(s)
      BY <2>2 DEF Releases
    <3> QED  BY <3>1, <3>2, StaysUnwoken
  <2>4. /\ mutex_lock'[m] = 1 /\ mutex_tid' = mutex_tid
        /\ acquired \in [Mutexes -> SUBSET Tid]
    BY <2>1 DEF fieldVars, XInv, MutexTypeOK
  <2>5. \/ acquired[m] = {} /\ acquired'[m] = {t} /\ mpc'[t] = "lock_own"
        \/ acquired'[m] = acquired[m] /\ mpc'[t] = "lock_mark"
    <3>1. CASE mutex_lock[m] = 0
      BY <1>1, <2>1, <2>4, <3>1, OthersStay DEF OneWinner
    <3>2. CASE mutex_lock[m] # 0
      BY <1>1, <2>1, <3>2, OthersStay
    <3> QED  BY <3>1, <3>2
  <2>6. OneWinner(m)'
    BY <2>2, <2>4, <2>5 DEF OneWinner
  <2>7. TidTrue(m)'
    BY <1>1, <2>1, <2>2, <2>3, <2>4, <2>5 DEF TidTrue
  <2> QED  BY <2>6, <2>7
<1>3. CASE LockOwn(t)
  <2>1. Executing(t) /\ mpc[t] = "lock_own" /\ Goto(t, "held") /\ UNCHANGED lockVars
        /\ initialized' = initialized
    BY <1>3 DEF LockOwn, At
  <2>2. /\ mutex_tid' = [mutex_tid EXCEPT ![m] = t]
        /\ mutex_tid \in [Mutexes -> Tid \cup {-1}]
    BY <1>3, <2>1, OnlyMutex DEF LockOwn, Setup
  <2>3. mpc'[t] = "held" /\ \A s \in Tid : s # t => mpc'[s] = mpc[s]
    BY <1>1, <2>1, OthersStay
  <2>4. mutex_tid'[m] = t /\ t \in acquired[m] /\ acquired' = acquired /\ mutex_lock' = mutex_lock
    BY <2>1, <2>2 DEF OneWinner, lockVars
  <2>5. OneWinner(m)'
    BY <2>1, <2>3, <2>4 DEF OneWinner
  <2>6. TidTrue(m)'
    BY <1>1, <2>3, <2>4 DEF TidTrue
  <2> QED  BY <2>5, <2>6
<1> QED  BY <1>2, <1>3

LEMMA UnlockKeepsWinner ==
  ASSUME XInv, NEW m, Mutexes = {m}, OneWinner(m), TidTrue(m), WordKept(m),
         [MutexNext]_allVars,
         NEW t \in Tid, UnlockCheck(t) \/ UnlockRelease(t) \/ UnlockTid(t)
  PROVE  OneWinner(m)' /\ TidTrue(m)'
<1>1. mpc[t] \in {"held", "unlock_release", "unlock_tid"} /\ (Live' => Live)
  BY StaysLive DEF UnlockCheck, UnlockRelease, UnlockTid, At
<1>2. /\ LocalTypes /\ marg[t] = m
      /\ Executing(t) => get_current_thread = t
      /\ acquired \in [Mutexes -> SUBSET Tid] /\ acquired[m] \subseteq Tid
      /\ mutex_tid \in [Mutexes -> Tid \cup {-1}]
      /\ mutex_lock \in [Mutexes -> {0, 1}]
  BY <1>1, OnlyMutex DEF Setup
<1>3. CASE UnlockCheck(t) /\ initialized[m] /\ t = mutex_tid[m]
  <2>1. mpc[t] = "held" /\ Goto(t, "unlock_release") /\ UNCHANGED <<fieldVars, lockVars>>
        /\ Live
    BY <1>2, <1>3 DEF UnlockCheck, At, Executing, Live
  <2>2. mpc'[t] = "unlock_release" /\ \A s \in Tid : s # t => mpc'[s] = mpc[s]
    BY <1>2, <2>1, OthersStay
  <2>3. UNCHANGED <<mutex_tid, acquired, mutex_lock, initialized>>
    BY <2>1 DEF fieldVars, lockVars
  <2>4. t \in acquired[m]
    BY <1>3, <2>1 DEF TidTrue, Unwoken, MainSingle
  <2>5. OneWinner(m)'
    BY <2>2, <2>3, <2>4 DEF OneWinner
  <2>6. TidTrue(m)'
    BY <1>3, <2>2, <2>3, <2>4 DEF TidTrue
  <2> QED  BY <2>5, <2>6
<1>4. CASE UnlockCheck(t) /\ ~(initialized[m] /\ t = mutex_tid[m])
  <2>1. mpc[t] = "held" /\ Goto(t, "none") /\ UNCHANGED <<fieldVars, lockVars>>
    BY <1>2, <1>4 DEF UnlockCheck, At
  <2>2. mpc'[t] = "none" /\ \A s \in Tid : s # t => mpc'[s] = mpc[s]
    BY <1>2, <2>1, OthersStay
  <2>3. UNCHANGED <<mutex_tid, acquired, mutex_lock, initialized>>
    BY <2>1 DEF fieldVars, lockVars
  <2>4. Live /\ Unwoken => Unwoken'
    <3>1. \A s \in Tid : mpc[s] = "lock_own" => mpc'[s] # "held"
      BY <2>1, <2>2
    <3>2. \A s \in Tid : Releases(s)' => Releases(s)
      BY <2>2 DEF Releases
    <3> QED  BY <3>1, <3>2, StaysUnwoken
  <2>5. OneWinner(m)'
    BY <2>2, <2>3 DEF OneWinner
  <2>6. ASSUME Live', mutex_tid[m] = t, t \in acquired[m] PROVE FALSE
    <3>1. mutex_lock[m] = 1 /\ initialized[m]
      BY <2>6 DEF OneWinner, WordKept, Closed
    <3>2. Executing(t) /\ get_current_thread # t
      BY <1>2, <1>4, <2>6, <3>1 DEF UnlockCheck, At, OnProcessor, Executing
    <3> QED  BY <1>2, <3>2
  <2>7. TidTrue(m)'
    BY <1>1, <2>1, <2>2, <2>3, <2>4, <2>6 DEF TidTrue
  <2> QED  BY <2>5, <2>7
<1>5. CASE UnlockRelease(t)
  <2>1. /\ mpc[t] = "unlock_release" /\ Goto(t, "unlock_tid") /\ UNCHANGED fieldVars
        /\ acquired' = [acquired EXCEPT ![m] = @ \ {t}]
    BY <1>2, <1>5 DEF UnlockRelease, At
  <2>2. mpc'[t] = "unlock_tid" /\ \A s \in Tid : s # t => mpc'[s] = mpc[s]
    BY <1>2, <2>1, OthersStay
  <2>3. mutex_tid' = mutex_tid /\ acquired'[m] = acquired[m] \ {t}
    BY <1>2, <2>1 DEF fieldVars
  <2>4. t \in acquired[m] /\ \A s \in acquired[m] : s = t
    BY <2>1 DEF OneWinner
  <2>5. acquired'[m] = {}
    BY <2>3, <2>4
  <2>6. \A s \in Tid : mpc'[s] \notin {"lock_own", "unlock_release"}
    BY <2>2, <2>4 DEF OneWinner
  <2>7. OneWinner(m)'
    BY <2>5, <2>6 DEF OneWinner
  <2>8. ~Unwoken
    BY <2>1 DEF Unwoken, Releases
  <2>9. TidTrue(m)'
    BY <1>1, <2>2, <2>3, <2>4, <2>8 DEF TidTrue
  <2> QED  BY <2>7, <2>9
<1>6. CASE UnlockTid(t)
  <2>1. /\ mpc[t] = "unlock_tid" /\ Goto(t, "unlock_list") /\ UNCHANGED lockVars
        /\ initialized' = initialized
        /\ mutex_tid' = [mutex_tid EXCEPT ![m] = -1]
    BY <1>2, <1>6 DEF UnlockTid, At
  <2>2. mpc'[t] = "unlock_list" /\ \A s \in Tid : s # t => mpc'[s] = mpc[s]
    BY <1>2, <2>1, OthersStay
  <2>3. mutex_tid'[m] = -1 /\ -1 \notin Tid
    BY <1>2, <2>1, MainIsThread
  <2>4. OneWinner(m)'
    BY <2>1, <2>2 DEF OneWinner, lockVars
  <2>5. TidTrue(m)'
    BY <2>3 DEF TidTrue
  <2> QED  BY <2>4, <2>5
<1> QED  BY <1>3, <1>4, <1>5, <1>6

LEMMA SetupKeepsWinner ==
  ASSUME XInv, NEW m, Mutexes = {m}, OneWinner(m), TidTrue(m), WordKept(m),
         [MutexNext]_allVars,
         InitFlag(m) \/ DestroyTas(m) \/ InitWord \/ InitMid \/ DestroyFlag
  PROVE  OneWinner(m)' /\ TidTrue(m)'
<1>1. PICK label \in Setup \cup {"none"} : Goto(Main, label)
  BY DEF InitFlag, DestroyTas, InitWord, InitMid, DestroyFlag, Setup
<1>2. /\ mpc'[Main] = label /\ \A s \in Tid : s # Main => mpc'[s] = mpc[s]
      /\ mpc[Main] \in Setup \cup {"none"} /\ Main \in Tid
      /\ UNCHANGED <<mutex_tid, acquired>>
  <2>1. LocalTypes /\ Main \in Tid
    BY TypeParts, MainIsThread DEF XInv
  <2>2. mpc[Main] \in Setup \cup {"none"} /\ UNCHANGED <<mutex_tid, acquired>>
    BY DEF InitFlag, DestroyTas, InitWord, InitMid, DestroyFlag, At, Setup, fieldVars, lockVars
  <2> QED  BY <1>1, <2>1, <2>2, OthersStay
<1>3. \A s \in Tid : /\ Releases(s)' <=> Releases(s)
                     /\ \A l \in MutexPC \ (Setup \cup {"none"}) : mpc'[s] = l <=> mpc[s] = l
  BY <1>1, <1>2 DEF Releases, Setup
<1>4. Live' => Live /\ (Unwoken => Unwoken')
  <2>1. \A s \in Tid : mpc[s] = "lock_own" => mpc'[s] # "held"
    BY <1>1, <1>2 DEF Setup
  <2> QED  BY <1>3, <2>1, StaysUnwoken, StaysLive
<1>5. acquired[m] = {} \/ mutex_lock'[m] = mutex_lock[m]
  <2>1. InitWord => acquired[m] = {}
    <3>1. mpc[Main] # "none" => marg[Main] = m
      BY <1>2, OnlyMutex
    <3> QED  BY <3>1 DEF InitWord, At, WordKept, Closed
  <2>2. DestroyTas(m) => acquired[m] = {}
    BY DEF DestroyTas, OneWinner
  <2> QED  BY <2>1, <2>2 DEF InitFlag, InitMid, DestroyFlag, lockVars
<1>6. OneWinner(m)'
  <2>1. \A t \in Tid : mpc'[t] \in {"lock_own", "unlock_release"} => mpc'[t] = mpc[t]
    BY <1>1, <1>2 DEF Setup
  <2> QED  BY <1>2, <1>5, <2>1 DEF OneWinner
<1>7. TidTrue(m)'
  <2>1. \A t \in Tid : mpc[t] \in {"held", "unlock_release", "unlock_tid"} => mpc'[t] = mpc[t]
    BY <1>2 DEF Setup
  <2> QED  BY <1>2, <1>4, <2>1 DEF TidTrue
<1> QED  BY <1>6, <1>7

LEMMA StepKeepsWinner ==
  ASSUME XInv, NEW m, Mutexes = {m}, OneWinner(m), TidTrue(m), WordKept(m), [MutexNext]_allVars
  PROVE  OneWinner(m)' /\ TidTrue(m)'
<1>1. ASSUME \/ \E n \in Mutexes : InitFlag(n) \/ DestroyTas(n)
             \/ InitWord \/ InitMid \/ DestroyFlag
      PROVE  OneWinner(m)' /\ TidTrue(m)'
  <2>1. InitFlag(m) \/ DestroyTas(m) \/ InitWord \/ InitMid \/ DestroyFlag
    BY <1>1
  <2> QED  BY <2>1, SetupKeepsWinner
<1>2. ASSUME NEW t \in Tid, LockTas(t) \/ LockOwn(t) PROVE OneWinner(m)' /\ TidTrue(m)'
  BY <1>2, LockKeepsWinner
<1>3. ASSUME NEW t \in Tid, UnlockCheck(t) \/ UnlockRelease(t) \/ UnlockTid(t)
      PROVE  OneWinner(m)' /\ TidTrue(m)'
  BY <1>3, UnlockKeepsWinner
<1>4. ASSUME UNCHANGED <<mutex_tid, acquired, mutex_lock, mpc>>
      PROVE  OneWinner(m)' /\ TidTrue(m)'
  BY <1>4, QuietStep
<1>5. ASSUME NEW t \in Tid,
             \/ \E n \in Mutexes : LockCheck(t, n)
             \/ LockMark(t) \/ LockLast(t) \/ LockAdd(t) \/ LockYield(t) \/ LockReturn(t)
             \/ UnlockList(t) \/ WalkUnlink(t) \/ WalkWake(t) \/ WalkFree(t) \/ WalkDone(t)
      PROVE  OneWinner(m)' /\ TidTrue(m)'
  <2>1. LocalTypes
    BY TypeParts DEF XInv
  <2>2. UNCHANGED <<mutex_tid, acquired, mutex_lock>>
    BY <1>5 DEF LockCheck, LockMark, LockLast, LockAdd, LockYield, LockReturn, UnlockList,
                WalkUnlink, WalkWake, WalkFree, WalkDone, fieldVars, lockVars
  <2>3. PICK label :
          /\ Goto(t, label)
          /\ \/ /\ mpc[t] \in {"none", "lock_mark", "lock_last", "lock_add", "lock_wait",
                              "lock_return"}
                /\ label \in {"lock_tas", "lock_last", "lock_add", "lock_wait", "lock_return",
                             "held"}
             \/ /\ mpc[t] \in {"unlock_list", "walk", "wake", "free"}
                /\ label \in {"walk", "wake", "free", "none"}
    BY <1>5 DEF LockCheck, LockMark, LockLast, LockAdd, LockYield, LockReturn, UnlockList,
                WalkUnlink, WalkWake, WalkFree, WalkDone, At
  <2>4. mpc'[t] = label /\ \A s \in Tid : s # t => mpc'[s] = mpc[s]
    BY <2>1, <2>3, OthersStay
  <2>5. /\ mpc[t] \notin {"lock_own", "held", "unlock_release", "unlock_tid"}
        /\ mpc'[t] \notin {"lock_own", "unlock_release"}
        /\ Releases(t)' => Releases(t)
    BY <2>3, <2>4 DEF Releases
  <2> QED  BY <2>2, <2>4, <2>5, QuietStep
<1>6. ASSUME NEW t \in Tid, WalkSkip(t) \/ Dangling(t) PROVE OneWinner(m)' /\ TidTrue(m)'
  BY <1>4, <1>6 DEF WalkSkip, Dangling, mutexVars, fieldVars, lockVars
<1>7. ASSUME NEW t \in Tid, MutexStep(t) PROVE OneWinner(m)' /\ TidTrue(m)'
  BY <1>2, <1>3, <1>5, <1>6, <1>7 DEF MutexStep
<1>8. ASSUME NEW t \in Tid, MutexTick(t) \/ OtherCall(t) PROVE OneWinner(m)' /\ TidTrue(m)'
  BY <1>4, <1>8 DEF MutexTick, OtherCall, mutexVars, fieldVars, lockVars
<1>9. ASSUME OtherCreate \/ MutexCreateFirst \/ SchedulerStep
      PROVE  OneWinner(m)' /\ TidTrue(m)'
  BY <1>4, <1>9 DEF OtherCreate, MutexCreateFirst, SchedulerStep, mutexVars, fieldVars, lockVars
<1>10. ASSUME UNCHANGED allVars PROVE OneWinner(m)' /\ TidTrue(m)'
  BY <1>4, <1>10 DEF allVars, mutexVars, fieldVars, lockVars
<1> QED  BY <1>1, <1>7, <1>8, <1>9, <1>10 DEF MutexNext

LEMMA InitUnwoken ==
  ASSUME NEW m, Mutexes = {m}, MutexInit PROVE OneWinner(m) /\ TidTrue(m) /\ WordKept(m)
<1>1. /\ \A t \in Tid : mpc[t] = "none"
      /\ acquired[m] = {} /\ mutex_tid[m] = 0
  BY DEF MutexInit
<1>2. /\ \A k \in 1 .. 3 : Len(run_queue[k]) = 0
      /\ Len(join_waiting_queue) = 0 /\ phase = "thread"
  BY DEF MutexInit, Init
<1>3. MainOnce
  BY <1>1, <1>2, MainIsThread DEF MainOnce, OnceQueued, OnceWaiting, Waiting, InLock
<1>4. Unwoken
  BY <1>1, <1>3, MainIsThread DEF Unwoken, MainSingle, Releases
<1> QED  BY <1>1, <1>4, MainIsThread DEF OneWinner, TidTrue, WordKept, Main

LEMMA WinnersInvariant ==
  ASSUME NEW m, Mutexes = {m}, EarlyUse = {}
  PROVE  MutexSpec => [](OneWinner(m) /\ TidTrue(m) /\ WordKept(m))
<1>1. MutexInit => OneWinner(m) /\ TidTrue(m) /\ WordKept(m)
  BY InitUnwoken
<1>2. XInv /\ (OneWinner(m) /\ TidTrue(m) /\ WordKept(m)) /\ [MutexNext]_allVars
        => (OneWinner(m) /\ TidTrue(m) /\ WordKept(m))'
  <2>1. ASSUME XInv, OneWinner(m), TidTrue(m), WordKept(m), [MutexNext]_allVars
        PROVE  OneWinner(m)' /\ TidTrue(m)' /\ WordKept(m)'
    BY <2>1, StepKeepsWinner, StepKeepsWord DEF OneWinner
  <2> QED  BY <2>1
<1> QED  BY <1>1, <1>2, MutexInvariant, PTL DEF MutexSpec

(* Mutual exclusion of the lock word, in a program with one mutex: at most    *)
(* one thread has won the test-and-set in mypthread_mutex_lock and not yet    *)
(* reached the store that clears it in mypthread_mutex_unlock, and until then *)
(* the word is 1, whatever the signal interrupts and however many threads     *)
(* are woken without having won.  No thread may lock it before main's init    *)
(* has returned, or init could clear a word that has been won; with two       *)
(* mutexes it is false: README shows both.                                    *)
THEOREM OneMutexExcludes ==
  ASSUME NEW m, Mutexes = {m}, EarlyUse = {} PROVE MutexSpec => []TasExclusive
<1>1. ASSUME OneWinner(m) PROVE TasExclusive
  <2> SUFFICES Cardinality(acquired[m]) <= 1 /\ (acquired[m] # {} => mutex_lock[m] = 1)
    BY DEF TasExclusive
  <2>1. acquired[m] # {} => mutex_lock[m] = 1
    BY <1>1 DEF OneWinner
  <2>2. CASE acquired[m] = {}
    <3>1. Cardinality(acquired[m]) = 0
      BY <2>2, FS_EmptySet
    <3> QED  BY <2>1, <3>1
  <2>3. CASE acquired[m] # {}
    <3>1. PICK t : t \in acquired[m]
      BY <2>3
    <3>2. acquired[m] = {t}
      BY <1>1, <3>1 DEF OneWinner
    <3>3. Cardinality({t}) = 1
      BY FS_Singleton
    <3> QED  BY <2>1, <3>2, <3>3
  <2> QED  BY <2>2, <2>3
<1>2. MutexSpec => [](OneWinner(m) /\ TidTrue(m) /\ WordKept(m))
  BY WinnersInvariant
<1>3. OneWinner(m) /\ TidTrue(m) /\ WordKept(m) => TasExclusive
  BY <1>1
<1> QED  BY <1>2, <1>3, PTL

---------------------------------------------------------------------------
(* A program whose main does not lock. *)

(* The same of any one of its mutexes, for the threads that are in a call for *)
(* it; what a static mutex names at first is main, which never gets to the    *)
(* test of it in mypthread_mutex_unlock.                                      *)
OneWinnerOf(m) ==
  /\ \A t \in acquired[m] : mutex_lock[m] = 1
  /\ \A s, t \in acquired[m] : s = t
  /\ \A t \in Tid : marg[t] = m /\ mpc[t] \in {"lock_own", "unlock_release"} => t \in acquired[m]

TidTrueOf(m) ==
  \A t \in Tid : mutex_tid[m] = t =>
    \/ t = Main
    \/ marg[t] = m /\ t \in acquired[m] /\ mpc[t] \in {"held", "unlock_release"}
    \/ marg[t] = m /\ mpc[t] = "unlock_tid"

WonBy(m) == OneWinnerOf(m) /\ TidTrueOf(m)

(* The fields of m stay, and so does what the threads do with them.           *)
LEMMA ElsewhereKeeps ==
  ASSUME NEW m, WonBy(m),
         mutex_tid'[m] = mutex_tid[m], acquired'[m] = acquired[m],
         mutex_lock'[m] = mutex_lock[m],
         \A s \in Tid :
           \/ mpc'[s] = mpc[s] /\ marg'[s] = marg[s]
           \/ marg[s] # m /\ marg'[s] # m
           \/ /\ mpc[s] \notin {"lock_own", "held", "unlock_release", "unlock_tid"}
              /\ mpc'[s] \notin {"lock_own", "unlock_release"}
  PROVE  WonBy(m)'
<1>1. OneWinnerOf(m)'
  BY DEF WonBy, OneWinnerOf
<1>2. TidTrueOf(m)'
  BY DEF WonBy, TidTrueOf
<1> QED  BY <1>1, <1>2 DEF WonBy

LEMMA SameKeepsWon ==
  ASSUME NEW m, WonBy(m), UNCHANGED <<mutex_tid, acquired, mutex_lock, mpc, marg>>
  PROVE  WonBy(m)'
BY ElsewhereKeeps

LEMMA SetupKeepsWon ==
  ASSUME XInv, NEW m \in Mutexes, WonBy(m), WordKept(m),
         \/ \E n \in Mutexes : InitFlag(n) \/ DestroyTas(n)
         \/ InitWord \/ InitMid \/ DestroyFlag
  PROVE  WonBy(m)'
<1>1. /\ LocalTypes /\ Main \in Tid /\ mutex_lock \in [Mutexes -> {0, 1}]
      /\ mpc[Main] # "none" => marg[Main] \in Mutexes
  BY TypeParts, MainIsThread, SameLocals DEF XInv, LockTypes
<1>2. PICK label \in Setup \cup {"none"} : Goto(Main, label)
  BY DEF InitFlag, DestroyTas, InitWord, InitMid, DestroyFlag, Setup
<1>3. /\ mpc'[Main] = label /\ \A s \in Tid : s # Main => mpc'[s] = mpc[s]
      /\ mpc[Main] \in Setup \cup {"none"}
  BY <1>1, <1>2, OthersStay DEF InitFlag, DestroyTas, InitWord, InitMid, DestroyFlag, At, Setup
<1>4. /\ UNCHANGED <<mutex_tid, acquired>>
      /\ marg' = marg \/ \E n : marg' = [marg EXCEPT ![Main] = n]
  BY DEF InitFlag, DestroyTas, InitWord, InitMid, DestroyFlag, fieldVars, lockVars, localVars
<1>5. \A s \in Tid : s # Main => marg'[s] = marg[s]
  BY <1>1, <1>4 DEF LocalTypes
<1>6. acquired[m] = {} \/ mutex_lock'[m] = mutex_lock[m]
  <2>1. CASE InitWord
    <3>1. mpc[Main] = "init_word" /\ mutex_lock' = [mutex_lock EXCEPT ![marg[Main]] = 0]
      BY <2>1 DEF InitWord, At
    <3>2. marg[Main] = m => acquired[m] = {}
      BY <3>1 DEF WordKept, Closed
    <3> QED  BY <1>1, <3>1, <3>2
  <2>2. ASSUME NEW n \in Mutexes, DestroyTas(n)
        PROVE  acquired[m] = {} \/ mutex_lock'[m] = mutex_lock[m]
    <3>1. mutex_lock[n] = 0 /\ mutex_lock' = [mutex_lock EXCEPT ![n] = 1]
      BY <2>2 DEF DestroyTas
    <3>2. n = m => acquired[m] = {}
      BY <3>1 DEF WonBy, OneWinnerOf
    <3> QED  BY <1>1, <3>1, <3>2
  <2> QED  BY <2>1, <2>2 DEF InitFlag, InitMid, DestroyFlag, lockVars
<1>7. OneWinnerOf(m)'
  <2>1. \A t \in Tid : mpc'[t] \in {"lock_own", "unlock_release"} =>
          mpc'[t] = mpc[t] /\ marg'[t] = marg[t]
    BY <1>2, <1>3, <1>5 DEF Setup
  <2> QED  BY <1>4, <1>6, <2>1 DEF WonBy, OneWinnerOf
<1>8. TidTrueOf(m)'
  BY <1>3, <1>4, <1>5 DEF WonBy, TidTrueOf
<1> QED  BY <1>7, <1>8 DEF WonBy

(* A thread wins the test-and-set of m, or fails in it.                       *)
LEMMA LockTasKeepsWon ==
  ASSUME XInv, NEW m \in Mutexes, WonBy(m), NEW t \in Tid, marg[t] = m, LockTas(t)
  PROVE  WonBy(m)'
<1>1. LocalTypes /\ mutex_lock \in [Mutexes -> {0, 1}] /\ acquired \in [Mutexes -> SUBSET Tid]
  BY TypeParts DEF XInv, LockTypes
<1>2. /\ mpc[t] = "lock_tas" /\ UNCHANGED fieldVars
      /\ mutex_lock' = [mutex_lock EXCEPT ![m] = 1] /\ marg' = marg
      /\ \/ /\ mutex_lock[m] = 0 /\ Goto(t, "lock_own")
            /\ acquired' = [acquired EXCEPT ![m] = @ \cup {t}]
         \/ mutex_lock[m] = 1 /\ Goto(t, "lock_mark") /\ acquired' = acquired
  BY DEF LockTas, At, localVars
<1>3. /\ mpc'[t] \in {"lock_own", "lock_mark"} /\ mutex_lock'[m] = 1
      /\ mutex_tid' = mutex_tid
      /\ \A s \in Tid : s # t => mpc'[s] = mpc[s] /\ marg'[s] = marg[s]
  BY <1>1, <1>2, OthersStay DEF fieldVars
<1>4. \/ acquired[m] = {} /\ acquired'[m] = {t}
      \/ acquired'[m] = acquired[m] /\ mpc'[t] = "lock_mark"
  <2>1. CASE mutex_lock[m] = 0
    <3>1. acquired[m] = {}
      BY <2>1 DEF WonBy, OneWinnerOf
    <3> QED  BY <1>1, <1>2, <2>1, <3>1
  <2>2. CASE mutex_lock[m] # 0
    BY <1>1, <1>2, <2>2, OthersStay
  <2> QED  BY <2>1, <2>2
<1>5. OneWinnerOf(m)'
  BY <1>2, <1>3, <1>4 DEF WonBy, OneWinnerOf
<1>6. TidTrueOf(m)'
  BY <1>2, <1>3, <1>4 DEF WonBy, TidTrueOf
<1> QED  BY <1>5, <1>6 DEF WonBy

(* The steps of a thread that is not main in a call for m which read or write *)
(* its fields.                                                                *)
LEMMA OwnerKeepsWon ==
  ASSUME XInv, NEW m \in Mutexes, WonBy(m), WordKept(m), NEW t \in Tid, t # Main, marg[t] = m,
         LockOwn(t) \/ UnlockCheck(t) \/ UnlockRelease(t) \/ UnlockTid(t)
  PROVE  WonBy(m)'
<1>1. /\ LocalTypes /\ SchedulerFacts /\ acquired \in [Mutexes -> SUBSET Tid]
      /\ mutex_tid \in [Mutexes -> Tid \cup {-1}]
  BY TypeParts DEF XInv, LockTypes, FieldTypes
<1>2. mpc[t] \notin Setup \cup {"none"}
  BY DEF LockOwn, UnlockCheck, UnlockRelease, UnlockTid, At, Setup
<1>3. Executing(t) => get_current_thread = t
  <2>1. thread_number > 0
    BY <1>2 DEF XInv, CallsAfterCreate
  <2> QED  BY <1>1, <2>1, CallerFirst
<1>4. CASE LockOwn(t)
  <2>1. /\ mpc[t] = "lock_own" /\ Goto(t, "held") /\ UNCHANGED <<lockVars, initialized, marg>>
        /\ mutex_tid' = [mutex_tid EXCEPT ![m] = t]
    BY <1>3, <1>4 DEF LockOwn, At, localVars
  <2>2. mpc'[t] = "held" /\ \A s \in Tid : s # t => mpc'[s] = mpc[s]
    BY <1>1, <2>1, OthersStay
  <2>3. mutex_tid'[m] = t /\ t \in acquired[m] /\ UNCHANGED <<acquired, mutex_lock>>
    BY <1>1, <2>1 DEF WonBy, OneWinnerOf, lockVars
  <2>4. OneWinnerOf(m)'
    BY <2>1, <2>2, <2>3 DEF WonBy, OneWinnerOf
  <2>5. TidTrueOf(m)'
    BY <2>1, <2>2, <2>3 DEF TidTrueOf
  <2> QED  BY <2>4, <2>5 DEF WonBy
<1>5. CASE UnlockCheck(t) /\ initialized[m] /\ t = mutex_tid[m]
  <2>1. mpc[t] = "held" /\ Goto(t, "unlock_release") /\ UNCHANGED <<fieldVars, lockVars, marg>>
    BY <1>3, <1>5 DEF UnlockCheck, At
  <2>2. mpc'[t] = "unlock_release" /\ \A s \in Tid : s # t => mpc'[s] = mpc[s]
    BY <1>1, <2>1, OthersStay
  <2>3. UNCHANGED <<mutex_tid, acquired, mutex_lock, initialized>>
    BY <2>1 DEF fieldVars, lockVars
  <2>4. t \in acquired[m]
    BY <1>5, <2>1 DEF WonBy, TidTrueOf
  <2>5. OneWinnerOf(m)'
    BY <2>1, <2>2, <2>3, <2>4 DEF WonBy, OneWinnerOf
  <2>6. TidTrueOf(m)'
    BY <1>5, <2>1, <2>2, <2>3, <2>4 DEF TidTrueOf
  <2> QED  BY <2>5, <2>6 DEF WonBy
<1>6. CASE UnlockCheck(t) /\ ~(initialized[m] /\ t = mutex_tid[m])
  <2>1. /\ mpc[t] = "held" /\ Goto(t, "none") /\ UNCHANGED <<fieldVars, lockVars>>
        /\ marg' = [marg EXCEPT ![t] = NoMutex]
    BY <1>3, <1>6 DEF UnlockCheck, At
  <2>2. /\ mpc'[t] = "none"
        /\ \A s \in Tid : s # t => mpc'[s] = mpc[s] /\ marg'[s] = marg[s]
    BY <1>1, <2>1, OthersStay DEF LocalTypes
  <2>3. UNCHANGED <<mutex_tid, acquired, mutex_lock, initialized>>
    BY <2>1 DEF fieldVars, lockVars
  <2>4. OneWinnerOf(m)'
    BY <2>2, <2>3 DEF WonBy, OneWinnerOf
  <2>5. ASSUME mutex_tid[m] = t, t \in acquired[m] PROVE FALSE
    <3>1. initialized[m]
      BY <2>5 DEF WordKept, Closed
    <3>2. Executing(t) /\ get_current_thread # t
      BY <1>6, <2>5, <3>1 DEF UnlockCheck
    <3> QED  BY <1>3, <3>2
  <2>6. TidTrueOf(m)'
    BY <2>1, <2>2, <2>3, <2>5 DEF WonBy, TidTrueOf
  <2> QED  BY <2>4, <2>6 DEF WonBy
<1>7. CASE UnlockRelease(t)
  <2>1. /\ mpc[t] = "unlock_release" /\ Goto(t, "unlock_tid") /\ UNCHANGED <<fieldVars, marg>>
        /\ acquired' = [acquired EXCEPT ![m] = @ \ {t}]
    BY <1>7 DEF UnlockRelease, At, localVars
  <2>2. mpc'[t] = "unlock_tid" /\ \A s \in Tid : s # t => mpc'[s] = mpc[s]
    BY <1>1, <2>1, OthersStay
  <2>3. mutex_tid' = mutex_tid /\ acquired'[m] = acquired[m] \ {t}
    BY <1>1, <2>1 DEF fieldVars
  <2>4. t \in acquired[m] /\ \A s \in acquired[m] : s = t
    BY <2>1 DEF WonBy, OneWinnerOf
  <2>5. acquired'[m] = {}
    BY <2>3, <2>4
  <2>6. \A s \in Tid : marg'[s] = m => mpc'[s] \notin {"lock_own", "unlock_release"}
    BY <2>1, <2>2, <2>4 DEF WonBy, OneWinnerOf
  <2>7. OneWinnerOf(m)'
    BY <2>5, <2>6 DEF OneWinnerOf
  <2>8. TidTrueOf(m)'
    BY <2>1, <2>2, <2>3, <2>4 DEF WonBy, TidTrueOf
  <2> QED  BY <2>7, <2>8 DEF WonBy
<1>8. CASE UnlockTid(t)
  <2>1. /\ mpc[t] = "unlock_tid" /\ Goto(t, "unlock_list")
        /\ UNCHANGED <<lockVars, initialized, marg>>
        /\ mutex_tid' = [mutex_tid EXCEPT ![m] = -1]
    BY <1>8 DEF UnlockTid, At, localVars
  <2>2. mpc'[t] = "unlock_list" /\ \A s \in Tid : s # t => mpc'[s] = mpc[s]
    BY <1>1, <2>1, OthersStay
  <2>3. mutex_tid'[m] = -1 /\ -1 \notin Tid
    BY <1>1, <2>1, MainIsThread
  <2>4. OneWinnerOf(m)'
    BY <2>1, <2>2 DEF WonBy, OneWinnerOf, lockVars
  <2>5. TidTrueOf(m)'
    BY <2>3 DEF TidTrueOf
  <2> QED  BY <2>4, <2>5 DEF WonBy
<1> QED  BY <1>4, <1>5, <1>6, <1>7, <1>8

(* The same steps in a call for another mutex.                                *)
LEMMA OthersOwnerKeepsWon ==
  ASSUME XInv, NEW m \in Mutexes, WonBy(m), NEW t \in Tid, marg[t] # m,
         LockOwn(t) \/ UnlockCheck(t) \/ UnlockRelease(t) \/ UnlockTid(t)
  PROVE  WonBy(m)'
<1>1. /\ LocalTypes /\ acquired \in [Mutexes -> SUBSET Tid] /\ mutex_lock \in [Mutexes -> {0, 1}]
      /\ mutex_tid \in [Mutexes -> Tid \cup {-1}]
  BY TypeParts DEF XInv, LockTypes, FieldTypes
<1>2. /\ mutex_tid' = mutex_tid \/ \E i : mutex_tid' = [mutex_tid EXCEPT ![marg[t]] = i]
      /\ acquired' = acquired \/ acquired' = [acquired EXCEPT ![marg[t]] = @ \ {t}]
      /\ mutex_lock' = mutex_lock \/ mutex_lock' = [mutex_lock EXCEPT ![marg[t]] = 0]
  BY DEF LockOwn, UnlockCheck, UnlockRelease, UnlockTid, fieldVars, lockVars
<1>3. /\ mutex_tid'[m] = mutex_tid[m] /\ acquired'[m] = acquired[m]
      /\ mutex_lock'[m] = mutex_lock[m]
  BY <1>1, <1>2
<1>4. /\ \E label : Goto(t, label)
      /\ marg' = marg \/ marg' = [marg EXCEPT ![t] = NoMutex]
  BY DEF LockOwn, UnlockCheck, UnlockRelease, UnlockTid, localVars
<1>5. /\ marg'[t] # m
      /\ \A s \in Tid : s # t => mpc'[s] = mpc[s] /\ marg'[s] = marg[s]
  BY <1>1, <1>4, MutexAssumption DEF LocalTypes, Goto
<1> QED  BY <1>2, <1>3, <1>5, ElsewhereKeeps

(* The steps of a call which leave every mutex as it is.                      *)
LEMMA ListKeepsWon ==
  ASSUME XInv, NEW m \in Mutexes, WonBy(m), NEW t \in Tid,
         \/ \E n \in Mutexes : LockCheck(t, n)
         \/ LockMark(t) \/ LockLast(t) \/ LockAdd(t) \/ LockYield(t) \/ LockReturn(t)
         \/ UnlockList(t) \/ WalkUnlink(t) \/ WalkWake(t) \/ WalkFree(t) \/ WalkDone(t)
  PROVE  WonBy(m)'
<1>1. LocalTypes
  BY TypeParts DEF XInv
<1>2. UNCHANGED fieldVars /\ UNCHANGED <<acquired, mutex_lock>>
  BY DEF LockCheck, LockMark, LockLast, LockAdd, LockYield, LockReturn, UnlockList, WalkUnlink,
         WalkWake, WalkFree, WalkDone, lockVars
<1>3. UNCHANGED <<mutex_tid, acquired, mutex_lock>>
  BY <1>2 DEF fieldVars
<1>4. PICK label :
        /\ Goto(t, label)
        /\ \/ /\ mpc[t] \in {"none", "lock_mark", "lock_last", "lock_add", "lock_wait",
                            "lock_return"}
              /\ label \in {"lock_tas", "lock_last", "lock_add", "lock_wait", "lock_return",
                           "held"}
           \/ /\ mpc[t] \in {"unlock_list", "walk", "wake", "free"}
              /\ label \in {"walk", "wake", "free", "none"}
  BY DEF LockCheck, LockMark, LockLast, LockAdd, LockYield, LockReturn, UnlockList, WalkUnlink,
         WalkWake, WalkFree, WalkDone, At
<1>5. mpc'[t] = label /\ \A s \in Tid : s # t => mpc'[s] = mpc[s]
  BY <1>1, <1>4, OthersStay
<1>6. marg' = marg \/ \E n : marg' = [marg EXCEPT ![t] = n]
  BY DEF LockCheck, LockMark, LockLast, LockAdd, LockYield, LockReturn, UnlockList, WalkUnlink,
         WalkWake, WalkFree, WalkDone, localVars
<1>7. \A s \in Tid : s # t => marg'[s] = marg[s]
  BY <1>1, <1>6 DEF LocalTypes
<1>8. /\ mpc[t] \notin {"lock_own", "held", "unlock_release", "unlock_tid"}
      /\ mpc'[t] \notin {"lock_own", "unlock_release"}
  BY <1>4, <1>5
<1> QED  BY <1>3, <1>5, <1>7, <1>8, ElsewhereKeeps

(* The test-and-set of another mutex.                                         *)
LEMMA OtherTasKeepsWon ==
  ASSUME XInv, NEW m \in Mutexes, WonBy(m), NEW t \in Tid, marg[t] # m, LockTas(t)
  PROVE  WonBy(m)'
<1>1. LocalTypes /\ mutex_lock \in [Mutexes -> {0, 1}] /\ acquired \in [Mutexes -> SUBSET Tid]
  BY TypeParts DEF XInv, LockTypes
<1>2. /\ UNCHANGED fieldVars /\ marg' = marg
      /\ mutex_lock' = [mutex_lock EXCEPT ![marg[t]] = 1]
      /\ acquired' = acquired \/ acquired' = [acquired EXCEPT ![marg[t]] = @ \cup {t}]
      /\ \E label : Goto(t, label)
  BY DEF LockTas, localVars
<1>3. /\ mutex_lock'[m] = mutex_lock[m] /\ acquired'[m] = acquired[m]
      /\ mutex_tid' = mutex_tid
  BY <1>1, <1>2 DEF fieldVars
<1>4. \A s \in Tid : s # t => mpc'[s] = mpc[s]
  BY <1>1, <1>2 DEF LocalTypes, Goto
<1> QED  BY <1>2, <1>3, <1>4, ElsewhereKeeps

LEMMA StepKeepsWon ==
  ASSUME XInv, NEW m \in Mutexes, WonBy(m), WordKept(m), mpc[Main] \in Setup \cup {"none"},
         [MutexNext]_allVars
  PROVE  WonBy(m)'
<1>1. ASSUME \/ \E n \in Mutexes : InitFlag(n) \/ DestroyTas(n)
             \/ InitWord \/ InitMid \/ DestroyFlag
      PROVE  WonBy(m)'
  BY <1>1, SetupKeepsWon
<1>2. ASSUME NEW t \in Tid, LockTas(t) PROVE WonBy(m)'
  BY <1>2, LockTasKeepsWon, OtherTasKeepsWon
<1>3. ASSUME NEW t \in Tid, LockOwn(t) \/ UnlockCheck(t) \/ UnlockRelease(t) \/ UnlockTid(t)
      PROVE  WonBy(m)'
  <2>1. t # Main
    BY <1>3 DEF LockOwn, UnlockCheck, UnlockRelease, UnlockTid, At, Setup
  <2> QED  BY <1>3, <2>1, OwnerKeepsWon, OthersOwnerKeepsWon
<1>4. ASSUME NEW t \in Tid,
             \/ \E n \in Mutexes : LockCheck(t, n)
             \/ LockMark(t) \/ LockLast(t) \/ LockAdd(t) \/ LockYield(t) \/ LockReturn(t)
             \/ UnlockList(t) \/ WalkUnlink(t) \/ WalkWake(t) \/ WalkFree(t) \/ WalkDone(t)
      PROVE  WonBy(m)'
  BY <1>4, ListKeepsWon
<1>5. ASSUME UNCHANGED <<mutex_tid, acquired, mutex_lock, mpc, marg>> PROVE WonBy(m)'
  BY <1>5, SameKeepsWon
<1>6. ASSUME NEW t \in Tid, WalkSkip(t) \/ Dangling(t) PROVE WonBy(m)'
  BY <1>5, <1>6 DEF WalkSkip, Dangling, mutexVars, fieldVars, lockVars, localVars
<1>7. ASSUME NEW t \in Tid, MutexStep(t) PROVE WonBy(m)'
  BY <1>2, <1>3, <1>4, <1>6, <1>7 DEF MutexStep
<1>8. ASSUME NEW t \in Tid, MutexTick(t) \/ OtherCall(t) PROVE WonBy(m)'
  BY <1>5, <1>8 DEF MutexTick, OtherCall, mutexVars, fieldVars, lockVars, localVars
<1>9. ASSUME OtherCreate \/ MutexCreateFirst \/ SchedulerStep PROVE WonBy(m)'
  BY <1>5, <1>9 DEF OtherCreate, MutexCreateFirst, SchedulerStep, mutexVars, fieldVars,
                    lockVars, localVars
<1>10. ASSUME UNCHANGED allVars PROVE WonBy(m)'
  BY <1>5, <1>10 DEF allVars, mutexVars, fieldVars, lockVars, localVars
<1> QED  BY <1>1, <1>7, <1>8, <1>9, <1>10 DEF MutexNext

LEMMA WonInvariant ==
  ASSUME EarlyUse = {}
  PROVE  MutexSpec /\ [](mpc[Main] \in Setup \cup {"none"})
           => [](\A m \in Mutexes : WonBy(m) /\ WordKept(m))
<1>1. MutexInit => \A m \in Mutexes : WonBy(m) /\ WordKept(m)
  BY MainIsThread DEF MutexInit, WonBy, OneWinnerOf, TidTrueOf, WordKept, Main
<1>2. /\ XInv /\ mpc[Main] \in Setup \cup {"none"}
      /\ \A m \in Mutexes : WonBy(m) /\ WordKept(m)
      /\ [MutexNext]_allVars
      => (\A m \in Mutexes : WonBy(m) /\ WordKept(m))'
  BY StepKeepsWon, StepKeepsWord DEF WonBy, OneWinnerOf
<1> QED  BY <1>1, <1>2, MutexInvariant, PTL DEF MutexSpec

LEMMA OneWinnerIsOne ==
  ASSUME NEW m, OneWinnerOf(m)
  PROVE  Cardinality(acquired[m]) <= 1 /\ (acquired[m] # {} => mutex_lock[m] = 1)
<1>1. acquired[m] # {} => mutex_lock[m] = 1
  BY DEF OneWinnerOf
<1>2. CASE acquired[m] = {}
  <2>1. Cardinality(acquired[m]) = 0
    BY <1>2, FS_EmptySet
  <2> QED  BY <1>1, <2>1
<1>3. CASE acquired[m] # {}
  <2>1. PICK t : t \in acquired[m]
    BY <1>3
  <2>2. acquired[m] = {t}
    BY <2>1 DEF OneWinnerOf
  <2>3. Cardinality({t}) = 1
    BY FS_Singleton
  <2> QED  BY <1>1, <2>2, <2>3
<1> QED  BY <1>2, <1>3

(* Mutual exclusion of the lock words in a program of any number of mutexes   *)
(* whose main never calls mypthread_mutex_lock, as the programs here, and     *)
(* whose threads lock none before main's init of it has returned: the break   *)
(* the README shows of two mutexes needs main, whose tid is the 0 that an     *)
(* untouched mutex->tid is.                                                   *)
THEOREM ExcludesWithoutMain ==
  ASSUME EarlyUse = {}
  PROVE  MutexSpec /\ [](mpc[Main] \in Setup \cup {"none"}) => []TasExclusive
<1>1. (\A m \in Mutexes : WonBy(m) /\ WordKept(m)) => TasExclusive
  BY OneWinnerIsOne DEF WonBy, TasExclusive
<1> QED  BY <1>1, WonInvariant, PTL
=============================================================================
